CONSTANTS
  Services = {db}
  Callers = {rpc}
  Insts <- MCInsts
  ServiceOf <- MCServiceOf
  Sessions <- MCSessions
  OwnerOf <- MCOwnerOf
  Addresses <- MCAddresses
  Home <- MCHome
  NoInst = NoInst
  NoSess = NoSess
  NoAddr = NoAddr
  MaxNetChanges = 2
  InstNames = 1
  SessNames = 2
SPECIFICATION FairSpec
PROPERTIES SessionsEndInOrder StopCompletes CancelledLoopEnds DeadSessionNoticed StaleSessionDropped
