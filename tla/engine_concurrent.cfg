CONSTANTS
  Services = {db}
  Callers = {rpc1, rpc2}
  Insts = {i1, i2}
  ServiceOf <- MCOnlyService
  Sessions <- MCSessions
  OwnerOf <- MCOwnerOf
  NoInst = NoInst
  NoSess = NoSess
  NoAddr = NoAddr
  Addresses <- MCAddresses
  Home <- MCHome
  MaxNetChanges = 0
  InstNames = 2
  SessNames = 1
SPECIFICATION ApartSpec
INVARIANTS Inv StopLeavesNothing LoudExit LiveSessionIsPublished SerialIfApart ReachableIfApart
PROPERTIES CancelledNeverConnects TunnelsIfApart
CONSTRAINT OverlapBound
SYMMETRY Symmetry
CHECK_DEADLOCK FALSE
