CONSTANTS
  home = home
  office = office
  train = train
  s1 = s1
  s2 = s2
  Self = Self
  Stub = Stub
  NoAddrs = NoAddrs
  Networks <- MCNetworks
  AddrsOf <- MCAddrsOf
  ServersOf <- MCServersOf
  Handlers = {h1}
  Hostnames = {db}
SPECIFICATION Spec
INVARIANT Inv
PROPERTIES NetworkIsFollowed SleepIsNoticed QueryIsAnswered
