CONSTANTS
  Services = {db, cache, search}
  Bastions = {b1, b2}
  NoBastion = NoBastion
  Nobody = Nobody
SPECIFICATION Spec
INVARIANT Inv
PROPERTIES NoTargetComesBack SettlesOnOnline MutexIsHandedOn
