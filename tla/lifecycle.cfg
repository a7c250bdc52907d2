CONSTANTS
  Clis = {cli1, cli2}
  Daemons = {d1, d2}
SPECIFICATION Spec
INVARIANTS IInv PidLockHolds ServingIsReachable
PROPERTIES LeftoversDoNotBlock CommandEnds
