CONSTANT Conns = {c1, c2}
SPECIFICATION Spec
INVARIANTS IInv NothingSurvivesStop BothDirectionsFinish
PROPERTY StopReturns
CHECK_DEADLOCK FALSE
