CONSTANTS
  InitialDelay = 2
  MaxDelay = 60
  StableAfter = 60
  RotationDelay = 1
  MaxDuration = 1023
  MaxAttempt = 9
SPECIFICATION Spec
PROPERTIES DelayWithinBounds
