SPECIFICATION Spec
CONSTANTS
  MaxAttempts = 2
  MaxTries = 2
  MaxPaused = 1
  Sources = {s1}
  FailureSteps = {None}
  None = None
INVARIANT FailsOnlyByFaults
CHECK_DEADLOCK FALSE
