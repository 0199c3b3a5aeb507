SPECIFICATION Spec
CONSTANTS
  Setups <- SingleRecord
  Start = 0
  End = 26
  Tol = 1
INVARIANT StepFits
CHECK_DEADLOCK FALSE
