SPECIFICATION Spec
CONSTANTS
  Start = 0
  EndTimes = {9, 20}
  Options <- DepartureOptions
  Inputs <- DiffusiveInputs
  MaxDt = 8
  SkipMax = 5
  UIntMax = 100
  BTULimit = 5
  HitMultiples = 3
  Epsilon = 1
  SnapTol = 1
INVARIANTS BedrockStepWithinLimit AgeTimeElapsed TempAgeIsLastUpdate
PROPERTY NeverPastEnd
CHECK_DEADLOCK FALSE
