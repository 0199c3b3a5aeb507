SPECIFICATION FairSpec
CONSTANTS
  Start = 0
  EndTimes = {6}
  Options <- AllOptions
  Inputs <- DiffusiveInputs
  MaxDt = 0
  SkipMax = 3
  UIntMax = 100
  BTULimit = 4
  HitMultiples = 0
  Epsilon = 1
  SnapTol = 1
PROPERTY Terminates
CHECK_DEADLOCK FALSE
