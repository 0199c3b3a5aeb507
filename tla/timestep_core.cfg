SPECIFICATION FairSpec
CONSTANTS
  Start = 0
  EndTimes = {5, 9}
  Options <- AllOptions
  Inputs <- KeyInputs
  MaxDt = 8
  SkipMax = 3
  UIntMax = 4
  BTULimit = 4
  HitMultiples = 3
  Epsilon = 1
  SnapTol = 1
INVARIANTS
  SkipBound
  EnergyClock
  EnergyTimeAccounted
PROPERTY ClockSpec
PROPERTY Terminates
CHECK_DEADLOCK FALSE
