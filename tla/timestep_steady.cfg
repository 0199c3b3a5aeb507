SPECIFICATION SteadySpec
CONSTANTS
  Start = 0
  EndTimes = {24}
  Options <- SkipOptions
  Inputs <- SteadyInputs
  MaxDt = 10
  SkipMax = 5
  UIntMax = 100
  BTULimit = 7
  HitMultiples = 0
  Epsilon = 1
  SnapTol = 1
INVARIANT SteadyEnergyStepStable
CHECK_DEADLOCK FALSE
