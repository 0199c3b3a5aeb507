SPECIFICATION Spec
CONSTANTS
  Year = 8
  BalanceDay = 6
  Snowfall <- SnowfallValue
  MeltCapacity <- MeltValue
  Second = 2
  CacheInterval = 8
  BedInterval = 6
  BedMoves = {0, 1}
  CellCount = 4
  TillMax = 2
  Decay = 1
  MaxSubStep = 2
  Strip = {4}
  Scenarios <- AllScenarios
  Steps = {1, 3, 5, 7, 8, 9}
  Slack = 1
  Ends = {6, 12, 20}
  MaxThk = 2
  MaxRuns = 3
INVARIANTS ClimateCurrent BedCurrent StoresConsistent
PROPERTIES UpliftIsRate
CHECK_DEADLOCK FALSE
