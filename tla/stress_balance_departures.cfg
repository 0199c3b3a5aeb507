SPECIFICATION SolverSpec
CONSTANTS
  Setups <- SetupType
  MaxFailures = 5
  MaxTries = 5
  MaxIterations = 2
  MaxUpdates = 3
  MaxRuns = 2
INVARIANTS FailureReported RegularizedAfterKSP
CHECK_DEADLOCK FALSE
