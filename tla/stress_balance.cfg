SPECIFICATION FairSolverSpec
CONSTANTS
  Setups <- SetupType
  MaxFailures = 5
  MaxTries = 5
  MaxIterations = 3
  MaxUpdates = 4
  MaxRuns = 2
INVARIANT Recovery
PROPERTY UpdateEnds
CHECK_DEADLOCK FALSE
