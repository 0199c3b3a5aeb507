SPECIFICATION Spec
CONSTANTS
  Start = 0
  MaxRuns = 3
  Plans <- BothPlans
  Tol = 2
  Slack = 1
INVARIANTS
  ListedTimesRecorded
  ReportsConsistent
  SnapshotsBoundLoss
CHECK_DEADLOCK FALSE
