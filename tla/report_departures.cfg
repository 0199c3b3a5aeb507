SPECIFICATION Spec
CONSTANTS
  Start = 0
  MaxRuns = 2
  Plans <- DeparturePlans
  Tol = 2
  Slack = 1
INVARIANTS
  NoExtraRecord
  AppendNeedsNoFile
  RequestsRecorded
CHECK_DEADLOCK FALSE
