CONSTANTS
  Ranks = {p0, p1}
  Root = p0
  Length = 3
  MaxSignals = 2
  MaxRuns = 2
  p0 = p0
  p1 = p1
SPECIFICATION Spec
CHECK_DEADLOCK FALSE
INVARIANTS Served Together BackupSurvives
PROPERTIES Ends
