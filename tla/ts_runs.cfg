SPECIFICATION Spec
CONSTANTS
  Start = 0
  MaxRuns = 3
  Plans <- AllPlans
  BufferSize = 2
  Diags <- TwoDiags
INVARIANTS
  SeriesConsistent
  AlignedSeriesComplete
  InterpolationRight
CHECK_DEADLOCK FALSE
