SPECIFICATION Spec
CONSTANTS
  Start = 0
  MaxRuns = 2
  Plans <- DeparturePlans
  BufferSize = 2
  Diags <- TwoDiags
INVARIANTS
  SamplesMatchTimes
  WithinLastStep
  SeriesComplete
  NoMissingValue
CHECK_DEADLOCK FALSE
