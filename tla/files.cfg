SPECIFICATION FilesSpec
CONSTANTS
  Size = 2
  Sessions <- AllSessions
  MaxFaults = 2
INVARIANTS
  InStep
  NeverMisused
  RecordsComplete
  OutcomeAgreed
  FilesClosed
PROPERTY FilesEnd
CHECK_DEADLOCK FALSE
