SPECIFICATION Spec
CONSTANTS
  NRows = 3
  NCols = 3
  MaskGrounded = 1
  Images <- OneGrounded
INVARIANT RunsWellFormed
INVARIANT ComponentsFound
PROPERTY Terminates
CHECK_DEADLOCK FALSE
