SPECIFICATION Spec
CONSTANTS
  Setups <- AllSetups
  Start = 0
  End = 26
  Tol = 1
INVARIANTS
  StepServed
  BufferConsistent
CHECK_DEADLOCK FALSE
