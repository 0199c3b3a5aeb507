SPECIFICATION SectionSpec
CONSTANTS
  Processors = {p0, p1, p2}
  Processor0 = p0
  Last = 5
  Kind <- KindValue
  Guarded <- GuardedValue
INVARIANT ProcessorsAgree
PROPERTY Terminates
CHECK_DEADLOCK FALSE
