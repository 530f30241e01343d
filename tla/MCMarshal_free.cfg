CONSTANTS
  MaxLen = 2
  NULL = NULL
  Garbage = Garbage
SPECIFICATION Spec
INVARIANT NeverFreesHostMemory
