CONSTANTS
  MaxCalls = 3
  Thrown <- Ordinary
  Functions <- AllFunctions
  NonThrowFailures <- CallFailures
SPECIFICATION Spec
INVARIANT NoStringLeak
