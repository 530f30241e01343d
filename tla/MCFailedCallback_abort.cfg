CONSTANTS
  MaxCalls = 3
  Thrown <- Unconvertible
  Functions = {"plain"}
  NonThrowFailures <- CallFailures
SPECIFICATION Spec
INVARIANT NeverAborts
