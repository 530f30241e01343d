\* Three failing dispatches; every kind of thrown value and function, and
\* every answer of the string conversions.
CONSTANTS
  MaxCalls = 3
  Thrown <- AllThrown
  Functions <- AllFunctions
  NonThrowFailures <- CallFailures
SPECIFICATION Spec
INVARIANT TypeOK
INVARIANT ReportsWhatItExtracts
INVARIANT NoStalePendingFailure
