\* Failing dispatches where the callback threw nothing: the call failed in
\* the engine (e.g. the value dispatched is not a function).
CONSTANTS
  MaxCalls = 2
  Thrown <- Ordinary
  Functions = {"plain"}
  NonThrowFailures <- CallFailures
SPECIFICATION Spec
INVARIANT EngineErrorReported
