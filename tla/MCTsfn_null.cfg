\* A worker queues on a function that was never created (a NULL handle),
\* which spec property 3 says is a no-op returning success.
CONSTANTS
  w1 = w1
  w2 = w2
  w3 = w3
  Workers <- MCWorkers
  MaxQueued = 2
  EnvTeardown = FALSE
  QueueOnNull = TRUE
  MayUnref = FALSE
  MaxExtra = 0
  Null = Null
  H = H

SPECIFICATION Spec

INVARIANT NullQueueIsNoOp
