\* The host environment may be torn down while the binding owns the handle.
CONSTANTS
  w1 = w1
  w2 = w2
  w3 = w3
  Workers <- MCWorkers
  MaxQueued = 3
  EnvTeardown = TRUE
  QueueOnNull = FALSE
  MayUnref = FALSE
  MaxExtra = 1
  Null = Null
  H = H

SPECIFICATION Spec

INVARIANT QueueNeverFatal
