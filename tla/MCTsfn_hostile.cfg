\* The binding may unref its function, after which the host event loop may
\* end and the environment tear the function down while it is owned; queue
\* calls on a NULL handle are allowed and the process may abort.
CONSTANTS
  w1 = w1
  w2 = w2
  w3 = w3
  Workers <- ThreeWorkers
  MaxQueued = 5
  EnvTeardown = FALSE
  QueueOnNull = TRUE
  MayUnref = TRUE
  MaxExtra = 2
  Null = Null
  H = H

SPECIFICATION Spec

INVARIANT RefAccounting

