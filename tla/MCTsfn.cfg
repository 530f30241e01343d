\* Three workers queueing at most four calls against one handle, released
\* with napi_tsfn_release; the host environment is not torn down.
CONSTANTS
  w1 = w1
  w2 = w2
  w3 = w3
  Workers <- ThreeWorkers
  MaxQueued = 4
  EnvTeardown = FALSE
  QueueOnNull = FALSE
  MayUnref = FALSE
  MaxExtra = 1
  Null = Null
  H = H

SPECIFICATION Spec

INVARIANT TypeOK
INVARIANT RefAccounting
INVARIANT NoFault

PROPERTY EveryQueuedCallRuns
PROPERTY NotPinned
PROPERTY ImplementsMailbox
