\* The addon loaded by the main thread's environment and, after it is gone,
\* by a worker's; every kind of AWS_CRT_MEMORY_TRACING value: absent, 0, 1,
\* 2 and out of range on either side.
CONSTANTS
  e1 = e1
  e2 = e2
  Envs <- MainAndWorker
  TraceLevels <- AllTraceLevels
  Unset = Unset
  NULL = NULL
  Default = Default
  Garbage = Garbage

SPECIFICATION Spec

INVARIANT TypeOK
INVARIANT CachedAllocatorLive
INVARIANT ContextAllocatorLive
INVARIANT TeardownReleasesAll
INVARIANT LoopThreadAllocatorLive

PROPERTY FinalizeCompletes
