\* The addon loaded once and finalized.
CONSTANTS
  e1 = e1
  e2 = e2
  Envs <- MainOnly
  TraceLevels <- AllTraceLevels
  Unset = Unset
  NULL = NULL
  Default = Default
  Garbage = Garbage

SPECIFICATION Spec

INVARIANT FinalizeNoReadAfterFree
