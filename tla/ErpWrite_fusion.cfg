SPECIFICATION Spec
CONSTANTS
  Calls = {w1, w2}
  ReadOnly = {}
  Deferred = FALSE
\* The calls come to an end.
CHECK_DEADLOCK FALSE
INVARIANTS
  CommittedMeansPersisted
