SPECIFICATION Spec
CONSTANTS
  Calls = {w1, w2, w3}
  ReadOnly = {w3}
  Deferred = TRUE
\* The calls come to an end.
CHECK_DEADLOCK FALSE
INVARIANT PersistedOnlyIfVerified
INVARIANT ConfirmedReportsAreTrue
INVARIANT AuditTellsTheOutcome
