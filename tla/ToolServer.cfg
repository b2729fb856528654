CONSTANTS
  Calls = {c1, c2}
  Environments <- MCEnvironments
  CalledTools <- MCTools
  Arguments <- MCArguments
  Latencies = {2}
  MaxSubscriptions = 1
SPECIFICATION Spec
CHECK_DEADLOCK FALSE
INVARIANT AuditTellsTheTruth
INVARIANT NoDemoIdentityOnAPod
INVARIANT ReadOnlyServerIsReadOnly
INVARIANT MetricsAgree
PROPERTY HttpServerSettles
