SPECIFICATION FairSpec
CONSTANTS
  Callers = {a, b, c}
  MaxElicits = 1
  OutboxCap = 1
  InCap = 1
  OutCap = 1
  PipeCap = 1
\* The application may make no further call.
CHECK_DEADLOCK FALSE
PROPERTY ImplementsRemoteCall
PROPERTY CallsSucceedUnlessKilled
