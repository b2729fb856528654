SPECIFICATION FairSpec
CONSTANTS
  Callers = {a, b}
  Questions = {7, 8}
  OutboxCap = 1
  PipeCap = 2
\* The application may make no further call.
CHECK_DEADLOCK FALSE
INVARIANT RepliesReachTheirCaller
PROPERTY CallsInFlightReturn
