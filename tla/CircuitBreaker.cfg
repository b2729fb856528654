SPECIFICATION BreakerFairSpec
CONSTANTS
  Callers = {c1, c2}
  Threshold = 2
  OpenDuration = 2
  MaxAttempts = 2
  MaxFailures = 3
PROPERTY OpenLastsItsTime
PROPERTY EveryCallEnds
PROPERTY BreakerRecovers
