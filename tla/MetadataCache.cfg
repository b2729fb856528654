SPECIFICATION CacheFairSpec
CONSTANTS
  Lookups = {l1, l2}
  Keys = {k1, k2}
  Ttl = 1
  Latency = 1
  MaxWait = 2
  PoolCap = 1
INVARIANT StalenessIsBounded
PROPERTY EveryLookupReturns
