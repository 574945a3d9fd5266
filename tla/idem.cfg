SPECIFICATION FairSpec
CONSTANTS
  Callers = {c1, c2, s1}
  Strangers = {s1}
  Sites <- AllSites
  TTL = 3
  MaxTroubles = 2
INVARIANT OneLiveHolder
INVARIANT NobodyRunsOnceMemorised
INVARIANT ReplayMatchesRequest
PROPERTY ImplementsContract
PROPERTY EveryCallEnds
CHECK_DEADLOCK FALSE
