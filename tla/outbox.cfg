SPECIFICATION FairSpec
CONSTANTS
  m1 = m1
  m2 = m2
  w1 = w1
  w2 = w2
  Messages = {m1, m2}
  Workers = {w1, w2}
  Sites <- AllSites
  MaxAttempts = 2
  BaseBackoff = 1
  BatchSize = 2
  MaxRounds = 2
  MaxFaults = 1
  MaxStops = 1
INVARIANT ClaimsHold
INVARIANT ExtraPublicationsAreOwed
PROPERTY ImplementsContract
PROPERTY EventuallySettled
CHECK_DEADLOCK FALSE
