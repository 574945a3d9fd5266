SPECIFICATION Spec
CONSTANTS
  m1 = m1
  m2 = m2
  w1 = w1
  w2 = w2
  Messages = {m1}
  Workers = {w1, w2}
  Sites <- SharedDatabase
  MaxAttempts = 2
  BaseBackoff = 1
  BatchSize = 1
  MaxRounds = 2
  MaxFaults = 0
  MaxStops = 0
INVARIANT HeldByOne
