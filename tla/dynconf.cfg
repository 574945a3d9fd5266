SPECIFICATION Spec
CONSTANTS
  r1 = r1
  r2 = r2
  Replicas = {r1, r2}
  Callers <- TwoAndOne
  Sites <- TwoByTwo
  Keys = {k1}
  Values = {on, off}
  Absent = Absent
  TTL = 1
  MaxClock = 2
  MaxTroubles = 1
INVARIANT NeverOlderThanTTL
INVARIANT SetterForgetsPrevious
