SPECIFICATION Spec
CONSTANTS
  Messages = {m1, m2}
  Workers = {w1}
  NConsumers = 1
  MaxAttempts = 2
  MaxMissed = 3
  MaxPanics = 1
  MaxCrashes = 1
  MaxExpiries = 1
  MaxLost = 1
SYMMETRY Symmetric
INVARIANT DoneHasEffect
INVARIANT EffectOnce
INVARIANT GivenUpIsDeserved
CHECK_DEADLOCK FALSE
