SPECIFICATION Spec
CONSTANTS
  c1 = c1
  c2 = c2
  NMessages = 2
  Readers = {c1}
  Sites <- OneRefusal
INVARIANT NothingLost
CHECK_DEADLOCK FALSE
