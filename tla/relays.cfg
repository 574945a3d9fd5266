SPECIFICATION FairSpec
CONSTANTS
  c1 = c1
  c2 = c2
  NMessages = 2
  Readers = {c1, c2}
  Sites <- AllSites
INVARIANT AtLeastOnce
PROPERTY EventuallyHandled
CHECK_DEADLOCK FALSE
