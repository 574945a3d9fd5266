SPECIFICATION LoopsSpec
CONSTANTS
  Relays = {"kafka"}
  Subscriptions = {}
  MaxTroubles = 0
INVARIANT DispatchesUntilAsked
CHECK_DEADLOCK FALSE
