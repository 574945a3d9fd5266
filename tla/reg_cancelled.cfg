SPECIFICATION RegistrationSpec
CONSTANTS
  Calls = {c1, c2, c3}
  Addresses = {alice}
  Spellings = {lower, mixed}
  Lower = lower
  OutboxDrivers = {"memory"}
  MaxGone = 1
  MaxFailures = 1
  MaxRestarts = 0
SYMMETRY Symmetric
CHECK_DEADLOCK FALSE
INVARIANT FailureCancels
