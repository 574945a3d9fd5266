SPECIFICATION MCSpec
CONSTANTS
  Connections = {k1, k2}
  Hosts = {h1, h2}
  Stranger = Stranger
  Rps = 1
  Burst = 2
  TTL = 2
  Groups <- MCGroups
  EnvironmentOf <- MCEnvironmentOf
  LocalFiles <- MCLocalFiles
  Environs <- MCEnvirons
  Keys = {key}
  Uploads = {p1, p2}
  Downloads = {d1}
  NoFile = NoFile
  Units = {u1, u2}
  Tenants = {t1}
  NoTenant = NoTenant
  Sessions = {s1, s2}
  Adapters = {a1, a2}
  Features = {f1, f2}
  Templates = {x, y}
  Demo = demo
  Relays = {"inproc", "noop", "kafka", "rabbitmq"}
  Subscriptions = {t1, t2}
  MaxTroubles = 2
  Calls = {c1, c2}
  Addresses = {alice, bob}
  Spellings = {lower, mixed}
  Lower = lower
  OutboxDrivers = {"memory", "postgres"}
  MaxGone = 1
  MaxFailures = 1
  MaxRestarts = 1
INVARIANT StopsInOrder
INVARIANT OneAccountPerAddress
INVARIANT EventAndAccount
INVARIANT NeverOverTheBucket
INVARIANT SuccessMeansDrained
INVARIANT RefusalLeavesNothing
INVARIANT OpenedForWhoNeedsIt
INVARIANT RunsOnlyHardened
INVARIANT LocatedIsWhole
INVARIANT AllOrNothing
INVARIANT NoForeignTenant
INVARIANT CreatedIsComplete
PROPERTY EndsWhenAsked
PROPERTY OneGoneEndsAll
PROPERTY SignalIsHonoured
CHECK_DEADLOCK FALSE
