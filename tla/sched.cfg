SPECIFICATION FairSpec
CONSTANTS
  r1 = r1
  r2 = r2
  t1 = t1
  t2 = t2
  loop = loop
  external = external
  Replicas = {r1, r2}
  Tasks = {t1, t2}
  Triggers = {loop, external}
  PoolSize = 2
  Sites <- AllSites
INVARIANT OneRunner
INVARIANT PoolIsSound
PROPERTY LockIsHandedBack
PROPERTY EveryRunEnds
