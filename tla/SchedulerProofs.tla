-------------------------- MODULE SchedulerProofs --------------------------
(***************************************************************************)
(* Two runs of a task overlap only as OneRunner allows, and the pool loses *)
(* no connection, for any number of replicas, tasks, triggers, connections *)
(* and troubles.                                                           *)
(***************************************************************************)
EXTENDS Scheduler, TLAPS

Steps == {"idle", "acquire", "pool", "lock", "elected", "job", "waiting",
          "release", "unlock"}

\* Between the note of the election and its erasure.
Running == {"job", "waiting", "release"}

SchedulerTypes ==
  /\ site \in Sites
  /\ pc \in [Runs -> Steps]
  /\ mine \in [Runs -> SUBSET Conns]
  /\ work \in [Runs -> SUBSET Conns]
  /\ held \in [Replicas -> [Tasks -> SUBSET (0..PoolSize)]]
  /\ used \in [Replicas -> SUBSET Conns]
  /\ alive \in [Replicas -> SUBSET Conns]
  /\ lock \in [Tasks -> SUBSET Sessions]
  /\ orphans \in [Replicas -> SUBSET Conns]

\* Where a run stands tells what it has in hand.
PlaceTells ==
  \A u \in Runs :
    /\ pc[u] \notin {"lock", "elected", "unlock"} => mine[u] = {}
    /\ pc[u] \in {"lock", "elected"} => mine[u] # {}
    /\ pc[u] # "job" => work[u] = {}
    /\ \A c, d \in mine[u] : c = d

\* What the driver settles: inproc never asks the pool, and notes 0.
DriverTells ==
  /\ site.driver = "cron-inproc" =>
       /\ \A u \in Runs : pc[u] \in {"idle", "acquire", "job", "release"}
       /\ \A r \in Replicas, t \in Tasks : held[r][t] \subseteq {0}
       /\ \A r \in Replicas : orphans[r] = {}
  /\ site.driver = "advisory-lock" =>
       \A r \in Replicas, t \in Tasks : 0 \notin held[r][t]
  /\ \A r \in Replicas, t \in Tasks : \A c, d \in held[r][t] : c = d

\* A connection is in one hand: a run's, for its lock or for its job, a note's,
\* or a forgotten one.
OneHand ==
  \A r \in Replicas, c \in Conns :
    /\ \A u, v \in Runs : Replica(u) = r /\ Replica(v) = r =>
         /\ c \in mine[u] /\ c \in mine[v] => u = v
         /\ c \in work[u] /\ c \in work[v] => u = v
         /\ ~(c \in mine[u] /\ c \in work[v])
    /\ \A u \in Runs : Replica(u) = r /\ (c \in mine[u] \/ c \in work[u]) =>
         /\ c \notin orphans[r]
         /\ \A t \in Tasks : c \notin held[r][t]
    /\ \A s, t \in Tasks :
         /\ c \in held[r][s] /\ c \in held[r][t] => s = t
         /\ ~(c \in held[r][s] /\ c \in orphans[r])

\* A connection out of the pool is in a hand, and one in a hand is out of it.
InHand(r, c) ==
  \/ \E u \in Runs : Replica(u) = r /\ (c \in mine[u] \/ c \in work[u])
  \/ \E t \in Tasks : c \in held[r][t]
  \/ c \in orphans[r]

Accounted == \A r \in Replicas, c \in Conns : c \in used[r] <=> InHand(r, c)

\* A lock is of one session, that of a connection kept for its task.
LockIsKept ==
  \A t \in Tasks :
    /\ \A s1, s2 \in lock[t] : s1 = s2
    /\ \A r \in Replicas, c \in Conns : <<r, c>> \in lock[t] =>
         \/ c \in held[r][t] \/ c \in orphans[r]
         \/ \E u \in Runs : /\ Replica(u) = r /\ Task(u) = t
                            /\ pc[u] \in {"elected", "unlock"} /\ c \in mine[u]

\* The elected has its lock until its session dies.
ElectedHasLock ==
  \A c \in Conns :
    /\ \A r \in Replicas, t \in Tasks :
         c \in held[r][t] /\ c \in alive[r] => <<r, c>> \in lock[t]
    /\ \A u \in Runs :
         pc[u] = "elected" /\ c \in mine[u] /\ c \in alive[Replica(u)] =>
           <<Replica(u), c>> \in lock[Task(u)]

\* A replica that forgot no connection runs a task once, and has noted it.
NotedOnce ==
  \A u \in Runs : orphans[Replica(u)] = {} /\ pc[u] \in Running =>
    /\ held[Replica(u)][Task(u)] # {}
    /\ \A v \in Runs :
         Replica(v) = Replica(u) /\ Task(v) = Task(u) /\ pc[v] \in Running => v = u

SchedulerInv ==
  /\ SchedulerTypes
  /\ PlaceTells
  /\ DriverTells
  /\ OneHand
  /\ Accounted
  /\ LockIsKept
  /\ ElectedHasLock
  /\ NotedOnce

-----------------------------------------------------------------------------
LEMMA RunsHave ==
  ASSUME NEW u \in Runs
  PROVE  Replica(u) \in Replicas /\ Task(u) \in Tasks
BY DEF Runs, Replica, Task

LEMMA SessionsAre ==
  ASSUME NEW u \in Runs, NEW C \in SUBSET Conns
  PROVE  /\ SessionsOf(u, C) \in SUBSET Sessions
         /\ \A r \in Replicas, c \in 0..PoolSize :
              <<r, c>> \in SessionsOf(u, C) <=> r = Replica(u) /\ c \in C
<1> USE PoolAssumption
<1>1. \A c \in C : <<Replica(u), c>> \in Sessions
  BY RunsHave DEF Sessions, Conns
<1> QED
  BY <1>1 DEF SessionsOf

LEMMA SchedulerInitially == Init => SchedulerInv
<1> SUFFICES ASSUME Init PROVE SchedulerInv
  OBVIOUS
<1> USE DEF Init
<1>1. SchedulerTypes
  BY DEF SchedulerTypes, Steps
<1>2. PlaceTells
  BY DEF PlaceTells
<1>3. DriverTells
  BY DEF DriverTells
<1>4. OneHand
  BY DEF OneHand
<1>5. Accounted
  BY RunsHave DEF Accounted, InHand
<1>6. LockIsKept /\ ElectedHasLock /\ NotedOnce
  BY RunsHave DEF LockIsKept, ElectedHasLock, NotedOnce, Running
<1> QED
  BY <1>1, <1>2, <1>3, <1>4, <1>5, <1>6 DEF SchedulerInv

-----------------------------------------------------------------------------
\* A step on which a run only moves on, and no hand changes.
Moves(u, step) ==
  /\ pc' = [pc EXCEPT ![u] = step]
  /\ \/ pc[u] = "idle" /\ step = "acquire"
     \/ pc[u] = "acquire" /\ step = "idle"
     \/ pc[u] = "acquire" /\ step = "pool" /\ site.driver # "cron-inproc"
     \/ pc[u] = "pool" /\ step = "idle"
     \/ pc[u] = "job" /\ work[u] = {} /\ step = "waiting" /\ site.driver = "advisory-lock"
     \/ pc[u] = "waiting" /\ step = "release"
  /\ UNCHANGED <<site, mine, work, held, used, alive, lock, orphans>>

LEMMA MovesPreserve ==
  ASSUME SchedulerInv, NEW u \in Runs, NEW step, Moves(u, step)
  PROVE  SchedulerInv'
<1>t. /\ SchedulerTypes /\ PlaceTells /\ DriverTells /\ OneHand /\ Accounted
      /\ LockIsKept /\ ElectedHasLock /\ NotedOnce
  BY DEF SchedulerInv
<1>0. UNCHANGED <<site, mine, work, held, used, alive, lock, orphans>>
  BY DEF Moves
<1>1. /\ pc' \in [Runs -> Steps] /\ pc'[u] = step
      /\ \A v \in Runs : v # u => pc'[v] = pc[v]
      /\ pc[u] \notin {"elected", "unlock"} /\ step \notin {"lock", "elected", "unlock"}
      /\ step \in Running => pc[u] \in Running
  BY <1>t DEF SchedulerTypes, Moves, Steps, Running
<1>2. SchedulerTypes'
  BY <1>t, <1>0, <1>1 DEF SchedulerTypes
<1>3. PlaceTells'
  BY <1>t, <1>0, <1>1 DEF PlaceTells, Moves
<1>4. DriverTells'
  BY <1>t, <1>0, <1>1 DEF DriverTells, Moves
<1>5. OneHand'
  BY <1>t, <1>0 DEF OneHand
<1>6. Accounted'
  BY <1>t, <1>0 DEF Accounted, InHand
<1>7. LockIsKept'
  BY <1>t, <1>0, <1>1 DEF LockIsKept
<1>8. ElectedHasLock'
  BY <1>t, <1>0, <1>1 DEF ElectedHasLock
<1>9. NotedOnce'
  BY <1>t, <1>0, <1>1 DEF NotedOnce
<1> QED
  BY <1>2, <1>3, <1>4, <1>5, <1>6, <1>7, <1>8, <1>9 DEF SchedulerInv
-----------------------------------------------------------------------------
\* The mutex of inproc: the decision and its note are one step.
Elected(u) ==
  /\ pc[u] = "acquire" /\ site.driver = "cron-inproc"
  /\ held[Replica(u)][Task(u)] = {}
  /\ pc' = [pc EXCEPT ![u] = "job"]
  /\ held' = [held EXCEPT ![Replica(u)][Task(u)] = {0}]
  /\ UNCHANGED <<site, mine, work, used, alive, lock, orphans>>

LEMMA ElectedPreserves ==
  ASSUME SchedulerInv, NEW u \in Runs, Elected(u)
  PROVE  SchedulerInv'
<1>t. /\ SchedulerTypes /\ PlaceTells /\ DriverTells /\ OneHand /\ Accounted
      /\ LockIsKept /\ ElectedHasLock /\ NotedOnce
  BY DEF SchedulerInv
<1>r. Replica(u) \in Replicas /\ Task(u) \in Tasks
  BY RunsHave
<1>0. /\ pc[u] = "acquire" /\ site.driver = "cron-inproc"
      /\ held[Replica(u)][Task(u)] = {}
      /\ UNCHANGED <<site, mine, work, used, alive, lock, orphans>>
  BY DEF Elected
<1>1. /\ pc' \in [Runs -> Steps] /\ pc'[u] = "job"
      /\ \A v \in Runs : v # u => pc'[v] = pc[v]
  BY <1>t DEF SchedulerTypes, Elected, Steps
<1>h. /\ held' \in [Replicas -> [Tasks -> SUBSET (0..PoolSize)]]
      /\ held'[Replica(u)][Task(u)] = {0}
      /\ \A r \in Replicas, t \in Tasks :
           r # Replica(u) \/ t # Task(u) => held'[r][t] = held[r][t]
  <2>1. {0} \in SUBSET (0..PoolSize)
    BY PoolAssumption
  <2> QED
    BY <1>t, <1>r, <2>1 DEF SchedulerTypes, Elected
<1>c. \A r \in Replicas, t \in Tasks, c \in Conns : c \in held'[r][t] <=> c \in held[r][t]
  BY <1>0, <1>h DEF Conns
<1>2. SchedulerTypes'
  BY <1>t, <1>0, <1>1, <1>h DEF SchedulerTypes
<1>3. PlaceTells'
  BY <1>t, <1>0, <1>1 DEF PlaceTells
<1>4. DriverTells'
  BY <1>t, <1>0, <1>1, <1>h DEF DriverTells
<1>5. OneHand'
  BY <1>t, <1>0, <1>c DEF OneHand
<1>6. Accounted'
  BY <1>t, <1>0, <1>c DEF Accounted, InHand
<1>7. LockIsKept'
  BY <1>t, <1>0, <1>1, <1>c DEF LockIsKept
<1>8. ElectedHasLock'
  BY <1>t, <1>0, <1>1, <1>c DEF ElectedHasLock
<1>9. NotedOnce'
  <2>1. \A v \in Runs : pc[v] \in Running /\ orphans[Replica(v)] = {} =>
          Replica(v) # Replica(u) \/ Task(v) # Task(u)
    BY <1>t, <1>0 DEF NotedOnce
  <2>2. \A v \in Runs : v # u /\ pc'[v] \in Running /\ orphans[Replica(v)] = {} =>
          /\ held'[Replica(v)][Task(v)] # {}
          /\ Replica(v) # Replica(u) \/ Task(v) # Task(u)
    BY <1>t, <1>1, <1>h, <2>1, RunsHave DEF NotedOnce
  <2> QED
    BY <1>t, <1>0, <1>1, <1>h, <2>2 DEF NotedOnce
<1> QED
  BY <1>2, <1>3, <1>4, <1>5, <1>6, <1>7, <1>8, <1>9 DEF SchedulerInv

-----------------------------------------------------------------------------
\* A connection leaves the pool, for the lock or for the job.
Takes(u, c) ==
  /\ c \in Conns /\ c \notin used[Replica(u)]
  /\ used' = [used EXCEPT ![Replica(u)] = @ \union {c}]
  /\ \/ /\ pc[u] = "pool" /\ pc' = [pc EXCEPT ![u] = "lock"]
        /\ mine' = [mine EXCEPT ![u] = {c}] /\ work' = work
     \/ /\ pc[u] = "waiting" /\ pc' = [pc EXCEPT ![u] = "job"]
        /\ work' = [work EXCEPT ![u] = {c}] /\ mine' = mine
  /\ UNCHANGED <<site, held, alive, lock, orphans>>

LEMMA TakesPreserve ==
  ASSUME SchedulerInv, NEW u \in Runs, NEW c, Takes(u, c)
  PROVE  SchedulerInv'
<1>t. /\ SchedulerTypes /\ PlaceTells /\ DriverTells /\ OneHand /\ Accounted
      /\ LockIsKept /\ ElectedHasLock /\ NotedOnce
  BY DEF SchedulerInv
<1>r. Replica(u) \in Replicas /\ Task(u) \in Tasks
  BY RunsHave
<1>0. /\ c \in Conns /\ c \notin used[Replica(u)]
      /\ UNCHANGED <<site, held, alive, lock, orphans>>
      /\ pc[u] \in {"pool", "waiting"} /\ mine[u] = {} /\ work[u] = {}
      /\ site.driver # "cron-inproc"
  BY <1>t DEF Takes, PlaceTells, DriverTells
<1>1. /\ pc' \in [Runs -> Steps]
      /\ mine' \in [Runs -> SUBSET Conns] /\ work' \in [Runs -> SUBSET Conns]
      /\ \A v \in Runs : v # u =>
           pc'[v] = pc[v] /\ mine'[v] = mine[v] /\ work'[v] = work[v]
      /\ \/ /\ pc[u] = "pool" /\ pc'[u] = "lock"
            /\ mine'[u] = {c} /\ work'[u] = {}
         \/ /\ pc[u] = "waiting" /\ pc'[u] = "job"
            /\ mine'[u] = {} /\ work'[u] = {c}
  <2>1. CASE /\ pc[u] = "pool" /\ pc' = [pc EXCEPT ![u] = "lock"]
             /\ mine' = [mine EXCEPT ![u] = {c}] /\ work' = work
    BY <1>t, <1>0, <2>1 DEF SchedulerTypes, Steps
  <2>2. CASE /\ pc[u] = "waiting" /\ pc' = [pc EXCEPT ![u] = "job"]
             /\ work' = [work EXCEPT ![u] = {c}] /\ mine' = mine
    BY <1>t, <1>0, <2>2 DEF SchedulerTypes, Steps
  <2> QED
    BY <2>1, <2>2 DEF Takes
<1>u. /\ used' \in [Replicas -> SUBSET Conns]
      /\ \A r \in Replicas, d \in Conns :
           d \in used'[r] <=> d \in used[r] \/ (r = Replica(u) /\ d = c)
  BY <1>t, <1>0, <1>r DEF SchedulerTypes, Takes
<1>i. ~InHand(Replica(u), c)
  BY <1>t, <1>0, <1>r DEF Accounted
<1>2. SchedulerTypes'
  BY <1>t, <1>0, <1>1, <1>u DEF SchedulerTypes
<1>3. PlaceTells'
  BY <1>t, <1>0, <1>1 DEF PlaceTells
<1>4. DriverTells'
  BY <1>t, <1>0, <1>1 DEF DriverTells
<1>5. OneHand'
  <2>1. \A v \in Runs, d \in Conns : v # u \/ d # c =>
          /\ d \in mine'[v] <=> d \in mine[v]
          /\ d \in work'[v] <=> d \in work[v]
    BY <1>0, <1>1
  <2>2. /\ ~(c \in mine'[u] /\ c \in work'[u])
        /\ c \notin orphans[Replica(u)]
        /\ \A t \in Tasks : c \notin held[Replica(u)][t]
        /\ \A v \in Runs : v # u /\ Replica(v) = Replica(u) =>
             c \notin mine'[v] /\ c \notin work'[v]
    BY <1>1, <1>i DEF InHand
  <2> QED
    BY <1>t, <1>0, <2>1, <2>2 DEF OneHand
<1>6. Accounted'
  <2> SUFFICES ASSUME NEW r \in Replicas, NEW d \in Conns
               PROVE  d \in used'[r] <=> InHand(r, d)'
    BY DEF Accounted
  <2>1. InHand(r, d)' <=> InHand(r, d) \/ (r = Replica(u) /\ d = c)
    BY <1>0, <1>1 DEF InHand
  <2> QED
    BY <1>t, <1>u, <2>1 DEF Accounted
<1>7. LockIsKept'
  BY <1>t, <1>0, <1>1 DEF LockIsKept
<1>8. ElectedHasLock'
  BY <1>t, <1>0, <1>1 DEF ElectedHasLock
<1>9. NotedOnce'
  BY <1>t, <1>0, <1>1 DEF NotedOnce, Running
<1> QED
  BY <1>2, <1>3, <1>4, <1>5, <1>6, <1>7, <1>8, <1>9 DEF SchedulerInv
-----------------------------------------------------------------------------
\* What a run had in hand goes back to the pool, alive again.
Returns(u) ==
  /\ \/ /\ pc[u] \in {"lock", "unlock"} /\ pc' = [pc EXCEPT ![u] = "idle"]
        /\ mine' = [mine EXCEPT ![u] = {}] /\ work' = work
        /\ used' = [used EXCEPT ![Replica(u)] = @ \ mine[u]]
        /\ alive' = [alive EXCEPT ![Replica(u)] = @ \union mine[u]]
     \/ /\ pc[u] = "job" /\ pc' = [pc EXCEPT ![u] = "release"]
        /\ work' = [work EXCEPT ![u] = {}] /\ mine' = mine
        /\ used' = [used EXCEPT ![Replica(u)] = @ \ work[u]]
        /\ alive' = [alive EXCEPT ![Replica(u)] = @ \union work[u]]
  /\ UNCHANGED <<site, held, orphans>>

\* The database keeps every lock but those of the connection the run had.
OthersKeepLocks(u) ==
  /\ lock' \in [Tasks -> SUBSET Sessions]
  /\ \A t \in Tasks :
       /\ \A s1, s2 \in lock'[t] : s1 = s2
       /\ \A r \in Replicas, c \in Conns :
            <<r, c>> \in lock'[t] <=>
              <<r, c>> \in lock[t] /\ ~(r = Replica(u) /\ c \in mine[u])

LEMMA ReturnsPreserve ==
  ASSUME SchedulerInv, NEW u \in Runs, Returns(u), OthersKeepLocks(u)
  PROVE  SchedulerInv'
<1>t. /\ SchedulerTypes /\ PlaceTells /\ DriverTells /\ OneHand /\ Accounted
      /\ LockIsKept /\ ElectedHasLock /\ NotedOnce
  BY DEF SchedulerInv
<1>r. Replica(u) \in Replicas /\ Task(u) \in Tasks
  BY RunsHave
<1>0. UNCHANGED <<site, held, orphans>>
  BY DEF Returns
<1>1. /\ pc' \in [Runs -> Steps]
      /\ mine' \in [Runs -> SUBSET Conns] /\ work' \in [Runs -> SUBSET Conns]
      /\ \A v \in Runs : v # u =>
           pc'[v] = pc[v] /\ mine'[v] = mine[v] /\ work'[v] = work[v]
      /\ mine'[u] = {} /\ work'[u] = {}
      /\ \/ pc[u] \in {"lock", "unlock"} /\ pc'[u] = "idle"
         \/ pc[u] = "job" /\ pc'[u] = "release"
  <2>1. CASE /\ pc[u] \in {"lock", "unlock"} /\ pc' = [pc EXCEPT ![u] = "idle"]
             /\ mine' = [mine EXCEPT ![u] = {}] /\ work' = work
    <3>1. work[u] = {}
      BY <1>t, <2>1 DEF PlaceTells
    <3> QED
      BY <1>t, <2>1, <3>1 DEF SchedulerTypes, Steps
  <2>2. CASE /\ pc[u] = "job" /\ pc' = [pc EXCEPT ![u] = "release"]
             /\ work' = [work EXCEPT ![u] = {}] /\ mine' = mine
    <3>1. mine[u] = {}
      BY <1>t, <2>2 DEF PlaceTells
    <3> QED
      BY <1>t, <2>2, <3>1 DEF SchedulerTypes, Steps
  <2> QED
    BY <2>1, <2>2 DEF Returns
<1>p. /\ used' \in [Replicas -> SUBSET Conns] /\ alive' \in [Replicas -> SUBSET Conns]
      /\ \A r \in Replicas, c \in Conns :
           LET back == r = Replica(u) /\ (c \in mine[u] \/ c \in work[u])
           IN  /\ c \in used'[r] <=> c \in used[r] /\ ~back
               /\ c \in alive'[r] <=> c \in alive[r] \/ back
  <2>1. PICK C \in SUBSET Conns :
          /\ C = mine[u] \union work[u]
          /\ used' = [used EXCEPT ![Replica(u)] = @ \ C]
          /\ alive' = [alive EXCEPT ![Replica(u)] = @ \union C]
    <3>1. mine[u] \in SUBSET Conns /\ work[u] \in SUBSET Conns
      BY <1>t DEF SchedulerTypes
    <3>2. CASE pc[u] \in {"lock", "unlock"}
      <4>1. work[u] = {}
        BY <1>t, <3>2 DEF PlaceTells
      <4> QED
        BY <3>1, <3>2, <4>1 DEF Returns
    <3>3. CASE pc[u] = "job"
      <4>1. mine[u] = {}
        BY <1>t, <3>3 DEF PlaceTells
      <4> QED
        BY <3>1, <3>3, <4>1 DEF Returns
    <3> QED
      BY <1>1, <3>2, <3>3
  <2> QED
    BY <1>t, <1>r, <2>1 DEF SchedulerTypes
<1>2. SchedulerTypes'
  BY <1>t, <1>0, <1>1, <1>p DEF SchedulerTypes, OthersKeepLocks
<1>3. PlaceTells'
  BY <1>t, <1>0, <1>1 DEF PlaceTells
<1>4. DriverTells'
  BY <1>t, <1>0, <1>1 DEF DriverTells
<1>5. OneHand'
  BY <1>t, <1>0, <1>1 DEF OneHand
<1>i. ASSUME NEW r \in Replicas, NEW c \in Conns
      PROVE  InHand(r, c)' <=>
               InHand(r, c) /\ ~(r = Replica(u) /\ (c \in mine[u] \/ c \in work[u]))
  <2>1. CASE r = Replica(u) /\ (c \in mine[u] \/ c \in work[u])
    BY <1>t, <1>0, <1>1, <2>1 DEF OneHand, InHand
  <2>2. CASE ~(r = Replica(u) /\ (c \in mine[u] \/ c \in work[u]))
    BY <1>0, <1>1, <2>2 DEF InHand
  <2> QED
    BY <2>1, <2>2
<1>6. Accounted'
  BY <1>t, <1>p, <1>i DEF Accounted
<1>7. LockIsKept'
  BY <1>t, <1>0, <1>1 DEF LockIsKept, OthersKeepLocks
<1>8. ElectedHasLock'
  <2>1. ASSUME NEW c \in Conns, NEW r \in Replicas, NEW t \in Tasks,
               c \in held'[r][t], c \in alive'[r]
        PROVE  <<r, c>> \in lock'[t]
    <3>1. ~(r = Replica(u) /\ (c \in mine[u] \/ c \in work[u]))
      BY <1>t, <1>0, <2>1 DEF OneHand
    <3>2. <<r, c>> \in lock[t]
      BY <1>t, <1>0, <1>p, <2>1, <3>1 DEF ElectedHasLock
    <3> QED
      BY <3>1, <3>2 DEF OthersKeepLocks
  <2>2. ASSUME NEW c \in Conns, NEW v \in Runs,
               pc'[v] = "elected", c \in mine'[v], c \in alive'[Replica(v)]
        PROVE  <<Replica(v), c>> \in lock'[Task(v)]
    <3>1. v # u /\ pc[v] = "elected" /\ c \in mine[v]
          /\ Replica(v) \in Replicas /\ Task(v) \in Tasks
      BY <1>1, <2>2, RunsHave
    <3>2. ~(Replica(v) = Replica(u) /\ (c \in mine[u] \/ c \in work[u]))
      BY <1>t, <1>r, <3>1 DEF OneHand
    <3>3. <<Replica(v), c>> \in lock[Task(v)]
      BY <1>t, <1>p, <2>2, <3>1, <3>2 DEF ElectedHasLock
    <3> QED
      BY <3>1, <3>2, <3>3 DEF OthersKeepLocks
  <2> QED
    BY <2>1, <2>2 DEF ElectedHasLock
<1>9. NotedOnce'
  BY <1>t, <1>0, <1>1 DEF NotedOnce, Running
<1> QED
  BY <1>2, <1>3, <1>4, <1>5, <1>6, <1>7, <1>8, <1>9 DEF SchedulerInv
-----------------------------------------------------------------------------
\* pg_try_advisory_lock answers true.
Granted(u) ==
  /\ pc[u] = "lock" /\ pc' = [pc EXCEPT ![u] = "elected"]
  /\ mine[u] # {}
  /\ lock[Task(u)] \subseteq SessionsOf(u, mine[u])
  /\ lock' = [lock EXCEPT ![Task(u)] = SessionsOf(u, mine[u])]
  /\ UNCHANGED <<site, mine, work, held, used, alive, orphans>>

LEMMA GrantedPreserves ==
  ASSUME SchedulerInv, NEW u \in Runs, Granted(u)
  PROVE  SchedulerInv'
<1>t. /\ SchedulerTypes /\ PlaceTells /\ DriverTells /\ OneHand /\ Accounted
      /\ LockIsKept /\ ElectedHasLock /\ NotedOnce
  BY DEF SchedulerInv
<1>r. Replica(u) \in Replicas /\ Task(u) \in Tasks
  BY RunsHave
<1>0. /\ UNCHANGED <<site, mine, work, held, used, alive, orphans>>
      /\ pc[u] = "lock" /\ mine[u] # {}
  BY DEF Granted
<1>1. /\ pc' \in [Runs -> Steps] /\ pc'[u] = "elected"
      /\ \A v \in Runs : v # u => pc'[v] = pc[v]
  BY <1>t DEF SchedulerTypes, Granted, Steps
<1>m. PICK m \in Conns : mine[u] = {m}
  BY <1>t, <1>0 DEF SchedulerTypes, PlaceTells
<1>s. SessionsOf(u, mine[u]) = {<<Replica(u), m>>}
  BY <1>m DEF SessionsOf
<1>l. /\ lock' \in [Tasks -> SUBSET Sessions]
      /\ lock'[Task(u)] = {<<Replica(u), m>>}
      /\ lock[Task(u)] \subseteq {<<Replica(u), m>>}
      /\ \A t \in Tasks : t # Task(u) => lock'[t] = lock[t]
  <2>1. {<<Replica(u), m>>} \in SUBSET Sessions
    BY <1>m, <1>s, SessionsAre
  <2> QED
    BY <1>t, <1>r, <1>s, <2>1 DEF SchedulerTypes, Granted
<1>2. SchedulerTypes'
  BY <1>t, <1>0, <1>1, <1>l DEF SchedulerTypes
<1>3. PlaceTells'
  BY <1>t, <1>0, <1>1 DEF PlaceTells
<1>4. DriverTells'
  BY <1>t, <1>0, <1>1 DEF DriverTells
<1>5. OneHand'
  BY <1>t, <1>0 DEF OneHand
<1>6. Accounted'
  BY <1>t, <1>0 DEF Accounted, InHand
<1>7. LockIsKept'
  BY <1>t, <1>r, <1>0, <1>1, <1>m, <1>l DEF LockIsKept
<1>8. ElectedHasLock'
  <2>1. ASSUME NEW c \in Conns, NEW r \in Replicas, NEW t \in Tasks,
               c \in held'[r][t], c \in alive'[r]
        PROVE  <<r, c>> \in lock'[t]
    BY <1>t, <1>0, <1>m, <1>l, <2>1 DEF ElectedHasLock
  <2>2. ASSUME NEW c \in Conns, NEW v \in Runs,
               pc'[v] = "elected", c \in mine'[v], c \in alive'[Replica(v)]
        PROVE  <<Replica(v), c>> \in lock'[Task(v)]
    <3>1. CASE v = u
      BY <1>0, <1>m, <1>l, <2>2, <3>1
    <3>2. CASE v # u
      <4>1. <<Replica(v), c>> \in lock[Task(v)] /\ Task(v) \in Tasks
        BY <1>t, <1>0, <1>1, <2>2, <3>2, RunsHave DEF ElectedHasLock
      <4> QED
        BY <1>l, <4>1
    <3> QED
      BY <3>1, <3>2
  <2> QED
    BY <2>1, <2>2 DEF ElectedHasLock
<1>9. NotedOnce'
  BY <1>t, <1>0, <1>1 DEF NotedOnce, Running
<1> QED
  BY <1>2, <1>3, <1>4, <1>5, <1>6, <1>7, <1>8, <1>9 DEF SchedulerInv

-----------------------------------------------------------------------------
\* The elected notes its connection, over whatever was noted.
Notes(u) ==
  /\ pc[u] = "elected" /\ pc' = [pc EXCEPT ![u] = "job"]
  /\ held' = [held EXCEPT ![Replica(u)][Task(u)] = mine[u]]
  /\ orphans' = [orphans EXCEPT ![Replica(u)] =
                   @ \union (held[Replica(u)][Task(u)] \ {0})]
  /\ mine' = [mine EXCEPT ![u] = {}]
  /\ UNCHANGED <<site, work, used, alive, lock>>

LEMMA NotesPreserve ==
  ASSUME SchedulerInv, NEW u \in Runs, Notes(u)
  PROVE  SchedulerInv'
<1>t. /\ SchedulerTypes /\ PlaceTells /\ DriverTells /\ OneHand /\ Accounted
      /\ LockIsKept /\ ElectedHasLock /\ NotedOnce
  BY DEF SchedulerInv
<1>r. Replica(u) \in Replicas /\ Task(u) \in Tasks
  BY RunsHave
<1>d. site.driver = "advisory-lock"
  BY <1>t, SitesAssumption DEF DriverTells, SchedulerTypes, Notes
<1>0. /\ UNCHANGED <<site, work, used, alive, lock>>
      /\ pc[u] = "elected" /\ mine[u] # {} /\ work[u] = {}
  BY <1>t DEF Notes, PlaceTells
<1>m. PICK m \in Conns : mine[u] = {m}
  BY <1>t, <1>0 DEF SchedulerTypes, PlaceTells
<1>1. /\ pc' \in [Runs -> Steps] /\ mine' \in [Runs -> SUBSET Conns]
      /\ pc'[u] = "job" /\ mine'[u] = {}
      /\ \A v \in Runs : v # u => pc'[v] = pc[v] /\ mine'[v] = mine[v]
  BY <1>t DEF SchedulerTypes, Notes, Steps
<1>h. /\ held' \in [Replicas -> [Tasks -> SUBSET (0..PoolSize)]]
      /\ held'[Replica(u)][Task(u)] = {m}
      /\ \A r \in Replicas, t \in Tasks :
           r # Replica(u) \/ t # Task(u) => held'[r][t] = held[r][t]
  <2>1. {m} \in SUBSET (0..PoolSize)
    BY PoolAssumption DEF Conns
  <2> QED
    BY <1>t, <1>r, <1>m, <2>1 DEF SchedulerTypes, Notes
<1>o. /\ orphans' \in [Replicas -> SUBSET Conns]
      /\ \A r \in Replicas, c \in Conns : c \in orphans'[r] <=>
           c \in orphans[r] \/ (r = Replica(u) /\ c \in held[r][Task(u)])
      /\ \A r \in Replicas : orphans'[r] = {} =>
           orphans[r] = {} /\ (r = Replica(u) => held[r][Task(u)] = {})
  <2>1. /\ held[Replica(u)][Task(u)] \subseteq 0..PoolSize
        /\ 0 \notin held[Replica(u)][Task(u)]
    BY <1>t, <1>r, <1>d DEF SchedulerTypes, DriverTells
  <2>2. held[Replica(u)][Task(u)] \in SUBSET Conns
    BY <2>1, PoolAssumption DEF Conns
  <2>3. orphans' = [orphans EXCEPT ![Replica(u)] = @ \union held[Replica(u)][Task(u)]]
    BY <2>1 DEF Notes
  <2> QED
    BY <1>t, <1>r, <2>2, <2>3 DEF SchedulerTypes
<1>2. SchedulerTypes'
  BY <1>t, <1>0, <1>1, <1>h, <1>o DEF SchedulerTypes
<1>3. PlaceTells'
  BY <1>t, <1>0, <1>1 DEF PlaceTells
<1>4. DriverTells'
  BY <1>t, <1>0, <1>1, <1>d, <1>h DEF DriverTells, Conns
<1>n. /\ m \notin orphans'[Replica(u)]
      /\ \A v \in Runs : Replica(v) = Replica(u) => m \notin mine'[v] /\ m \notin work'[v]
      /\ \A t \in Tasks : m \notin held[Replica(u)][t]
  BY <1>t, <1>r, <1>0, <1>1, <1>m, <1>o DEF OneHand
<1>5. OneHand'
  <2> SUFFICES ASSUME NEW r \in Replicas, NEW c \in Conns
               PROVE
                 /\ \A v, w \in Runs : Replica(v) = r /\ Replica(w) = r =>
                      /\ c \in mine'[v] /\ c \in mine'[w] => v = w
                      /\ c \in work'[v] /\ c \in work'[w] => v = w
                      /\ ~(c \in mine'[v] /\ c \in work'[w])
                 /\ \A v \in Runs : Replica(v) = r /\ (c \in mine'[v] \/ c \in work'[v]) =>
                      /\ c \notin orphans'[r]
                      /\ \A t \in Tasks : c \notin held'[r][t]
                 /\ \A s, t \in Tasks :
                      /\ c \in held'[r][s] /\ c \in held'[r][t] => s = t
                      /\ ~(c \in held'[r][s] /\ c \in orphans'[r])
    BY DEF OneHand
  <2>1. \A v \in Runs : /\ c \in mine'[v] => c \in mine[v]
                        /\ c \in work'[v] <=> c \in work[v]
    BY <1>0, <1>1
  <2>2. \A t \in Tasks : c \in held'[r][t] =>
          \/ c \in held[r][t] /\ (r # Replica(u) \/ t # Task(u))
          \/ r = Replica(u) /\ t = Task(u) /\ c = m
    BY <1>h
  <2>3. c \in orphans'[r] =>
          c \in orphans[r] \/ (r = Replica(u) /\ c \in held[r][Task(u)])
    BY <1>o
  <2>4. ASSUME NEW v \in Runs, Replica(v) = r, c \in mine'[v] \/ c \in work'[v]
        PROVE  c \notin orphans'[r] /\ \A t \in Tasks : c \notin held'[r][t]
    BY <1>t, <1>r, <1>n, <2>1, <2>2, <2>3, <2>4 DEF OneHand
  <2>5. ASSUME NEW s \in Tasks, NEW t \in Tasks
        PROVE  /\ c \in held'[r][s] /\ c \in held'[r][t] => s = t
               /\ ~(c \in held'[r][s] /\ c \in orphans'[r])
    BY <1>t, <1>r, <1>n, <2>2, <2>3 DEF OneHand
  <2> QED
    BY <1>t, <2>1, <2>4, <2>5 DEF OneHand
<1>6. Accounted'
  <2> SUFFICES ASSUME NEW r \in Replicas, NEW c \in Conns
               PROVE  c \in used'[r] <=> InHand(r, c)'
    BY DEF Accounted
  <2>1. CASE r = Replica(u) /\ c = m
    <3>1. InHand(r, c)
      BY <1>m, <2>1 DEF InHand
    <3>2. InHand(r, c)'
      BY <1>h, <1>r, <2>1 DEF InHand
    <3> QED
      BY <1>t, <1>0, <3>1, <3>2 DEF Accounted
  <2>2. CASE r = Replica(u) /\ c # m
    <3>1. (\E t \in Tasks : c \in held'[r][t]) \/ c \in orphans'[r] <=>
          (\E t \in Tasks : c \in held[r][t]) \/ c \in orphans[r]
      BY <1>h, <1>o, <1>r, <2>2
    <3>2. \A v \in Runs : c \in mine'[v] <=> c \in mine[v]
      BY <1>1, <1>m, <2>2
    <3> QED
      BY <1>t, <1>0, <3>1, <3>2 DEF Accounted, InHand
  <2>3. CASE r # Replica(u)
    <3>1. /\ \A t \in Tasks : held'[r][t] = held[r][t]
          /\ c \in orphans'[r] <=> c \in orphans[r]
          /\ \A v \in Runs : Replica(v) = r => mine'[v] = mine[v]
      BY <1>1, <1>h, <1>o, <2>3
    <3> QED
      BY <1>t, <1>0, <3>1 DEF Accounted, InHand
  <2> QED
    BY <2>1, <2>2, <2>3
<1>7. LockIsKept'
  <2>1. ASSUME NEW t \in Tasks, NEW r \in Replicas, NEW c \in Conns, <<r, c>> \in lock'[t]
        PROVE  \/ c \in held'[r][t] \/ c \in orphans'[r]
               \/ \E v \in Runs : /\ Replica(v) = r /\ Task(v) = t
                                  /\ pc'[v] \in {"elected", "unlock"} /\ c \in mine'[v]
    <3>1. CASE c \in held[r][t] \/ c \in orphans[r]
      BY <1>h, <1>o, <3>1
    <3>2. CASE r = Replica(u) /\ t = Task(u) /\ c \in mine[u]
      BY <1>m, <1>h, <3>2
    <3>3. ASSUME NEW v \in Runs, v # u, Replica(v) = r, Task(v) = t,
                 pc[v] \in {"elected", "unlock"}, c \in mine[v]
          PROVE  \E w \in Runs : /\ Replica(w) = r /\ Task(w) = t
                                 /\ pc'[w] \in {"elected", "unlock"} /\ c \in mine'[w]
      BY <1>1, <3>3
    <3> QED
      BY <1>t, <1>0, <2>1, <3>1, <3>2, <3>3 DEF LockIsKept
  <2> QED
    BY <1>t, <1>0, <2>1 DEF LockIsKept
<1>8. ElectedHasLock'
  <2>1. ASSUME NEW c \in Conns, NEW r \in Replicas, NEW t \in Tasks,
               c \in held'[r][t], c \in alive'[r]
        PROVE  <<r, c>> \in lock'[t]
    BY <1>t, <1>0, <1>m, <1>h, <2>1 DEF ElectedHasLock
  <2>2. ASSUME NEW c \in Conns, NEW v \in Runs,
               pc'[v] = "elected", c \in mine'[v], c \in alive'[Replica(v)]
        PROVE  <<Replica(v), c>> \in lock'[Task(v)]
    BY <1>t, <1>0, <1>1, <2>2 DEF ElectedHasLock
  <2> QED
    BY <2>1, <2>2 DEF ElectedHasLock
<1>9. NotedOnce'
  <2>1. ASSUME NEW v \in Runs, orphans'[Replica(v)] = {}, pc'[v] \in Running
        PROVE  /\ held'[Replica(v)][Task(v)] # {}
               /\ \A w \in Runs : Replica(w) = Replica(v) /\ Task(w) = Task(v)
                                    /\ pc'[w] \in Running => w = v
    <3>1. /\ Replica(v) \in Replicas /\ Task(v) \in Tasks /\ orphans[Replica(v)] = {}
          /\ Replica(v) = Replica(u) => held[Replica(v)][Task(u)] = {}
      BY <1>o, <2>1, RunsHave
    <3>2. CASE Replica(v) = Replica(u) /\ Task(v) = Task(u)
      <4>1. \A w \in Runs : Replica(w) = Replica(v) /\ Task(w) = Task(v) =>
              pc[w] \notin Running
        BY <1>t, <3>1, <3>2 DEF NotedOnce
      <4> QED
        BY <1>1, <1>h, <2>1, <3>2, <4>1
    <3>3. CASE Replica(v) # Replica(u) \/ Task(v) # Task(u)
      BY <1>t, <1>1, <1>h, <2>1, <3>1, <3>3 DEF NotedOnce
    <3> QED
      BY <3>2, <3>3
  <2> QED
    BY <2>1 DEF NotedOnce
<1> QED
  BY <1>2, <1>3, <1>4, <1>5, <1>6, <1>7, <1>8, <1>9 DEF SchedulerInv
-----------------------------------------------------------------------------
\* Under the mutex, the connection noted for the task is taken back.
Forgets(u) ==
  /\ pc[u] = "release"
  /\ held' = [held EXCEPT ![Replica(u)][Task(u)] = {}]
  /\ LET kept == held[Replica(u)][Task(u)] \ {0}
     IN  /\ mine' = [mine EXCEPT ![u] = kept]
         /\ pc' = [pc EXCEPT ![u] = IF kept = {} THEN "idle" ELSE "unlock"]
  /\ UNCHANGED <<site, work, used, alive, lock, orphans>>

LEMMA ForgetsPreserve ==
  ASSUME SchedulerInv, NEW u \in Runs, Forgets(u)
  PROVE  SchedulerInv'
<1>t. /\ SchedulerTypes /\ PlaceTells /\ DriverTells /\ OneHand /\ Accounted
      /\ LockIsKept /\ ElectedHasLock /\ NotedOnce
  BY DEF SchedulerInv
<1>r. Replica(u) \in Replicas /\ Task(u) \in Tasks
  BY RunsHave
<1>0. /\ UNCHANGED <<site, work, used, alive, lock, orphans>>
      /\ pc[u] = "release" /\ mine[u] = {} /\ work[u] = {}
  BY <1>t DEF Forgets, PlaceTells
<1>k. PICK kept \in SUBSET Conns :
        /\ kept = held[Replica(u)][Task(u)] \ {0}
        /\ \A c, d \in kept : c = d
        /\ site.driver = "cron-inproc" => kept = {}
  <2>1. held[Replica(u)][Task(u)] \subseteq 0..PoolSize
    BY <1>t, <1>r DEF SchedulerTypes
  <2>2. held[Replica(u)][Task(u)] \ {0} \in SUBSET Conns
    BY <2>1, PoolAssumption DEF Conns
  <2> QED
    BY <1>t, <1>r, <2>2 DEF DriverTells
<1>1. /\ pc' \in [Runs -> Steps] /\ mine' \in [Runs -> SUBSET Conns]
      /\ pc'[u] = (IF kept = {} THEN "idle" ELSE "unlock") /\ mine'[u] = kept
      /\ \A v \in Runs : v # u => pc'[v] = pc[v] /\ mine'[v] = mine[v]
  BY <1>t, <1>k DEF SchedulerTypes, Forgets, Steps
<1>h. /\ held' \in [Replicas -> [Tasks -> SUBSET (0..PoolSize)]]
      /\ held'[Replica(u)][Task(u)] = {}
      /\ \A r \in Replicas, t \in Tasks :
           r # Replica(u) \/ t # Task(u) => held'[r][t] = held[r][t]
  BY <1>t, <1>r DEF SchedulerTypes, Forgets
<1>c. \A c \in Conns : c \in kept <=> c \in held[Replica(u)][Task(u)]
  BY <1>k DEF Conns
<1>2. SchedulerTypes'
  BY <1>t, <1>0, <1>1, <1>h DEF SchedulerTypes
<1>3. PlaceTells'
  BY <1>t, <1>0, <1>1, <1>k DEF PlaceTells
<1>4. DriverTells'
  <2>1. \A r \in Replicas, t \in Tasks : held'[r][t] \subseteq held[r][t]
    BY <1>h
  <2>2. site.driver = "cron-inproc" => pc'[u] = "idle"
    BY <1>1, <1>k
  <2> QED
    BY <1>t, <1>0, <1>1, <2>1, <2>2 DEF DriverTells
<1>5. OneHand'
  <2> SUFFICES ASSUME NEW r \in Replicas, NEW c \in Conns
               PROVE
                 /\ \A v, w \in Runs : Replica(v) = r /\ Replica(w) = r =>
                      /\ c \in mine'[v] /\ c \in mine'[w] => v = w
                      /\ c \in work'[v] /\ c \in work'[w] => v = w
                      /\ ~(c \in mine'[v] /\ c \in work'[w])
                 /\ \A v \in Runs : Replica(v) = r /\ (c \in mine'[v] \/ c \in work'[v]) =>
                      /\ c \notin orphans'[r]
                      /\ \A t \in Tasks : c \notin held'[r][t]
                 /\ \A s, t \in Tasks :
                      /\ c \in held'[r][s] /\ c \in held'[r][t] => s = t
                      /\ ~(c \in held'[r][s] /\ c \in orphans'[r])
    BY DEF OneHand
  <2>1. \A t \in Tasks : c \in held'[r][t] =>
          c \in held[r][t] /\ (r # Replica(u) \/ t # Task(u))
    BY <1>h
  <2>2. CASE r = Replica(u) /\ c \in kept
    <3>1. /\ c \in held[r][Task(u)] /\ c \notin orphans[r]
          /\ \A t \in Tasks : t # Task(u) => c \notin held[r][t]
          /\ \A v \in Runs : Replica(v) = r => c \notin mine[v] /\ c \notin work[v]
      BY <1>t, <1>r, <1>c, <2>2 DEF OneHand
    <3>2. \A v \in Runs : Replica(v) = r /\ c \in mine'[v] => v = u
      BY <1>1, <3>1
    <3> QED
      BY <1>0, <2>1, <2>2, <3>1, <3>2
  <2>3. CASE ~(r = Replica(u) /\ c \in kept)
    <3>1. \A v \in Runs : Replica(v) = r /\ c \in mine'[v] => c \in mine[v]
      BY <1>1, <2>3
    <3> QED
      BY <1>t, <1>0, <2>1, <3>1 DEF OneHand
  <2> QED
    BY <2>2, <2>3
<1>6. Accounted'
  <2> SUFFICES ASSUME NEW r \in Replicas, NEW c \in Conns
               PROVE  InHand(r, c)' <=> InHand(r, c)
    BY <1>t, <1>0 DEF Accounted
  <2>1. CASE r = Replica(u) /\ c \in kept
    BY <1>r, <1>c, <1>1, <2>1 DEF InHand
  <2>2. CASE ~(r = Replica(u) /\ c \in kept)
    <3>1. \A t \in Tasks : c \in held'[r][t] <=> c \in held[r][t]
      BY <1>h, <1>c, <2>2
    <3>2. \A v \in Runs : Replica(v) = r => (c \in mine'[v] <=> c \in mine[v])
      BY <1>0, <1>1, <2>2
    <3> QED
      BY <1>0, <3>1, <3>2 DEF InHand
  <2> QED
    BY <2>1, <2>2
<1>7. LockIsKept'
  <2>1. ASSUME NEW t \in Tasks, NEW r \in Replicas, NEW c \in Conns, <<r, c>> \in lock'[t]
        PROVE  \/ c \in held'[r][t] \/ c \in orphans'[r]
               \/ \E v \in Runs : /\ Replica(v) = r /\ Task(v) = t
                                  /\ pc'[v] \in {"elected", "unlock"} /\ c \in mine'[v]
    <3>1. CASE c \in held[r][t] /\ r = Replica(u) /\ t = Task(u)
      BY <1>1, <1>c, <3>1
    <3>2. CASE c \in held[r][t] /\ (r # Replica(u) \/ t # Task(u))
      BY <1>h, <3>2
    <3>3. CASE c \in orphans[r]
      BY <1>0, <3>3
    <3>4. ASSUME NEW v \in Runs, Replica(v) = r, Task(v) = t,
                 pc[v] \in {"elected", "unlock"}, c \in mine[v]
          PROVE  \E w \in Runs : /\ Replica(w) = r /\ Task(w) = t
                                 /\ pc'[w] \in {"elected", "unlock"} /\ c \in mine'[w]
      BY <1>0, <1>1, <3>4
    <3> QED
      BY <1>t, <1>0, <2>1, <3>1, <3>2, <3>3, <3>4 DEF LockIsKept
  <2> QED
    BY <1>t, <1>0, <2>1 DEF LockIsKept
<1>8. ElectedHasLock'
  <2>1. ASSUME NEW c \in Conns, NEW r \in Replicas, NEW t \in Tasks,
               c \in held'[r][t], c \in alive'[r]
        PROVE  <<r, c>> \in lock'[t]
    BY <1>t, <1>0, <1>h, <2>1 DEF ElectedHasLock
  <2>2. ASSUME NEW c \in Conns, NEW v \in Runs,
               pc'[v] = "elected", c \in mine'[v], c \in alive'[Replica(v)]
        PROVE  <<Replica(v), c>> \in lock'[Task(v)]
    BY <1>t, <1>0, <1>1, <2>2 DEF ElectedHasLock
  <2> QED
    BY <2>1, <2>2 DEF ElectedHasLock
<1>9. NotedOnce'
  <2>1. ASSUME NEW v \in Runs, orphans'[Replica(v)] = {}, pc'[v] \in Running
        PROVE  /\ held'[Replica(v)][Task(v)] # {}
               /\ \A w \in Runs : Replica(w) = Replica(v) /\ Task(w) = Task(v)
                                    /\ pc'[w] \in Running => w = v
    <3>1. v # u /\ pc[v] \in Running /\ pc[u] \in Running
      BY <1>0, <1>1, <2>1 DEF Running
    <3>2. /\ held[Replica(v)][Task(v)] # {}
          /\ \A w \in Runs : Replica(w) = Replica(v) /\ Task(w) = Task(v)
                               /\ pc[w] \in Running => w = v
      BY <1>t, <1>0, <2>1, <3>1 DEF NotedOnce
    <3>3. Replica(v) # Replica(u) \/ Task(v) # Task(u)
      BY <3>1, <3>2
    <3>4. held'[Replica(v)][Task(v)] = held[Replica(v)][Task(v)]
      BY <1>h, <3>3, RunsHave
    <3> QED
      BY <1>1, <3>1, <3>2, <3>3, <3>4
  <2> QED
    BY <2>1 DEF NotedOnce
<1> QED
  BY <1>2, <1>3, <1>4, <1>5, <1>6, <1>7, <1>8, <1>9 DEF SchedulerInv
-----------------------------------------------------------------------------
LEMMA SessionDiesPreserves ==
  ASSUME SchedulerInv, NEW r \in Replicas, NEW c \in Conns, SessionDies(r, c)
  PROVE  SchedulerInv'
<1>t. /\ SchedulerTypes /\ PlaceTells /\ DriverTells /\ OneHand /\ Accounted
      /\ LockIsKept /\ ElectedHasLock /\ NotedOnce
  BY DEF SchedulerInv
<1>0. UNCHANGED <<site, pc, mine, work, held, used, orphans>>
  BY DEF SessionDies
<1>1. /\ alive' \in [Replicas -> SUBSET Conns] /\ lock' \in [Tasks -> SUBSET Sessions]
      /\ \A q \in Replicas, d \in Conns :
           d \in alive'[q] <=> d \in alive[q] /\ ~(q = r /\ d = c)
      /\ \A t \in Tasks : lock'[t] = lock[t] \ {<<r, c>>}
  BY <1>t DEF SchedulerTypes, SessionDies, Drop
<1>2. SchedulerTypes'
  BY <1>t, <1>0, <1>1 DEF SchedulerTypes
<1>3. PlaceTells' /\ DriverTells' /\ OneHand'
  BY <1>t, <1>0 DEF PlaceTells, DriverTells, OneHand
<1>4. Accounted'
  BY <1>t, <1>0 DEF Accounted, InHand
<1>5. LockIsKept'
  BY <1>t, <1>0, <1>1 DEF LockIsKept
<1>6. ElectedHasLock'
  BY <1>t, <1>0, <1>1, RunsHave DEF ElectedHasLock
<1>7. NotedOnce'
  BY <1>t, <1>0 DEF NotedOnce
<1> QED
  BY <1>2, <1>3, <1>4, <1>5, <1>6, <1>7 DEF SchedulerInv

LEMMA CrashPreserves ==
  ASSUME SchedulerInv, NEW r \in Replicas, Crash(r)
  PROVE  SchedulerInv'
<1>t. /\ SchedulerTypes /\ PlaceTells /\ DriverTells /\ OneHand /\ Accounted
      /\ LockIsKept /\ ElectedHasLock /\ NotedOnce
  BY DEF SchedulerInv
<1>0. UNCHANGED site
  BY DEF Crash
<1>1. /\ pc' \in [Runs -> Steps]
      /\ mine' \in [Runs -> SUBSET Conns] /\ work' \in [Runs -> SUBSET Conns]
      /\ \A u \in Runs :
           \/ /\ Replica(u) = r /\ pc'[u] = "idle" /\ mine'[u] = {} /\ work'[u] = {}
           \/ /\ Replica(u) # r
              /\ pc'[u] = pc[u] /\ mine'[u] = mine[u] /\ work'[u] = work[u]
  BY <1>t DEF SchedulerTypes, Crash, Steps
<1>h. /\ held' \in [Replicas -> [Tasks -> SUBSET (0..PoolSize)]]
      /\ \A t \in Tasks : held'[r][t] = {}
      /\ \A q \in Replicas, t \in Tasks : q # r => held'[q][t] = held[q][t]
  BY <1>t DEF SchedulerTypes, Crash
<1>p. /\ used' \in [Replicas -> SUBSET Conns] /\ alive' \in [Replicas -> SUBSET Conns]
      /\ orphans' \in [Replicas -> SUBSET Conns]
      /\ used'[r] = {} /\ orphans'[r] = {}
      /\ \A q \in Replicas : q # r =>
           used'[q] = used[q] /\ alive'[q] = alive[q] /\ orphans'[q] = orphans[q]
  BY <1>t DEF SchedulerTypes, Crash
<1>l. /\ lock' \in [Tasks -> SUBSET Sessions]
      /\ \A t \in Tasks : lock'[t] = lock[t] \ ({r} \X (0..PoolSize))
  BY <1>t DEF SchedulerTypes, Crash, Drop
<1>m. \A t \in Tasks, q \in Replicas, c \in Conns :
        <<q, c>> \in lock'[t] <=> <<q, c>> \in lock[t] /\ q # r
  BY <1>l, PoolAssumption DEF Conns
<1>2. SchedulerTypes'
  BY <1>t, <1>0, <1>1, <1>h, <1>p, <1>l DEF SchedulerTypes
<1>3. PlaceTells'
  BY <1>t, <1>1 DEF PlaceTells
<1>4. DriverTells'
  <2>1. \A q \in Replicas, t \in Tasks : held'[q][t] \subseteq held[q][t]
    BY <1>h
  <2>2. \A q \in Replicas : orphans[q] = {} => orphans'[q] = {}
    BY <1>p
  <2>3. \A u \in Runs : pc'[u] \in {"idle", pc[u]}
    BY <1>1
  <2> QED
    BY <1>t, <1>0, <2>1, <2>2, <2>3 DEF DriverTells
<1>5. OneHand'
  <2>1. \A u \in Runs, c \in Conns : /\ c \in mine'[u] => c \in mine[u]
                                     /\ c \in work'[u] => c \in work[u]
    BY <1>1
  <2>2. \A q \in Replicas, c \in Conns :
          /\ c \in orphans'[q] => c \in orphans[q]
          /\ \A t \in Tasks : c \in held'[q][t] => c \in held[q][t]
    BY <1>h, <1>p
  <2> QED
    BY <1>t, <2>1, <2>2 DEF OneHand
<1>6. Accounted'
  <2> SUFFICES ASSUME NEW q \in Replicas, NEW c \in Conns
               PROVE  c \in used'[q] <=> InHand(q, c)'
    BY DEF Accounted
  <2>1. CASE q = r
    BY <1>1, <1>h, <1>p, <2>1 DEF InHand
  <2>2. CASE q # r
    <3>1. InHand(q, c)' <=> InHand(q, c)
      BY <1>1, <1>h, <1>p, <2>2 DEF InHand
    <3> QED
      BY <1>t, <1>p, <2>2, <3>1 DEF Accounted
  <2> QED
    BY <2>1, <2>2
<1>7. LockIsKept'
  <2>1. \A t \in Tasks : \A s1, s2 \in lock'[t] : s1 = s2
    BY <1>t, <1>l DEF LockIsKept
  <2>2. ASSUME NEW t \in Tasks, NEW q \in Replicas, NEW c \in Conns, <<q, c>> \in lock'[t]
        PROVE  \/ c \in held'[q][t] \/ c \in orphans'[q]
               \/ \E v \in Runs : /\ Replica(v) = q /\ Task(v) = t
                                  /\ pc'[v] \in {"elected", "unlock"} /\ c \in mine'[v]
    <3>1. q # r /\ <<q, c>> \in lock[t]
      BY <1>m, <2>2
    <3>2. \/ c \in held[q][t] \/ c \in orphans[q]
          \/ \E v \in Runs : /\ Replica(v) = q /\ Task(v) = t
                             /\ pc[v] \in {"elected", "unlock"} /\ c \in mine[v]
      BY <1>t, <3>1 DEF LockIsKept
    <3>3. CASE c \in held[q][t] \/ c \in orphans[q]
      BY <1>h, <1>p, <3>1, <3>3
    <3>4. ASSUME NEW v \in Runs, Replica(v) = q, Task(v) = t,
                 pc[v] \in {"elected", "unlock"}, c \in mine[v]
          PROVE  \E w \in Runs : /\ Replica(w) = q /\ Task(w) = t
                                 /\ pc'[w] \in {"elected", "unlock"} /\ c \in mine'[w]
      BY <1>1, <3>1, <3>4
    <3> QED
      BY <3>2, <3>3, <3>4
  <2> QED
    BY <2>1, <2>2 DEF LockIsKept
<1>8. ElectedHasLock'
  <2>1. ASSUME NEW c \in Conns, NEW q \in Replicas, NEW t \in Tasks,
               c \in held'[q][t], c \in alive'[q]
        PROVE  <<q, c>> \in lock'[t]
    BY <1>t, <1>h, <1>p, <1>m, <2>1 DEF ElectedHasLock
  <2>2. ASSUME NEW c \in Conns, NEW v \in Runs,
               pc'[v] = "elected", c \in mine'[v], c \in alive'[Replica(v)]
        PROVE  <<Replica(v), c>> \in lock'[Task(v)]
    BY <1>t, <1>1, <1>p, <1>m, <2>2, RunsHave DEF ElectedHasLock
  <2> QED
    BY <2>1, <2>2 DEF ElectedHasLock
<1>9. NotedOnce'
  <2>1. \A v \in Runs : pc'[v] \in Running => Replica(v) # r /\ pc[v] \in Running
    BY <1>1 DEF Running
  <2>2. \A v \in Runs : Replica(v) # r =>
          /\ held'[Replica(v)][Task(v)] = held[Replica(v)][Task(v)]
          /\ orphans'[Replica(v)] = orphans[Replica(v)]
    BY <1>h, <1>p, RunsHave
  <2> QED
    BY <1>t, <2>1, <2>2 DEF NotedOnce
<1> QED
  BY <1>2, <1>3, <1>4, <1>5, <1>6, <1>7, <1>8, <1>9 DEF SchedulerInv

LEMMA ReapPreserves ==
  ASSUME SchedulerInv, NEW t \in Tasks, Reap(t)
  PROVE  SchedulerInv'
<1>t. /\ SchedulerTypes /\ PlaceTells /\ DriverTells /\ OneHand /\ Accounted
      /\ LockIsKept /\ ElectedHasLock /\ NotedOnce
  BY DEF SchedulerInv
<1>0. UNCHANGED <<site, pc, mine, work, held, used, alive, orphans>>
  BY DEF Reap, pools
<1>1. /\ lock' \in [Tasks -> SUBSET Sessions] /\ lock'[t] = {}
      /\ \A s \in Tasks : s # t => lock'[s] = lock[s]
  BY <1>t DEF SchedulerTypes, Reap
<1>l. \A r \in Replicas, c \in Conns : <<r, c>> \notin lock[t]
  <2>1. PICK q \in Replicas : <<q, 0>> \in lock[t]
    BY DEF Reap
  <2>2. \A s \in lock[t] : s = <<q, 0>>
    BY <1>t, <2>1 DEF LockIsKept
  <2> QED
    BY <2>2 DEF Conns
<1>2. SchedulerTypes'
  BY <1>t, <1>0, <1>1 DEF SchedulerTypes
<1>3. PlaceTells' /\ DriverTells' /\ OneHand'
  BY <1>t, <1>0 DEF PlaceTells, DriverTells, OneHand
<1>4. Accounted'
  BY <1>t, <1>0 DEF Accounted, InHand
<1>5. LockIsKept'
  BY <1>t, <1>0, <1>1 DEF LockIsKept
<1>6. ElectedHasLock'
  BY <1>t, <1>0, <1>1, <1>l, RunsHave DEF ElectedHasLock
<1>7. NotedOnce'
  BY <1>t, <1>0 DEF NotedOnce
<1> QED
  BY <1>2, <1>3, <1>4, <1>5, <1>6, <1>7 DEF SchedulerInv

LEMMA StillPreserves ==
  ASSUME SchedulerInv,
         UNCHANGED <<site, pc, mine, work, held, used, alive, lock, orphans>>
  PROVE  SchedulerInv'
<1>t. /\ SchedulerTypes /\ PlaceTells /\ DriverTells /\ OneHand /\ Accounted
      /\ LockIsKept /\ ElectedHasLock /\ NotedOnce
  BY DEF SchedulerInv
<1>1. SchedulerTypes' /\ PlaceTells' /\ DriverTells' /\ OneHand'
  BY <1>t DEF SchedulerTypes, PlaceTells, DriverTells, OneHand
<1>2. Accounted' /\ LockIsKept' /\ ElectedHasLock' /\ NotedOnce'
  BY <1>t DEF Accounted, InHand, LockIsKept, ElectedHasLock, NotedOnce
<1> QED
  BY <1>1, <1>2 DEF SchedulerInv
-----------------------------------------------------------------------------
\* At pc "lock" the connection in hand has no lock yet.
LEMMA NotYetLocked ==
  ASSUME SchedulerInv, NEW u \in Runs, pc[u] \in {"lock", "job"},
         NEW t \in Tasks, NEW c \in mine[u]
  PROVE  <<Replica(u), c>> \notin lock[t]
<1>1. /\ Replica(u) \in Replicas /\ c \in Conns
      /\ OneHand /\ LockIsKept
  BY RunsHave DEF SchedulerInv, SchedulerTypes
<1> QED
  BY <1>1 DEF OneHand, LockIsKept

\* A connection in a run's hand is locked for no task but its own.
LEMMA LockedForItsTask ==
  ASSUME SchedulerInv, NEW u \in Runs, NEW t \in Tasks, t # Task(u), NEW c \in mine[u]
  PROVE  <<Replica(u), c>> \notin lock[t]
<1>1. /\ Replica(u) \in Replicas /\ c \in Conns
      /\ OneHand /\ LockIsKept
  BY RunsHave DEF SchedulerInv, SchedulerTypes
<1> QED
  BY <1>1 DEF OneHand, LockIsKept

\* The lock is refused, or its answer does not come.
LEMMA RefusedKeeps ==
  ASSUME SchedulerInv, NEW u \in Runs, pc[u] \in {"lock", "job"},
         \/ lock' = lock
         \/ /\ lock[Task(u)] = {}
            /\ lock' = [lock EXCEPT ![Task(u)] = {<<Replica(u), 0>>}]
  PROVE  OthersKeepLocks(u)
<1>t. /\ lock \in [Tasks -> SUBSET Sessions]
      /\ \A t \in Tasks : \A s1, s2 \in lock[t] : s1 = s2
  BY DEF SchedulerInv, SchedulerTypes, LockIsKept
<1>1. {<<Replica(u), 0>>} \in SUBSET Sessions
  BY RunsHave, PoolAssumption DEF Sessions
<1>2. lock' \in [Tasks -> SUBSET Sessions]
  BY <1>t, <1>1
<1>3. ASSUME NEW t \in Tasks, NEW r \in Replicas, NEW c \in Conns
      PROVE  /\ \A s1, s2 \in lock'[t] : s1 = s2
             /\ <<r, c>> \in lock'[t] <=> <<r, c>> \in lock[t]
  BY <1>t DEF Conns
<1>4. ASSUME NEW t \in Tasks
      PROVE  \A s1, s2 \in lock'[t] : s1 = s2
  BY <1>t
<1> QED
  BY <1>2, <1>3, <1>4, NotYetLocked DEF OthersKeepLocks

LEMMA UnlockKeeps ==
  ASSUME SchedulerInv, NEW u \in Runs, Holds(u),
         lock' = [lock EXCEPT ![Task(u)] = {}]
  PROVE  OthersKeepLocks(u)
<1>t. /\ lock \in [Tasks -> SUBSET Sessions] /\ mine[u] \in SUBSET Conns
      /\ Task(u) \in Tasks
      /\ \A t \in Tasks : \A s1, s2 \in lock[t] : s1 = s2
  BY RunsHave DEF SchedulerInv, SchedulerTypes, LockIsKept
<1>1. PICK m \in mine[u] : <<Replica(u), m>> \in lock[Task(u)]
  BY DEF Holds, SessionsOf
<1>2. \A r \in Replicas, c \in Conns : <<r, c>> \in lock[Task(u)] => r = Replica(u) /\ c = m
  BY <1>t, <1>1
<1>3. /\ lock' \in [Tasks -> SUBSET Sessions] /\ lock'[Task(u)] = {}
      /\ \A t \in Tasks : t # Task(u) => lock'[t] = lock[t]
  BY <1>t
<1>4. ASSUME NEW t \in Tasks
      PROVE  \A s1, s2 \in lock'[t] : s1 = s2
  BY <1>t, <1>3
<1>5. ASSUME NEW t \in Tasks, NEW r \in Replicas, NEW c \in Conns
      PROVE  <<r, c>> \in lock'[t] <=>
               <<r, c>> \in lock[t] /\ ~(r = Replica(u) /\ c \in mine[u])
  <2>1. CASE t = Task(u)
    BY <1>1, <1>2, <1>3, <2>1
  <2>2. CASE t # Task(u)
    BY <1>3, <2>2, LockedForItsTask
  <2> QED
    BY <2>1, <2>2
<1> QED
  BY <1>3, <1>4, <1>5 DEF OthersKeepLocks

LEMMA DropKeeps ==
  ASSUME SchedulerInv, NEW u \in Runs, Drop(SessionsOf(u, mine[u]))
  PROVE  OthersKeepLocks(u)
<1>t. /\ lock \in [Tasks -> SUBSET Sessions] /\ mine[u] \in SUBSET Conns
      /\ \A t \in Tasks : \A s1, s2 \in lock[t] : s1 = s2
  BY DEF SchedulerInv, SchedulerTypes, LockIsKept
<1>1. /\ lock' \in [Tasks -> SUBSET Sessions]
      /\ \A t \in Tasks : lock'[t] = lock[t] \ SessionsOf(u, mine[u])
  BY <1>t DEF Drop
<1>2. \A r \in Replicas, c \in Conns :
        <<r, c>> \in SessionsOf(u, mine[u]) <=> r = Replica(u) /\ c \in mine[u]
  <2>1. Conns \subseteq 0..PoolSize
    BY PoolAssumption DEF Conns
  <2> QED
    BY <1>t, <2>1, SessionsAre
<1> QED
  BY <1>t, <1>1, <1>2 DEF OthersKeepLocks

-----------------------------------------------------------------------------
LEMMA SchedulerStep == SchedulerInv /\ [Next]_vars => SchedulerInv'
<1> SUFFICES ASSUME SchedulerInv, [Next]_vars PROVE SchedulerInv'
  OBVIOUS
<1>t. SchedulerTypes /\ PlaceTells /\ DriverTells
  BY DEF SchedulerInv
<1>s. site.driver \in {"cron-inproc", "advisory-lock"}
  BY <1>t, SitesAssumption DEF SchedulerTypes
<1>1. ASSUME NEW u \in Runs, Start(u) PROVE SchedulerInv'
  <2>1. Moves(u, "acquire")
    BY <1>1 DEF Start, Moves, Goto, pools
  <2> QED
    BY <2>1, MovesPreserve
<1>2. ASSUME NEW u \in Runs, Acquire(u) PROVE SchedulerInv'
  <2>1. CASE held[Replica(u)][Task(u)] # {}
    <3>1. Moves(u, "idle")
      BY <1>2, <2>1 DEF Acquire, Moves, Goto, pools
    <3> QED
      BY <3>1, MovesPreserve
  <2>2. CASE held[Replica(u)][Task(u)] = {} /\ site.driver = "cron-inproc"
    <3>1. Elected(u)
      BY <1>2, <2>2 DEF Acquire, Elected, Goto, pools
    <3> QED
      BY <3>1, ElectedPreserves
  <2>3. CASE held[Replica(u)][Task(u)] = {} /\ site.driver # "cron-inproc"
    <3>1. Moves(u, "pool")
      BY <1>2, <2>3 DEF Acquire, Moves, Goto, pools
    <3> QED
      BY <3>1, MovesPreserve
  <2> QED
    BY <2>1, <2>2, <2>3
<1>3. ASSUME NEW u \in Runs, TakeConnection(u) PROVE SchedulerInv'
  <2>1. PICK c \in Free(u) : Take(u, c) /\ mine' = [mine EXCEPT ![u] = {c}]
    BY <1>3 DEF TakeConnection
  <2>2. Takes(u, c)
    BY <1>3, <2>1 DEF TakeConnection, Takes, Take, Free, Goto
  <2> QED
    BY <2>2, TakesPreserve
<1>4. ASSUME NEW u \in Runs, DeadlineInPool(u) PROVE SchedulerInv'
  <2>1. Moves(u, "idle")
    BY <1>4 DEF DeadlineInPool, Moves, Goto, pools
  <2> QED
    BY <2>1, MovesPreserve
<1>5. ASSUME NEW u \in Runs, TryLock(u) PROVE SchedulerInv'
  <2>1. CASE lock[Task(u)] \subseteq SessionsOf(u, mine[u]) /\ mine[u] # {}
    <3>1. Granted(u)
      BY <1>5, <2>1 DEF TryLock, Granted, Goto, pools
    <3> QED
      BY <3>1, GrantedPreserves
  <2>2. CASE ~ lock[Task(u)] \subseteq SessionsOf(u, mine[u])
    <3>1. Returns(u)
      BY <1>5, <2>2 DEF TryLock, Returns, GiveBack, Goto
    <3>2. OthersKeepLocks(u)
      BY <1>5, <2>2, RefusedKeeps DEF TryLock
    <3> QED
      BY <3>1, <3>2, ReturnsPreserve
  <2>3. mine[u] # {}
    BY <1>t, <1>5 DEF TryLock, PlaceTells
  <2> QED
    BY <2>1, <2>2, <2>3
<1>6. ASSUME NEW u \in Runs, LockFails(u) PROVE SchedulerInv'
  <2>1. Returns(u)
    BY <1>6 DEF LockFails, Returns, GiveBack, Goto
  <2>2. OthersKeepLocks(u)
    BY <1>6, RefusedKeeps DEF LockFails
  <2> QED
    BY <2>1, <2>2, ReturnsPreserve
<1>7. ASSUME NEW u \in Runs, Hold(u) PROVE SchedulerInv'
  <2>1. site.driver # "cron-inproc"
    BY <1>t, <1>7 DEF Hold, DriverTells
  <2>2. Notes(u)
    BY <1>7, <2>1 DEF Hold, Notes, Goto, pools
  <2> QED
    BY <2>2, NotesPreserve
<1>8. ASSUME NEW u \in Runs, JobAsks(u) PROVE SchedulerInv'
  <2>1. Moves(u, "waiting")
    BY <1>8 DEF JobAsks, Moves, Goto, pools
  <2> QED
    BY <2>1, MovesPreserve
<1>9. ASSUME NEW u \in Runs, JobGets(u) PROVE SchedulerInv'
  <2>1. PICK c \in Free(u) : Take(u, c) /\ work' = [work EXCEPT ![u] = {c}]
    BY <1>9 DEF JobGets
  <2>2. Takes(u, c)
    BY <1>9, <2>1 DEF JobGets, Takes, Take, Free, Goto
  <2> QED
    BY <2>2, TakesPreserve
<1>10. ASSUME NEW u \in Runs, DeadlineInJob(u) PROVE SchedulerInv'
  <2>1. Moves(u, "release")
    BY <1>10 DEF DeadlineInJob, Moves, Goto, pools
  <2> QED
    BY <2>1, MovesPreserve
<1>11. ASSUME NEW u \in Runs, JobEnds(u) PROVE SchedulerInv'
  <2>1. Returns(u)
    BY <1>11 DEF JobEnds, Returns, GiveBack, Goto
  <2>2. OthersKeepLocks(u)
    BY <1>11, RefusedKeeps DEF JobEnds
  <2> QED
    BY <2>1, <2>2, ReturnsPreserve
<1>12. ASSUME NEW u \in Runs, Forget(u) PROVE SchedulerInv'
  <2>1. Forgets(u)
    BY <1>12 DEF Forget, Forgets, Goto, pools
  <2> QED
    BY <2>1, ForgetsPreserve
<1>13. ASSUME NEW u \in Runs, Unlock(u) PROVE SchedulerInv'
  <2>1. Returns(u)
    BY <1>13 DEF Unlock, Returns, GiveBack, Goto
  <2>2. OthersKeepLocks(u)
    BY <1>13, UnlockKeeps DEF Unlock
  <2> QED
    BY <2>1, <2>2, ReturnsPreserve
<1>14. ASSUME NEW u \in Runs, UnlockFails(u) PROVE SchedulerInv'
  <2>1. Returns(u)
    BY <1>14 DEF UnlockFails, Returns, GiveBack, Goto
  <2>2. OthersKeepLocks(u)
    BY <1>14, DropKeeps DEF UnlockFails
  <2> QED
    BY <2>1, <2>2, ReturnsPreserve
<1>15. CASE UNCHANGED vars
  BY <1>15, StillPreserves DEF vars, pools
<1>16. ASSUME NEW u \in Runs, Progress(u) PROVE SchedulerInv'
  BY <1>16, <1>2, <1>3, <1>4, <1>5, <1>6, <1>7, <1>9, <1>10, <1>11, <1>12,
     <1>13, <1>14 DEF Progress
<1> QED
  BY <1>1, <1>8, <1>15, <1>16, CrashPreserves, SessionDiesPreserves,
     ReapPreserves DEF Next

LEMMA SchedulerInvariant == Spec => []SchedulerInv
BY SchedulerInitially, SchedulerStep, PTL DEF Spec

-----------------------------------------------------------------------------
\* ports.go, inproc.go: "nobody else is running it", "no overlap".  On one
\* replica the note settles it, between replicas the session's lock; what is
\* left is the overlap of a run whose session died or whose note was overwritten.
THEOREM RunsDoNotOverlap == Spec => []OneRunner
<1>1. SchedulerInv => OneRunner
  <2> SUFFICES ASSUME SchedulerInv, NEW u \in Runs, NEW v \in Runs,
                      u # v, Task(u) = Task(v), Working(u), Working(v),
                      site.driver = "cron-inproc" => Replica(u) = Replica(v),
                      ~LostItsSession(u), ~LostItsSession(v)
               PROVE  FALSE
    BY DEF OneRunner
  <2>t. SchedulerTypes /\ DriverTells /\ LockIsKept /\ ElectedHasLock /\ NotedOnce
    BY DEF SchedulerInv
  <2>s. site.driver \in {"cron-inproc", "advisory-lock"}
    BY <2>t, SitesAssumption DEF SchedulerTypes
  <2>r. /\ Replica(u) \in Replicas /\ Task(u) \in Tasks
        /\ Replica(v) \in Replicas /\ Task(v) \in Tasks
    BY RunsHave
  <2>1. orphans[Replica(u)] = {} /\ orphans[Replica(v)] = {}
    BY <2>t, <2>s, <2>r DEF DriverTells, LostItsSession
  <2>2. pc[u] \in Running /\ pc[v] \in Running
    BY DEF Working, Running
  <2>3. Replica(u) # Replica(v)
    BY <2>t, <2>1, <2>2 DEF NotedOnce
  <2>4. site.driver = "advisory-lock"
    BY <2>s, <2>3
  <2>5. ASSUME NEW w \in {u, v}
        PROVE  \E c \in Conns : <<Replica(w), c>> \in lock[Task(u)]
    <3>1. held[Replica(w)][Task(w)] # {} /\ Replica(w) \in Replicas /\ Task(w) = Task(u)
      BY <2>t, <2>r, <2>1, <2>2 DEF NotedOnce
    <3>2. PICK c \in held[Replica(w)][Task(w)] : c \in alive[Replica(w)]
      BY <2>4, <3>1 DEF LostItsSession
    <3>3. c \in Conns
      BY <2>t, <2>r, <3>1, <3>2 DEF SchedulerTypes
    <3> QED
      BY <2>t, <2>r, <3>1, <3>2, <3>3 DEF ElectedHasLock
  <2>6. PICK c \in Conns, d \in Conns :
          <<Replica(u), c>> \in lock[Task(u)] /\ <<Replica(v), d>> \in lock[Task(u)]
    BY <2>5
  <2> QED
    BY <2>t, <2>r, <2>3, <2>6 DEF LockIsKept
<1> QED
  BY <1>1, SchedulerInvariant, PTL

\* postgres.go, Release: no connection goes back to the pool with its lock, and
\* none is out of it that nobody has.
THEOREM PoolSoundness == Spec => []PoolIsSound
<1>1. SchedulerInv => PoolIsSound
  <2> SUFFICES ASSUME SchedulerInv PROVE PoolIsSound
    OBVIOUS
  <2>t. SchedulerTypes /\ DriverTells /\ Accounted /\ LockIsKept
    BY DEF SchedulerInv
  <2>1. ASSUME NEW t \in Tasks, NEW r \in Replicas, NEW c \in Conns \ used[r]
        PROVE  <<r, c>> \notin lock[t]
    BY <2>t DEF Accounted, InHand, LockIsKept
  <2>2. ASSUME NEW r \in Replicas
        PROVE  used[r] =
                 (UNION {mine[u] \union work[u] : u \in {v \in Runs : Replica(v) = r}})
                 \union (UNION {held[r][t] \ {0} : t \in Tasks}) \union orphans[r]
    <3>1. ASSUME NEW c \in Conns
          PROVE  InHand(r, c) <=>
                   \/ c \in UNION {mine[u] \union work[u] : u \in {v \in Runs : Replica(v) = r}}
                   \/ c \in UNION {held[r][t] \ {0} : t \in Tasks}
                   \/ c \in orphans[r]
      BY DEF InHand, Conns
    <3>2. /\ used[r] \subseteq Conns /\ orphans[r] \subseteq Conns
          /\ \A u \in Runs : mine[u] \union work[u] \subseteq Conns
          /\ \A t \in Tasks : held[r][t] \ {0} \subseteq Conns
      BY <2>t, PoolAssumption DEF SchedulerTypes, Conns
    <3> QED
      BY <2>t, <3>1, <3>2 DEF Accounted
  <2> QED
    BY <2>1, <2>2 DEF PoolIsSound
<1> QED
  BY <1>1, SchedulerInvariant, PTL
=============================================================================
