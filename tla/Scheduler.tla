----------------------------- MODULE Scheduler -----------------------------
(***************************************************************************)
(* Periodic tasks on several replicas.  A run of a task is elected, works  *)
(* and hands the task back.  The cron-inproc driver elects inside one      *)
(* process; the advisory-lock driver elects between replicas with a lock   *)
(* of a PostgreSQL session, held through a connection taken from the pool. *)
(***************************************************************************)
EXTENDS Integers, FiniteSets

CONSTANTS
  Replicas, Tasks,
  Triggers,     \* who calls RunOnce: the loop of the task, an external trigger
  PoolSize,     \* connections in the largest pool
  Sites         \* the deployments considered

Runs == Replicas \X Tasks \X Triggers

ASSUME PoolAssumption == PoolSize \in Nat \ {0}
ASSUME SitesAssumption ==
  Sites \subseteq [driver : {"cron-inproc", "advisory-lock"},
                   runs : SUBSET Runs,      \* who may run which task
                   pool : 1..PoolSize,      \* connections of a replica
                   maxTroubles : Nat]       \* bound: what may go wrong

Replica(u) == u[1]
Task(u) == u[2]

\* A session is a connection of a replica; connection 0 stands for one the
\* client has closed and the server has not yet noticed.
Conns == 1..PoolSize
Sessions == Replicas \X (0..PoolSize)

\* The deployment, settled before the program starts.
VARIABLE site

VARIABLES
  pc,     \* where each run stands
  mine,   \* the connection Acquire or Release has in hand, as a set
  work,   \* the connection the job uses, as a set
  held,   \* Elector.held: per replica and task, the connection kept, as a set
  used,   \* per replica, the connections taken from the pool
  alive,  \* per replica, the connections whose session is alive
  lock    \* in the database: the session that holds a task, as a set

\* History: statements refused, sessions lost and replicas killed; per replica,
\* the connections whose note in held was overwritten by a second election.
VARIABLES troubles, orphans

pools == <<used, alive>>
vars == <<site, pc, mine, work, held, pools, lock, troubles, orphans>>

Init ==
  /\ site \in Sites
  /\ pc = [u \in Runs |-> "idle"]
  /\ mine = [u \in Runs |-> {}]
  /\ work = [u \in Runs |-> {}]
  /\ held = [r \in Replicas |-> [t \in Tasks |-> {}]]
  /\ used = [r \in Replicas |-> {}]
  /\ alive = [r \in Replicas |-> Conns]
  /\ lock = [t \in Tasks |-> {}]
  /\ troubles = 0
  /\ orphans = [r \in Replicas |-> {}]

Goto(u, step) == pc' = [pc EXCEPT ![u] = step]

Trouble == troubles < site.maxTroubles /\ troubles' = troubles + 1

Free(u) == {c \in Conns : c <= site.pool} \ used[Replica(u)]

Take(u, c) == used' = [used EXCEPT ![Replica(u)] = @ \union {c}]

\* A connection goes back; the pool replaces it when its session is dead.
GiveBack(u, C) ==
  /\ used' = [used EXCEPT ![Replica(u)] = @ \ C]
  /\ alive' = [alive EXCEPT ![Replica(u)] = @ \union C]

SessionsOf(u, C) == {<<Replica(u), c>> : c \in C}

\* The database drops every lock a session held.
Drop(S) == lock' = [t \in Tasks |-> lock[t] \ S]

Alive(u) == mine[u] \subseteq alive[Replica(u)]

-----------------------------------------------------------------------------
(* RunOnce: the election.                                                  *)

Start(u) ==
  /\ u \in site.runs /\ pc[u] = "idle"
  /\ Goto(u, "acquire")
  /\ UNCHANGED <<site, mine, work, held, pools, lock, troubles, orphans>>

\* Broken on purpose: the mutex is not held throughout the decision.
Acquire_InTwoSteps(u) ==
  /\ pc[u] = "acquire"
  /\ Goto(u, IF held[Replica(u)][Task(u)] # {} THEN "idle"
             ELSE IF site.driver = "cron-inproc" THEN "elected" ELSE "pool")
  /\ UNCHANGED <<site, mine, work, held, pools, lock, troubles, orphans>>

\* inproc decides under its mutex; postgres only looks under it, and goes on
\* to ask the pool for a connection.
Acquire(u) ==
  LET busy == held[Replica(u)][Task(u)] # {}
  IN /\ pc[u] = "acquire"
     /\ IF busy THEN Goto(u, "idle")
        ELSE IF site.driver = "cron-inproc" THEN Goto(u, "job") ELSE Goto(u, "pool")
     /\ IF ~busy /\ site.driver = "cron-inproc"
          THEN held' = [held EXCEPT ![Replica(u)][Task(u)] = {0}]
          ELSE UNCHANGED held
     /\ UNCHANGED <<site, mine, work, pools, lock, troubles, orphans>>

TakeConnection(u) ==
  /\ pc[u] = "pool"
  /\ \E c \in Free(u) :
       Take(u, c) /\ mine' = [mine EXCEPT ![u] = {c}]
  /\ Goto(u, "lock")
  /\ UNCHANGED <<site, work, held, alive, lock, troubles, orphans>>

\* The deadline of the run passes before a connection comes free.
DeadlineInPool(u) ==
  /\ pc[u] = "pool"
  /\ Goto(u, "idle")
  /\ UNCHANGED <<site, mine, work, held, pools, lock, troubles, orphans>>

\* pg_try_advisory_lock; a session that holds the lock gets it once more.
TryLock(u) ==
  /\ pc[u] = "lock" /\ Alive(u)
  /\ IF lock[Task(u)] \subseteq SessionsOf(u, mine[u])
       THEN /\ lock' = [lock EXCEPT ![Task(u)] = SessionsOf(u, mine[u])]
            /\ Goto(u, "elected")
            /\ UNCHANGED <<mine, pools>>
       ELSE /\ Goto(u, "idle")
            /\ mine' = [mine EXCEPT ![u] = {}]
            /\ GiveBack(u, mine[u])
            /\ UNCHANGED lock
  /\ UNCHANGED <<site, work, held, troubles, orphans>>

\* The answer does not come: the session is dead, the statement is refused, or
\* the deadline passes.  In the last case the lock may have been granted; pgx
\* closes the connection and the server drops the lock when it notices.
LockFails(u) ==
  /\ pc[u] = "lock"
  /\ \/ ~Alive(u) /\ UNCHANGED <<lock, troubles>>
     \/ Trouble /\ UNCHANGED lock
     \/ /\ Alive(u) /\ Trouble /\ lock[Task(u)] = {}
        /\ lock' = [lock EXCEPT ![Task(u)] = {<<Replica(u), 0>>}]
  /\ Goto(u, "idle")
  /\ mine' = [mine EXCEPT ![u] = {}]
  /\ GiveBack(u, mine[u])
  /\ UNCHANGED <<site, work, held, orphans>>

\* The elector notes the connection that holds the lock.
Hold(u) ==
  /\ pc[u] = "elected"
  /\ held' = [held EXCEPT ![Replica(u)][Task(u)] =
                IF site.driver = "cron-inproc" THEN {0} ELSE mine[u]]
  /\ orphans' = [orphans EXCEPT ![Replica(u)] = @ \union
                   (held[Replica(u)][Task(u)] \ {0})]
  /\ mine' = [mine EXCEPT ![u] = {}]
  /\ Goto(u, "job")
  /\ UNCHANGED <<site, work, pools, lock, troubles>>

-----------------------------------------------------------------------------
(* The job, supplied by the caller: it may need the database.              *)

JobAsks(u) ==
  /\ pc[u] = "job" /\ work[u] = {}
  /\ site.driver = "advisory-lock"
  /\ Goto(u, "waiting")
  /\ UNCHANGED <<site, mine, work, held, pools, lock, troubles, orphans>>

JobGets(u) ==
  /\ pc[u] = "waiting"
  /\ \E c \in Free(u) :
       Take(u, c) /\ work' = [work EXCEPT ![u] = {c}]
  /\ Goto(u, "job")
  /\ UNCHANGED <<site, mine, held, alive, lock, troubles, orphans>>

\* Broken on purpose: the wait for a connection takes no notice of the deadline.
DeadlineInJob_None(u) ==
  /\ pc[u] = "waiting"
  /\ UNCHANGED vars

\* The deadline passes while the job waits for a connection.
DeadlineInJob(u) ==
  /\ pc[u] = "waiting"
  /\ Goto(u, "release")
  /\ UNCHANGED <<site, mine, work, held, pools, lock, troubles, orphans>>

\* The job returns, with an error or not: the release is deferred.
JobEnds(u) ==
  /\ pc[u] = "job"
  /\ GiveBack(u, work[u])
  /\ work' = [work EXCEPT ![u] = {}]
  /\ Goto(u, "release")
  /\ UNCHANGED <<site, mine, held, lock, troubles, orphans>>

-----------------------------------------------------------------------------
(* The release, with a context that is not cancelled.                      *)

\* Under the mutex: whatever connection is noted for the task is taken.
Forget(u) ==
  LET kept == held[Replica(u)][Task(u)] \ {0}
  IN /\ pc[u] = "release"
     /\ held' = [held EXCEPT ![Replica(u)][Task(u)] = {}]
     /\ mine' = [mine EXCEPT ![u] = kept]
     /\ Goto(u, IF kept = {} THEN "idle" ELSE "unlock")
     /\ UNCHANGED <<site, work, pools, lock, troubles, orphans>>

Holds(u) == lock[Task(u)] \intersect SessionsOf(u, mine[u]) # {}

Unlock(u) ==
  /\ pc[u] = "unlock" /\ Alive(u) /\ Holds(u)
  /\ lock' = [lock EXCEPT ![Task(u)] = {}]
  /\ mine' = [mine EXCEPT ![u] = {}]
  /\ GiveBack(u, mine[u])
  /\ Goto(u, "idle")
  /\ UNCHANGED <<site, work, held, troubles, orphans>>

\* Broken on purpose: the connection goes back to the pool all the same.
UnlockFails_KeepsConnection(u) ==
  /\ pc[u] = "unlock"
  /\ IF Alive(u) /\ Holds(u) THEN Trouble ELSE UNCHANGED troubles
  /\ mine' = [mine EXCEPT ![u] = {}]
  /\ GiveBack(u, mine[u])
  /\ Goto(u, "idle")
  /\ UNCHANGED <<site, work, held, lock, orphans>>

\* No answer, or the lock was not held: the connection is destroyed.
UnlockFails(u) ==
  /\ pc[u] = "unlock"
  /\ IF Alive(u) /\ Holds(u) THEN Trouble ELSE UNCHANGED troubles
  /\ Drop(SessionsOf(u, mine[u]))
  /\ mine' = [mine EXCEPT ![u] = {}]
  /\ GiveBack(u, mine[u])
  /\ Goto(u, "idle")
  /\ UNCHANGED <<site, work, held, orphans>>

-----------------------------------------------------------------------------
(* The environment.                                                        *)

\* A session in use is lost: a cut, a failover of the primary.
SessionDies(r, c) ==
  /\ c \in used[r] /\ c \in alive[r]
  /\ Trouble
  /\ alive' = [alive EXCEPT ![r] = @ \ {c}]
  /\ Drop({<<r, c>>})
  /\ UNCHANGED <<site, pc, mine, work, held, used, orphans>>

\* A replica is killed; it restarts with a fresh pool.
Crash(r) ==
  /\ \E u \in Runs : Replica(u) = r /\ pc[u] # "idle"
  /\ Trouble
  /\ pc' = [u \in Runs |-> IF Replica(u) = r THEN "idle" ELSE pc[u]]
  /\ mine' = [u \in Runs |-> IF Replica(u) = r THEN {} ELSE mine[u]]
  /\ work' = [u \in Runs |-> IF Replica(u) = r THEN {} ELSE work[u]]
  /\ held' = [held EXCEPT ![r] = [t \in Tasks |-> {}]]
  /\ used' = [used EXCEPT ![r] = {}]
  /\ alive' = [alive EXCEPT ![r] = Conns]
  /\ Drop({r} \X (0..PoolSize))
  /\ orphans' = [orphans EXCEPT ![r] = {}]
  /\ UNCHANGED site

\* The server notices that the client has closed the connection.
Reap(t) ==
  /\ \E r \in Replicas : <<r, 0>> \in lock[t]
  /\ lock' = [lock EXCEPT ![t] = {}]
  /\ UNCHANGED <<site, pc, mine, work, held, pools, troubles, orphans>>

-----------------------------------------------------------------------------
Progress(u) ==
  \/ Acquire(u) \/ TakeConnection(u) \/ DeadlineInPool(u)
  \/ TryLock(u) \/ LockFails(u) \/ Hold(u)
  \/ JobGets(u) \/ DeadlineInJob(u) \/ JobEnds(u)
  \/ Forget(u) \/ Unlock(u) \/ UnlockFails(u)

Next ==
  \/ \E u \in Runs : Start(u) \/ JobAsks(u) \/ Progress(u)
  \/ \E r \in Replicas : Crash(r) \/ \E c \in Conns : SessionDies(r, c)
  \/ \E t \in Tasks : Reap(t)

Spec == Init /\ [][Next]_vars

\* Goroutines are scheduled, deadlines pass, jobs honour their context and the
\* server notices a closed connection.
FairSpec ==
  /\ Spec
  /\ \A u \in Runs : WF_vars(Progress(u))
  /\ \A t \in Tasks : WF_vars(Reap(t))

-----------------------------------------------------------------------------
(* Properties.                                                             *)

Working(u) == pc[u] \in {"job", "waiting"}

\* The session of the lock is gone from under a run that works, or the note of
\* it was overwritten.
LostItsSession(u) ==
  /\ site.driver = "advisory-lock"
  /\ \/ ~ held[Replica(u)][Task(u)] \subseteq alive[Replica(u)]
     \/ orphans[Replica(u)] # {}

\* ports.go: true means "nobody else is running it, go ahead"; inproc.go: "no
\* overlap".  Two runs of one task work at the same time only on two replicas
\* that elect inside themselves, or when one lost its session under it.
OneRunner ==
  \A u, v \in Runs :
    /\ u # v /\ Task(u) = Task(v) /\ Working(u) /\ Working(v)
    /\ site.driver = "cron-inproc" => Replica(u) = Replica(v)
    => LostItsSession(u) \/ LostItsSession(v)

\* postgres.go, Release: a connection back in the pool with its lock "would
\* make that lock permanent" - a lock belongs to a connection in use; and every
\* connection out of the pool is in somebody's hands, but those a second election
\* made the elector forget.
PoolIsSound ==
  /\ \A t \in Tasks, r \in Replicas :
       \A c \in Conns \ used[r] : <<r, c>> \notin lock[t]
  /\ \A r \in Replicas :
       used[r] =
         (UNION {mine[u] \union work[u] : u \in {v \in Runs : Replica(v) = r}})
         \union (UNION {held[r][t] \ {0} : t \in Tasks}) \union orphans[r]

\* postgres.go, Release: nothing makes a lock "permanent: nobody would ever
\* release it, and the task would no longer run until the process restarted",
\* but a second election that overwrote the note of a first one.
LockIsHandedBack ==
  \A t \in Tasks :
    lock[t] # {} ~> lock[t] = {} \/ \E r \in Replicas : orphans[r] # {}

\* A run ends, even when every connection of the pool is pinned by a run that
\* waits for another one.
EveryRunEnds ==
  \A u \in Runs : pc[u] # "idle" ~> pc[u] = "idle"
=============================================================================
