------------------------------ MODULE DynConf ------------------------------
(***************************************************************************)
(* Dynamic configuration on PostgreSQL: one table, and in every replica a  *)
(* cache whose entries live for TTL.  A lookup reads the clock, then the   *)
(* cache, then the database, then writes the cache, with nothing held in   *)
(* between; Set writes the database, then purges the cache of its replica. *)
(***************************************************************************)
EXTENDS Integers

CONSTANTS
  Replicas,      \* the processes, each with its cache
  Callers,       \* the goroutines that call the module: <<replica, number>>
  Sites,         \* the deployments considered, each a set of callers
  Keys,          \* qualified keys, "flag.x" or "setting.y"
  Values,        \* what Set may write
  Absent,        \* what a lookup answers when the key has no value
  TTL,           \* lifetime of a cache entry, in ticks
  MaxClock,      \* bound: ticks
  MaxTroubles    \* bound: failed statements and callers that give up

ASSUME CallersAssumption == Callers \subseteq Replicas \X Nat
ASSUME SitesAssumption == Sites \subseteq SUBSET Callers
ASSUME TTLAssumption == TTL \in Nat
ASSUME BoundAssumption == MaxClock \in Nat /\ MaxTroubles \in Nat
ASSUME KeysAssumption == Keys # {}

\* The callers there are, settled before the program starts.
VARIABLE site

VARIABLES
  clock,      \* the instant every replica reads
  table,      \* platform.dynamic_config
  cache,      \* per replica and key: a set of at most one entry
  pc,         \* where each caller stands
  key,        \* the key it asked for
  asked,      \* the `now` of its lookup
  got,        \* what its query returned
  answer      \* the last answer given to anyone, with the `now` it was asked at

\* History: when the table last held a value it holds no more, when a lookup
\* last failed and how many calls did, and which replica last changed a key,
\* its Set having returned with no lookup of the key under way.
VARIABLES heldUntil, failedAt, troubles, setBy

db == <<table, heldUntil>>
lookup == <<key, asked, got>>
failuresSeen == <<failedAt, troubles>>
vars == <<site, clock, db, cache, pc, lookup, answer, failuresSeen, setBy>>

Answers == Values \union {Absent}

Entries == [value : Answers, expires : Int]

Never == -TTL - 1

Init ==
  /\ site \in Sites
  /\ clock = 0
  /\ table = [k \in Keys |-> Absent]
  /\ cache = [r \in Replicas |-> [k \in Keys |-> {}]]
  /\ pc = [p \in Callers |-> "idle"]
  /\ key = [p \in Callers |-> CHOOSE k \in Keys : TRUE]
  /\ asked = [p \in Callers |-> 0]
  /\ got = [p \in Callers |-> Absent]
  /\ answer = {}
  /\ heldUntil = [k \in Keys |-> [v \in Answers |-> Never]]
  /\ failedAt = Never
  /\ troubles = 0
  /\ setBy = [k \in Keys |-> {}]

Tick ==
  /\ clock < MaxClock
  /\ clock' = clock + 1
  /\ UNCHANGED <<site, db, cache, pc, lookup, answer, failuresSeen, setBy>>

-----------------------------------------------------------------------------
(* Flag and Setting, through lookup.                                       *)

\* The lookup returns v; its local variables are gone.
Reply(p, v) ==
  /\ answer' = {[key |-> key[p], value |-> v, asked |-> asked[p]]}
  /\ asked' = [asked EXCEPT ![p] = 0]
  /\ got' = [got EXCEPT ![p] = Absent]
  /\ pc' = [pc EXCEPT ![p] = "idle"]

\* The clock is read before anything else.
Ask(p, k) ==
  /\ p \in site /\ pc[p] = "idle"
  /\ pc' = [pc EXCEPT ![p] = "asked"]
  /\ key' = [key EXCEPT ![p] = k]
  /\ asked' = [asked EXCEPT ![p] = clock]
  /\ UNCHANGED <<site, clock, db, cache, got, answer, failuresSeen, setBy>>

\* Broken on purpose: an entry is kept for as long as it is read.
Live_Always(r, k, now) == cache[r][k]

\* The entry of a key, unless it has expired by `now`.
Live(r, k, now) == {e \in cache[r][k] : now < e.expires}

\* A live entry is the answer.
Hit(p) ==
  /\ pc[p] = "asked"
  /\ \E e \in Live(p[1], key[p], asked[p]) : Reply(p, e.value)
  /\ UNCHANGED <<site, clock, db, cache, key, failuresSeen, setBy>>

\* No live entry: the table is read.
Load(p) ==
  /\ pc[p] = "asked"
  /\ Live(p[1], key[p], asked[p]) = {}
  /\ got' = [got EXCEPT ![p] = table[key[p]]]
  /\ pc' = [pc EXCEPT ![p] = "loaded"]
  /\ UNCHANGED <<site, clock, db, cache, key, asked, answer, failuresSeen, setBy>>

\* The query fails, because of the database or because the caller's context
\* was cancelled: either way the answer is an absence, cached like any other.
LoadFails(p) ==
  /\ pc[p] = "asked"
  /\ Live(p[1], key[p], asked[p]) = {}
  /\ got' = [got EXCEPT ![p] = Absent]
  /\ pc' = [pc EXCEPT ![p] = "loaded"]
  /\ troubles < MaxTroubles
  /\ troubles' = troubles + 1
  /\ failedAt' = clock
  /\ UNCHANGED <<site, clock, db, cache, key, asked, answer, setBy>>

Expiry(p) == asked[p] + TTL

\* The answer is written to the cache over whatever is there.
Remember(p) ==
  /\ pc[p] = "loaded"
  /\ cache' = [cache EXCEPT
       ![p[1]][key[p]] = {[value |-> got[p], expires |-> Expiry(p)]}]
  /\ Reply(p, got[p])
  /\ UNCHANGED <<site, clock, db, key, failuresSeen, setBy>>

-----------------------------------------------------------------------------
(* Set and Invalidate.                                                     *)

\* The upsert, for every replica at once.
Write(k, v) ==
  /\ table' = [table EXCEPT ![k] = v]
  /\ heldUntil' = [heldUntil EXCEPT ![k][table[k]] = clock]

\* A valid change whose statement succeeds; the cache is purged afterwards.
Set(p, k, v) ==
  /\ p \in site /\ pc[p] = "idle"
  /\ Write(k, v)
  /\ setBy' = [setBy EXCEPT ![k] = {}]
  /\ key' = [key EXCEPT ![p] = k]
  /\ pc' = [pc EXCEPT ![p] = "written"]
  /\ UNCHANGED <<site, clock, cache, asked, got, answer, failuresSeen>>

\* The statement fails, applied or not: Set returns without purging.
SetFails(p, k, v) ==
  /\ p \in site /\ pc[p] = "idle"
  /\ troubles < MaxTroubles
  /\ troubles' = troubles + 1
  /\ \/ Write(k, v) /\ setBy' = [setBy EXCEPT ![k] = {}]
     \/ UNCHANGED <<db, setBy>>
  /\ UNCHANGED <<site, clock, cache, pc, lookup, answer, failedAt>>

Emptied == [k \in Keys |-> {}]

\* A goroutine of p's replica has read k and not remembered it yet.
UnderWay(p, k) ==
  \E q \in Callers : q[1] = p[1] /\ key[q] = k /\ pc[q] = "loaded"

\* Broken on purpose: the entry in the cache is left to expire.
Purge_LetsExpire(p) ==
  /\ pc[p] = "written"
  /\ setBy' = [setBy EXCEPT ![key[p]] = IF UnderWay(p, key[p]) THEN {} ELSE {p[1]}]
  /\ pc' = [pc EXCEPT ![p] = "idle"]
  /\ UNCHANGED <<site, clock, db, cache, lookup, answer, failuresSeen>>

\* Set purges its own replica and returns.
Purge(p) ==
  /\ pc[p] = "written"
  /\ cache' = [cache EXCEPT ![p[1]] = Emptied]
  /\ setBy' = [setBy EXCEPT ![key[p]] = IF UnderWay(p, key[p]) THEN {} ELSE {p[1]}]
  /\ pc' = [pc EXCEPT ![p] = "idle"]
  /\ UNCHANGED <<site, clock, db, lookup, answer, failuresSeen>>

\* The port, "to be called after a write made by another replica".
Invalidate(r) ==
  /\ cache[r] # Emptied
  /\ cache' = [cache EXCEPT ![r] = Emptied]
  /\ UNCHANGED <<site, clock, db, pc, lookup, answer, failuresSeen, setBy>>

-----------------------------------------------------------------------------
Next ==
  \/ Tick
  \/ \E p \in Callers :
       \/ \E k \in Keys : Ask(p, k)
       \/ Hit(p) \/ Load(p) \/ LoadFails(p) \/ Remember(p) \/ Purge(p)
       \/ \E k \in Keys, v \in Values : Set(p, k, v) \/ SetFails(p, k, v)
  \/ \E r \in Replicas : Invalidate(r)

Spec == Init /\ [][Next]_vars

-----------------------------------------------------------------------------
(* Properties.                                                             *)

\* Every variable keeps its type; a replica's cache has room for every key.
TypeOK ==
  /\ site \in Sites
  /\ clock \in Nat
  /\ table \in [Keys -> Answers]
  /\ cache \in [Replicas -> [Keys -> SUBSET Entries]]
  /\ pc \in [Callers -> {"idle", "asked", "loaded", "written"}]
  /\ key \in [Callers -> Keys]
  /\ asked \in [Callers -> Nat]
  /\ got \in [Callers -> Answers]
  /\ heldUntil \in [Keys -> [Answers -> Int]]
  /\ answer \subseteq [key : Keys, value : Answers, asked : Nat]
  /\ failedAt \in Int

\* The table held v at some instant not before t.
TrueSince(k, v, t) == table[k] = v \/ heldUntil[k][v] >= t

\* A lookup failed at some instant not before t.
FailedSince(t) == failedAt >= t

\* What a lookup may answer that reads nothing before t.
Justified(k, v, t) ==
  \/ TrueSince(k, v, t)
  \/ v = Absent /\ FailedSince(t)

\* postgres.go: a flag switched off takes at most ttl to go off everywhere.
\* Whatever a caller is answered was true, or could not be read, at most TTL
\* before it asked, however slow the queries and the writers are.
NeverOlderThanTTL ==
  \A a \in answer : Justified(a.key, a.value, a.asked - TTL)

\* A failure weighs on a replica no longer than TTL: no cached entry outlives
\* the reading it comes from by more than that.
CacheForgets ==
  \A r \in Replicas, k \in Keys : \A e \in cache[r][k] :
    Justified(k, e.value, e.expires - TTL)

\* postgres.go: "Set only purges the LOCAL cache; the other replicas keep the
\* previous value until it expires".  The replica that has set a key does not,
\* unless a lookup it had under way brings the previous value back.
SetterForgetsPrevious ==
  \A k \in Keys : \A r \in setBy[k] : \A e \in cache[r][k] :
    e.value = table[k] \/ (e.value = Absent /\ FailedSince(e.expires - TTL))
=============================================================================
