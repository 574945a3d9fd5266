--------------------------- MODULE DynConfProofs ---------------------------
(***************************************************************************)
(* Every answer of the dynamic configuration is at most TTL old, for any   *)
(* number of replicas, callers, keys and values.                           *)
(***************************************************************************)
EXTENDS DynConf, TLAPS

LEMMA AnswersAre == Absent \in Answers /\ Values \subseteq Answers
  BY DEF Answers

\* A reply keeps the types of what it writes.
LEMMA ReplyTypes ==
  ASSUME TypeOK, NEW p \in Callers, NEW v \in Answers, Reply(p, v)
  PROVE  /\ answer' \subseteq [key : Keys, value : Answers, asked : Nat]
         /\ asked' \in [Callers -> Nat]
         /\ got' \in [Callers -> Answers]
         /\ pc' \in [Callers -> {"idle", "asked", "loaded", "written"}]
<1>1. key[p] \in Keys /\ asked[p] \in Nat
  BY DEF TypeOK
<1> QED
  BY <1>1, AnswersAre DEF Reply, TypeOK

\* The variables keep their types: the cache of a replica is never a nil map.
THEOREM TypeCorrect == Spec => []TypeOK
<1>1. Init => TypeOK
  BY KeysAssumption, TTLAssumption
     DEF Init, TypeOK, Answers, Never
<1>2. TypeOK /\ [Next]_vars => TypeOK'
  <2> SUFFICES ASSUME TypeOK, [Next]_vars PROVE TypeOK'
    OBVIOUS
  <2> USE TTLAssumption DEF TypeOK
  <2>1. CASE Tick
    BY <2>1 DEF Tick, db, lookup, failuresSeen
  <2>2. ASSUME NEW p \in Callers, NEW k \in Keys, Ask(p, k) PROVE TypeOK'
    BY <2>2 DEF Ask, db, failuresSeen
  <2>3. ASSUME NEW p \in Callers, Hit(p) PROVE TypeOK'
    <3>1. p[1] \in Replicas
      BY CallersAssumption
    <3>2. PICK e \in Live(p[1], key[p], asked[p]) : Reply(p, e.value)
      BY <2>3 DEF Hit
    <3>3. e \in Entries
      BY <3>1, <3>2 DEF Live
    <3>4. e.value \in Answers
      BY <3>3 DEF Entries
    <3> QED
      BY <2>3, <3>2, <3>4, ReplyTypes DEF Hit, db, failuresSeen
  <2>4. ASSUME NEW p \in Callers, Load(p) PROVE TypeOK'
    BY <2>4 DEF Load, db, failuresSeen
  <2>5. ASSUME NEW p \in Callers, LoadFails(p) PROVE TypeOK'
    BY <2>5, AnswersAre DEF LoadFails, db
  <2>6. ASSUME NEW p \in Callers, Remember(p) PROVE TypeOK'
    <3>1. p[1] \in Replicas
      BY CallersAssumption
    <3>2. [value |-> got[p], expires |-> Expiry(p)] \in Entries
      BY DEF Entries, Expiry
    <3>3. cache' \in [Replicas -> [Keys -> SUBSET Entries]]
      BY <2>6, <3>1, <3>2 DEF Remember
    <3>4. Reply(p, got[p]) /\ got[p] \in Answers
      BY <2>6 DEF Remember
    <3> QED
      BY <2>6, <3>3, <3>4, ReplyTypes DEF Remember, db, failuresSeen
  <2>7. ASSUME NEW p \in Callers, Purge(p) PROVE TypeOK'
    <3>1. p[1] \in Replicas
      BY CallersAssumption
    <3> QED
      BY <2>7, <3>1 DEF Purge, Emptied, db, lookup, failuresSeen
  <2>8. ASSUME NEW k \in Keys, NEW v \in Values, Write(k, v)
        PROVE  /\ table' \in [Keys -> Answers]
               /\ heldUntil' \in [Keys -> [Answers -> Int]]
    BY <2>8, AnswersAre DEF Write
  <2>9. ASSUME NEW p \in Callers, NEW k \in Keys, NEW v \in Values, Set(p, k, v)
        PROVE  TypeOK'
    BY <2>8, <2>9 DEF Set, failuresSeen
  <2>10. ASSUME NEW p \in Callers, NEW k \in Keys, NEW v \in Values,
                SetFails(p, k, v)
         PROVE  TypeOK'
    BY <2>8, <2>10 DEF SetFails, db, lookup
  <2>11. ASSUME NEW r \in Replicas, Invalidate(r) PROVE TypeOK'
    BY <2>11 DEF Invalidate, Emptied, db, lookup, failuresSeen
  <2>12. CASE UNCHANGED vars
    BY <2>12 DEF vars, db, lookup, failuresSeen
  <2> QED
    BY <2>1, <2>2, <2>3, <2>4, <2>5, <2>6, <2>7, <2>9, <2>10, <2>11, <2>12
       DEF Next
<1> QED
  BY <1>1, <1>2, PTL DEF Spec

-----------------------------------------------------------------------------
\* A reading in flight was true, or failed, since its lookup began.
InFlightIsFresh ==
  \A p \in Callers : pc[p] = "loaded" => Justified(key[p], got[p], asked[p])

\* Nothing is dated in the future.
DatesArePast ==
  /\ \A p \in Callers : asked[p] <= clock
  /\ \A a \in answer : a.asked <= clock
  /\ \A r \in Replicas, k \in Keys : \A e \in cache[r][k] :
       e.expires - TTL <= clock
  /\ \A k \in Keys, v \in Answers : heldUntil[k][v] <= clock
  /\ failedAt <= clock

\* The strengthening: an answer is as fresh as the entry or the reading it
\* comes from, and time only makes the evidence older than the clock.
Fresh ==
  /\ TypeOK
  /\ DatesArePast
  /\ InFlightIsFresh
  /\ CacheForgets
  /\ NeverOlderThanTTL

\* Writing the table takes nothing away from what was justified: the value it
\* replaces is recorded as true until now.
LEMMA WriteKeepsJustified ==
  ASSUME TypeOK, DatesArePast, NEW k \in Keys, NEW w \in Values, Write(k, w),
         UNCHANGED <<clock, failedAt>>,
         NEW q \in Keys, NEW v \in Answers, NEW t \in Int, t <= clock,
         Justified(q, v, t)
  PROVE  Justified(q, v, t)'
<1>1. ASSUME TrueSince(q, v, t) PROVE TrueSince(q, v, t)'
  <2>1. CASE table[q] = v /\ q # k
    BY <2>1 DEF Write, TypeOK, TrueSince, Answers
  <2>2. CASE table[q] = v /\ q = k
    <3>1. heldUntil'[q][v] = clock
      BY <2>2 DEF Write, TypeOK
    <3> QED
      BY <3>1 DEF TrueSince, TypeOK
  <2>3. CASE heldUntil[q][v] >= t
    <3>1. heldUntil'[q][v] \in {heldUntil[q][v], clock}
      BY DEF Write, TypeOK
    <3> QED
      BY <2>3, <3>1 DEF TrueSince, TypeOK
  <2> QED
    BY <1>1, <2>1, <2>2, <2>3 DEF TrueSince
<1> QED
  BY <1>1 DEF Justified, FailedSince

\* An older instant asks for less.
LEMMA JustifiedEarlier ==
  ASSUME TypeOK, NEW k \in Keys, NEW v \in Answers,
         NEW s \in Int, NEW t \in Int, s <= t, Justified(k, v, t)
  PROVE  Justified(k, v, s)
<1>1. heldUntil[k][v] \in Int /\ failedAt \in Int
  BY DEF TypeOK
<1> QED
  BY <1>1 DEF Justified, TrueSince, FailedSince

-----------------------------------------------------------------------------
\* One step keeps every answer and every entry as fresh as what it comes from.
LEMMA FreshIsInvariant == Spec => []Fresh
<1>1. Init => Fresh
  <2>1. Init => TypeOK
    BY KeysAssumption, TTLAssumption
       DEF Init, TypeOK, Answers, Never
  <2> QED
    BY <2>1, TTLAssumption
       DEF Init, Fresh, DatesArePast, InFlightIsFresh, CacheForgets,
           NeverOlderThanTTL, Never
<1>2. Fresh /\ TypeOK' /\ [Next]_vars => Fresh'
  <2> SUFFICES ASSUME Fresh, TypeOK', [Next]_vars PROVE Fresh'
    OBVIOUS
  <2> USE TTLAssumption
  <2>0. TypeOK /\ DatesArePast /\ InFlightIsFresh /\ CacheForgets /\ NeverOlderThanTTL
    BY DEF Fresh
  <2>t. /\ \A p \in Callers : /\ p[1] \in Replicas /\ key[p] \in Keys
                              /\ got[p] \in Answers /\ asked[p] \in Nat
        /\ \A a \in answer : a.key \in Keys /\ a.value \in Answers /\ a.asked \in Nat
        /\ \A r \in Replicas, k \in Keys : \A e \in cache[r][k] :
             e.value \in Answers /\ e.expires \in Int
        /\ clock \in Nat /\ failedAt \in Int
        /\ \A k \in Keys, v \in Answers : heldUntil[k][v] \in Int
    <3>1. \A r \in Replicas, k \in Keys : cache[r][k] \subseteq Entries
      BY <2>0 DEF TypeOK
    <3>2. \A p \in Callers : p[1] \in Replicas
      BY CallersAssumption
    <3> QED
      BY <2>0, <3>1, <3>2 DEF TypeOK, Entries
  <2>1. ASSUME Tick \/ UNCHANGED vars PROVE Fresh'
    <3>1. UNCHANGED <<table, heldUntil, cache, pc, key, asked, got, answer,
                      failedAt>>
          /\ clock' \in {clock, clock + 1}
      BY <2>1 DEF Tick, vars, db, lookup, failuresSeen
    <3>2. DatesArePast'
      BY <2>0, <2>t, <3>1 DEF DatesArePast
    <3> QED
      BY <2>0, <3>1, <3>2
         DEF Fresh, InFlightIsFresh, CacheForgets, NeverOlderThanTTL,
             Justified, TrueSince, FailedSince
  <2>2. ASSUME NEW p \in Callers, NEW k \in Keys, Ask(p, k) PROVE Fresh'
    <3>1. UNCHANGED <<clock, table, heldUntil, cache, got, answer, failedAt>>
      BY <2>2 DEF Ask, db, failuresSeen
    <3>2. DatesArePast'
      BY <2>0, <2>2, <2>t, <3>1 DEF DatesArePast, Ask, TypeOK
    <3>3. InFlightIsFresh'
      BY <2>0, <2>2, <3>1
         DEF InFlightIsFresh, Ask, TypeOK, Justified, TrueSince, FailedSince
    <3> QED
      BY <2>0, <3>1, <3>2, <3>3
         DEF Fresh, CacheForgets, NeverOlderThanTTL, Justified, TrueSince,
             FailedSince
  <2>3. ASSUME NEW p \in Callers, Hit(p) PROVE Fresh'
    <3>1. UNCHANGED <<clock, table, heldUntil, cache, key, failedAt>>
      BY <2>3 DEF Hit, db, failuresSeen
    <3>2. PICK e \in Live(p[1], key[p], asked[p]) : Reply(p, e.value)
      BY <2>3 DEF Hit
    <3>3. e \in cache[p[1]][key[p]] /\ asked[p] < e.expires
      BY <3>2 DEF Live
    <3>4. Justified(key[p], e.value, asked[p] - TTL)
      <4>1. Justified(key[p], e.value, e.expires - TTL)
        BY <2>0, <2>t, <3>3 DEF CacheForgets
      <4> QED
        BY <2>0, <2>t, <3>3, <4>1, JustifiedEarlier
    <3>5. DatesArePast'
      BY <2>0, <2>t, <3>1, <3>2 DEF DatesArePast, Reply, TypeOK
    <3>6. InFlightIsFresh'
      BY <2>0, <2>3, <3>1, <3>2
         DEF InFlightIsFresh, Reply, TypeOK, Justified, TrueSince, FailedSince
    <3>7. NeverOlderThanTTL'
      BY <3>1, <3>2, <3>4
         DEF NeverOlderThanTTL, Reply, Justified, TrueSince, FailedSince
    <3> QED
      BY <2>0, <3>1, <3>5, <3>6, <3>7
         DEF Fresh, CacheForgets, Justified, TrueSince, FailedSince
  <2>4. ASSUME NEW p \in Callers, Load(p) PROVE Fresh'
    <3>1. UNCHANGED <<clock, table, heldUntil, cache, key, asked, answer,
                      failedAt>>
      BY <2>4 DEF Load, db, failuresSeen
    <3>2. InFlightIsFresh'
      <4> SUFFICES ASSUME NEW q \in Callers, pc'[q] = "loaded"
                   PROVE  Justified(key[q], got'[q], asked[q])
        BY <3>1 DEF InFlightIsFresh, Justified, TrueSince, FailedSince
      <4>1. CASE q = p
        <5>1. got'[p] = table[key[p]]
          BY <2>0, <2>4 DEF Load, TypeOK
        <5> QED
          BY <4>1, <5>1 DEF Justified, TrueSince, FailedSince
      <4>2. CASE q # p
        <5>1. got'[q] = got[q] /\ pc[q] = "loaded"
          BY <2>0, <2>4, <4>2 DEF Load, TypeOK
        <5> QED
          BY <2>0, <5>1 DEF InFlightIsFresh
      <4> QED
        BY <4>1, <4>2
    <3> QED
      BY <2>0, <3>1, <3>2
         DEF Fresh, DatesArePast, CacheForgets, NeverOlderThanTTL, Justified,
             TrueSince, FailedSince
  <2>5. ASSUME NEW p \in Callers, LoadFails(p) PROVE Fresh'
    <3>1. /\ UNCHANGED <<clock, table, heldUntil, cache, key, asked, answer>>
          /\ failedAt' = clock
      BY <2>5 DEF LoadFails, db
    <3>2. ASSUME NEW k \in Keys, NEW v \in Answers, NEW t \in Int, Justified(k, v, t),
                 t <= clock
          PROVE  Justified(k, v, t)'
      BY <2>0, <2>t, <3>1, <3>2 DEF Justified, TrueSince, FailedSince
    <3>3. InFlightIsFresh'
      <4> SUFFICES ASSUME NEW q \in Callers, pc'[q] = "loaded"
                   PROVE  Justified(key[q], got[q], asked[q])'
        BY DEF InFlightIsFresh
      <4>1. asked[q] <= clock
        BY <2>0 DEF DatesArePast
      <4>2. CASE q = p
        BY <2>0, <2>5, <2>t, <3>1, <4>1, <4>2
           DEF LoadFails, TypeOK, Justified, FailedSince
      <4>3. CASE q # p
        <5>1. got'[q] = got[q] /\ pc[q] = "loaded"
          BY <2>0, <2>5, <4>3 DEF LoadFails, TypeOK
        <5>2. Justified(key[q], got[q], asked[q])
          BY <2>0, <5>1 DEF InFlightIsFresh
        <5> QED
          BY <2>t, <3>1, <3>2, <4>1, <5>1, <5>2 DEF Justified, TrueSince
      <4> QED
        BY <4>2, <4>3
    <3>4. CacheForgets'
      BY <2>0, <2>t, <3>1, <3>2
         DEF CacheForgets, DatesArePast, Justified, TrueSince
    <3>5. NeverOlderThanTTL'
      BY <2>0, <2>t, <3>1, <3>2
         DEF NeverOlderThanTTL, DatesArePast, Justified, TrueSince
    <3>6. DatesArePast'
      BY <2>0, <2>t, <3>1 DEF DatesArePast
    <3> QED
      BY <3>3, <3>4, <3>5, <3>6 DEF Fresh
  <2>6. ASSUME NEW p \in Callers, Remember(p) PROVE Fresh'
    <3>1. UNCHANGED <<clock, table, heldUntil, key, failedAt>>
      BY <2>6 DEF Remember, db, failuresSeen
    <3>2. Justified(key[p], got[p], asked[p])
      BY <2>0, <2>6 DEF InFlightIsFresh, Remember
    <3>3. Justified(key[p], got[p], asked[p] - TTL)
      BY <2>0, <2>t, <3>2, JustifiedEarlier
    <3>4. \A r \in Replicas, k \in Keys : \A e \in cache'[r][k] :
            \/ e \in cache[r][k]
            \/ k = key[p] /\ e = [value |-> got[p], expires |-> Expiry(p)]
      BY <2>0, <2>6, <2>t DEF Remember, TypeOK
    <3>5. DatesArePast'
      BY <2>0, <2>6, <2>t, <3>1, <3>4
         DEF DatesArePast, Remember, Reply, TypeOK, Expiry
    <3>6. InFlightIsFresh'
      BY <2>0, <2>6, <3>1
         DEF InFlightIsFresh, Remember, Reply, TypeOK, Justified, TrueSince,
             FailedSince
    <3>7. CacheForgets'
      <4> SUFFICES ASSUME NEW r \in Replicas, NEW k \in Keys,
                          NEW e \in cache'[r][k]
                   PROVE  Justified(k, e.value, e.expires - TTL)
        BY <3>1 DEF CacheForgets, Justified, TrueSince, FailedSince
      <4>1. CASE e \in cache[r][k]
        BY <2>0, <4>1 DEF CacheForgets
      <4>2. CASE k = key[p] /\ e = [value |-> got[p], expires |-> Expiry(p)]
        <5>1. e.expires - TTL = asked[p]
          BY <2>t, <4>2 DEF Expiry
        <5> QED
          BY <3>2, <4>2, <5>1
      <4> QED
        BY <3>4, <4>1, <4>2
    <3>8. NeverOlderThanTTL'
      BY <2>6, <3>1, <3>3
         DEF NeverOlderThanTTL, Remember, Reply, Justified, TrueSince,
             FailedSince
    <3> QED
      BY <3>5, <3>6, <3>7, <3>8 DEF Fresh
  <2>7. ASSUME UNCHANGED <<clock, table, heldUntil, asked, got, answer, failedAt>>,
               key' = key,
               \A q \in Callers : pc'[q] = "loaded" => pc[q] = "loaded",
               \A r \in Replicas, k \in Keys : cache'[r][k] \subseteq cache[r][k]
        PROVE  Fresh'
    BY <2>0, <2>7
       DEF Fresh, DatesArePast, InFlightIsFresh, CacheForgets,
           NeverOlderThanTTL, Justified, TrueSince, FailedSince
  <2>8. ASSUME NEW p \in Callers, Purge(p) PROVE Fresh'
    <3>1. \A r \in Replicas, k \in Keys : cache'[r][k] \subseteq cache[r][k]
      BY <2>0, <2>8 DEF Purge, Emptied, TypeOK
    <3>2. \A q \in Callers : pc'[q] = "loaded" => pc[q] = "loaded"
      BY <2>0, <2>8 DEF Purge, TypeOK
    <3> QED
      BY <2>7, <2>8, <3>1, <3>2 DEF Purge, db, lookup, failuresSeen
  <2>9. ASSUME NEW r \in Replicas, Invalidate(r) PROVE Fresh'
    <3>1. \A q \in Replicas, k \in Keys : cache'[q][k] \subseteq cache[q][k]
      BY <2>0, <2>9 DEF Invalidate, Emptied, TypeOK
    <3> QED
      BY <2>7, <2>9, <3>1 DEF Invalidate, db, lookup, failuresSeen
  <2>10. ASSUME NEW k \in Keys, NEW w \in Values, Write(k, w),
                UNCHANGED <<clock, cache, asked, got, answer, failedAt>>,
                \A q \in Callers : pc'[q] = "loaded" => pc[q] = "loaded" /\ key'[q] = key[q]
         PROVE  Fresh'
    <3>1. ASSUME NEW q \in Keys, NEW v \in Answers, NEW t \in Int, t <= clock,
                 Justified(q, v, t)
          PROVE  Justified(q, v, t)'
      BY <2>0, <2>10, <3>1, WriteKeepsJustified
    <3>2. InFlightIsFresh'
      BY <2>0, <2>10, <2>t, <3>1
         DEF InFlightIsFresh, DatesArePast, Justified, TrueSince, FailedSince
    <3>3. CacheForgets'
      BY <2>0, <2>10, <2>t, <3>1
         DEF CacheForgets, DatesArePast, Justified, TrueSince, FailedSince
    <3>4. NeverOlderThanTTL'
      BY <2>0, <2>10, <2>t, <3>1
         DEF NeverOlderThanTTL, DatesArePast, Justified, TrueSince, FailedSince
    <3>5. DatesArePast'
      <4>1. \A q \in Keys, v \in Answers : heldUntil'[q][v] \in {heldUntil[q][v], clock}
        BY <2>0, <2>10 DEF Write, TypeOK
      <4> QED
        BY <2>0, <2>10, <2>t, <4>1 DEF DatesArePast
    <3> QED
      BY <3>2, <3>3, <3>4, <3>5 DEF Fresh
  <2>11. ASSUME NEW p \in Callers, NEW k \in Keys, NEW v \in Values, Set(p, k, v)
         PROVE  Fresh'
    <3>1. \A q \in Callers :
            pc'[q] = "loaded" => pc[q] = "loaded" /\ key'[q] = key[q]
      BY <2>0, <2>11 DEF Set, TypeOK
    <3> QED
      BY <2>10, <2>11, <3>1 DEF Set, failuresSeen
  <2>12. ASSUME NEW p \in Callers, NEW k \in Keys, NEW v \in Values,
                SetFails(p, k, v)
         PROVE  Fresh'
    <3>1. CASE Write(k, v)
      BY <2>10, <2>12, <3>1 DEF SetFails, lookup
    <3>2. CASE UNCHANGED db
      BY <2>7, <2>12, <3>2 DEF SetFails, db, lookup
    <3> QED
      BY <2>12, <3>1, <3>2 DEF SetFails
  <2> QED
    BY <2>1, <2>2, <2>3, <2>4, <2>5, <2>6, <2>8, <2>9, <2>11, <2>12 DEF Next
<1> QED
  BY <1>1, <1>2, TypeCorrect, PTL DEF Spec

\* postgres.go, "at most ttl to go off everywhere": whatever a caller is told
\* was true, or unreadable, at most TTL before it asked - with any number of
\* replicas and callers, and queries of any duration.
THEOREM Freshness == Spec => []NeverOlderThanTTL
<1>1. Fresh => NeverOlderThanTTL
  BY DEF Fresh
<1> QED
  BY <1>1, FreshIsInvariant, PTL

\* No replica keeps what it read, an absence owed to a failure included, for
\* longer than TTL after it read it.
THEOREM EntriesExpire == Spec => []CacheForgets
<1>1. Fresh => CacheForgets
  BY DEF Fresh
<1> QED
  BY <1>1, FreshIsInvariant, PTL
-----------------------------------------------------------------------------
(* The replica that changed a key keeps nothing older.  No query of it was *)
(* under way when its Set returned, and each one that has started since    *)
(* read the new value, or failed after it began.                           *)

CurrentSince(k, v, t) == v = table[k] \/ (v = Absent /\ FailedSince(t))

ReadingsAreCurrent ==
  \A p \in Callers : pc[p] = "loaded" /\ p[1] \in setBy[key[p]] =>
    CurrentSince(key[p], got[p], asked[p])

SetterInv ==
  /\ setBy \in [Keys -> SUBSET Replicas]
  /\ SetterForgetsPrevious
  /\ ReadingsAreCurrent

\* A step that changes no value keeps what is current, failures included.
LEMMA StaysCurrent ==
  ASSUME Fresh, Fresh', table' = table, failedAt' \in {failedAt, clock},
         NEW k, NEW v, NEW t \in Int, CurrentSince(k, v, t)
  PROVE  CurrentSince(k, v, t)'
<1>1. failedAt <= failedAt' /\ failedAt \in Int /\ failedAt' \in Int
  BY DEF Fresh, TypeOK, DatesArePast
<1>2. FailedSince(t) => FailedSince(t)'
  <2>1. PICK f \in Int : failedAt' = f
    BY <1>1
  <2>2. failedAt >= t => f >= t
    BY <1>1, <2>1
  <2> QED
    BY <2>1, <2>2 DEF FailedSince
<1> QED
  BY <1>2 DEF CurrentSince

\* No value changes, no key is newly attributed, and no reading is new.
LEMMA QuietKeepsSetter ==
  ASSUME Fresh, Fresh', SetterInv, table' = table,
         failedAt' \in {failedAt, clock}, setBy' = setBy,
         \A r \in Replicas, k \in Keys : cache'[r][k] \subseteq cache[r][k],
         \A p \in Callers : pc'[p] = "loaded" =>
           /\ pc[p] = "loaded" /\ key'[p] = key[p] /\ got'[p] = got[p]
           /\ asked'[p] = asked[p]
  PROVE  SetterInv'
<1>1. TypeOK
  BY DEF Fresh
<1>2. SetterForgetsPrevious'
  <2> SUFFICES ASSUME NEW k \in Keys, NEW r \in setBy[k], NEW e \in cache'[r][k]
               PROVE  CurrentSince(k, e.value, e.expires - TTL)'
    BY DEF SetterForgetsPrevious, CurrentSince
  <2>1. r \in Replicas
    BY DEF SetterInv
  <2>2. e \in cache[r][k] /\ e.expires \in Int
    BY <1>1, <2>1 DEF TypeOK, Entries
  <2>3. e.expires - TTL \in Int
    BY <2>2, TTLAssumption
  <2>4. CurrentSince(k, e.value, e.expires - TTL)
    BY <2>2 DEF SetterInv, SetterForgetsPrevious, CurrentSince
  <2> QED
    BY <2>3, <2>4, StaysCurrent
<1>3. ReadingsAreCurrent'
  <2> SUFFICES ASSUME NEW p \in Callers, pc'[p] = "loaded", p[1] \in setBy[key[p]]
               PROVE  CurrentSince(key[p], got[p], asked[p])'
    BY DEF ReadingsAreCurrent
  <2>1. CurrentSince(key[p], got[p], asked[p]) /\ asked[p] \in Int
    BY <1>1 DEF SetterInv, ReadingsAreCurrent, TypeOK
  <2>2. UNCHANGED <<key[p], got[p], asked[p]>>
    OBVIOUS
  <2>3. \A k, v : \A t \in Int : CurrentSince(k, v, t) => CurrentSince(k, v, t)'
    BY StaysCurrent
  <2> QED
    BY <2>1, <2>2, <2>3 DEF CurrentSince, FailedSince
<1> QED
  BY <1>2, <1>3 DEF SetterInv

\* Load and LoadFails: what is read is the table's, or a failure of now.
LEMMA LoadKeepsSetter ==
  ASSUME Fresh, Fresh', SetterInv, NEW p \in Callers, Load(p) \/ LoadFails(p)
  PROVE  SetterInv'
<1>1. TypeOK
  BY DEF Fresh
<1>2. /\ table' = table /\ cache' = cache /\ key' = key /\ asked' = asked
      /\ setBy' = setBy /\ failedAt' \in {failedAt, clock}
  BY DEF Load, LoadFails, db, failuresSeen
<1>3. SetterForgetsPrevious'
  <2> SUFFICES ASSUME NEW k \in Keys, NEW r \in setBy[k], NEW e \in cache[r][k]
               PROVE  CurrentSince(k, e.value, e.expires - TTL)'
    BY <1>2 DEF SetterForgetsPrevious, CurrentSince
  <2>1. r \in Replicas
    BY DEF SetterInv
  <2>2. e.expires - TTL \in Int
    BY <1>1, <2>1, TTLAssumption DEF TypeOK, Entries
  <2>3. CurrentSince(k, e.value, e.expires - TTL)
    BY DEF SetterInv, SetterForgetsPrevious, CurrentSince
  <2> QED
    BY <1>2, <2>2, <2>3, StaysCurrent
<1>4. ReadingsAreCurrent'
  <2> SUFFICES ASSUME NEW q \in Callers, pc'[q] = "loaded", q[1] \in setBy[key[q]]
               PROVE  CurrentSince(key[q], got[q], asked[q])'
    BY <1>2 DEF ReadingsAreCurrent, CurrentSince, FailedSince
  <2>1. CASE q # p
    <3>1. pc[q] = "loaded" /\ got'[q] = got[q]
      BY <1>1, <2>1 DEF Load, LoadFails, TypeOK
    <3>2. CurrentSince(key[q], got[q], asked[q]) /\ asked[q] \in Int
      BY <1>1, <3>1 DEF SetterInv, ReadingsAreCurrent, TypeOK
    <3>3. \A k, v : \A t \in Int : CurrentSince(k, v, t) => CurrentSince(k, v, t)'
      BY <1>2, StaysCurrent
    <3> QED
      BY <1>2, <3>1, <3>2, <3>3 DEF CurrentSince, FailedSince
  <2>2. CASE q = p /\ Load(p)
    <3>1. got'[q] = table[key[q]]
      BY <1>1, <2>2 DEF Load, TypeOK
    <3> QED
      BY <1>2, <3>1 DEF CurrentSince
  <2>3. CASE q = p /\ LoadFails(p)
    <3>1. got'[q] = Absent /\ failedAt' = clock
      BY <1>1, <2>3 DEF LoadFails, TypeOK
    <3>2. asked[q] <= clock /\ asked[q] \in Int /\ clock \in Int
      BY <1>1 DEF Fresh, DatesArePast, TypeOK
    <3>3. clock >= asked[q]
      BY <3>2
    <3> QED
      BY <1>2, <3>1, <3>3 DEF CurrentSince, FailedSince
  <2> QED
    BY <2>1, <2>2, <2>3
<1>5. setBy' \in [Keys -> SUBSET Replicas]
  BY <1>2 DEF SetterInv
<1> QED
  BY <1>3, <1>4, <1>5 DEF SetterInv

\* The entry that is written dates from the beginning of its lookup.
LEMMA RememberKeepsSetter ==
  ASSUME Fresh, SetterInv, NEW p \in Callers, Remember(p)
  PROVE  SetterInv'
<1>1. TypeOK /\ p[1] \in Replicas
  BY CallersAssumption DEF Fresh
<1>2. /\ table' = table /\ key' = key /\ setBy' = setBy /\ failedAt' = failedAt
      /\ pc[p] = "loaded"
      /\ \A q \in Callers : pc'[q] = "loaded" =>
           pc[q] = "loaded" /\ got'[q] = got[q] /\ asked'[q] = asked[q]
  BY <1>1 DEF Remember, Reply, db, failuresSeen, TypeOK
<1>3. \A r \in Replicas, k \in Keys : \A e \in cache'[r][k] :
        \/ e \in cache[r][k]
        \/ /\ r = p[1] /\ k = key[p] /\ e.value = got[p]
           /\ e.expires = asked[p] + TTL
  BY <1>1 DEF Remember, TypeOK, Expiry
<1>4. SetterForgetsPrevious'
  <2> SUFFICES ASSUME NEW k \in Keys, NEW r \in setBy[k], NEW e \in cache'[r][k]
               PROVE  CurrentSince(k, e.value, e.expires - TTL)
    BY <1>2 DEF SetterForgetsPrevious, CurrentSince, FailedSince
  <2>1. r \in Replicas
    BY DEF SetterInv
  <2>2. CASE e \in cache[r][k]
    BY <2>2 DEF SetterInv, SetterForgetsPrevious, CurrentSince
  <2>3. CASE /\ r = p[1] /\ k = key[p] /\ e.value = got[p]
             /\ e.expires = asked[p] + TTL
    <3>1. CurrentSince(k, e.value, asked[p])
      BY <1>2, <2>3 DEF SetterInv, ReadingsAreCurrent
    <3>2. asked[p] \in Int
      BY <1>1 DEF TypeOK
    <3>3. e.expires - TTL = asked[p]
      BY <2>3, <3>2, TTLAssumption
    <3> QED
      BY <3>1, <3>3
  <2> QED
    BY <1>3, <2>1, <2>2, <2>3
<1>5. ReadingsAreCurrent'
  BY <1>2 DEF SetterInv, ReadingsAreCurrent, CurrentSince, FailedSince
<1> QED
  BY <1>2, <1>4, <1>5 DEF SetterInv

\* Set has written: it forgets everything, and is the setter of its key unless
\* a query of its replica is about to bring the previous value back.
LEMMA PurgeKeepsSetter ==
  ASSUME Fresh, SetterInv, NEW p \in Callers, Purge(p)
  PROVE  SetterInv'
<1>1. TypeOK /\ p[1] \in Replicas /\ key[p] \in Keys
  BY CallersAssumption DEF Fresh, TypeOK
<1>2. /\ UNCHANGED <<table, key, asked, got, failedAt>>
      /\ \A q \in Callers : pc'[q] = "loaded" => pc[q] = "loaded"
      /\ \A k \in Keys : cache'[p[1]][k] = {}
      /\ \A r \in Replicas, k \in Keys : cache'[r][k] \subseteq cache[r][k]
  BY <1>1 DEF Purge, Emptied, db, lookup, failuresSeen, TypeOK
<1>3. /\ setBy' \in [Keys -> SUBSET Replicas]
      /\ \A k \in Keys \ {key[p]} : setBy'[k] = setBy[k]
      /\ \A r \in setBy'[key[p]] : r = p[1] /\ ~UnderWay(p, key[p])
  BY <1>1 DEF Purge, SetterInv
<1>4. SetterForgetsPrevious'
  <2> SUFFICES ASSUME NEW k \in Keys, NEW r \in setBy'[k], NEW e \in cache'[r][k]
               PROVE  CurrentSince(k, e.value, e.expires - TTL)
    BY <1>2 DEF SetterForgetsPrevious, CurrentSince, FailedSince
  <2>1. k # key[p] /\ r \in setBy[k] /\ r \in Replicas
    BY <1>2, <1>3
  <2>2. e \in cache[r][k]
    BY <1>2, <2>1
  <2> QED
    BY <2>1, <2>2 DEF SetterInv, SetterForgetsPrevious, CurrentSince
<1>5. ReadingsAreCurrent'
  <2> SUFFICES ASSUME NEW q \in Callers, pc[q] = "loaded", q[1] \in setBy'[key[q]]
               PROVE  CurrentSince(key[q], got[q], asked[q])
    BY <1>2 DEF ReadingsAreCurrent, CurrentSince, FailedSince
  <2>1. key[q] # key[p]
    BY <1>3 DEF UnderWay
  <2>2. key[q] \in Keys
    BY <1>1 DEF TypeOK
  <2> QED
    BY <1>3, <2>1, <2>2 DEF SetterInv, ReadingsAreCurrent
<1> QED
  BY <1>3, <1>4, <1>5 DEF SetterInv

\* The table changes for k: nobody is its setter any more.
LEMMA WriteKeepsSetter ==
  ASSUME Fresh, SetterInv, NEW k \in Keys, NEW v \in Values, Write(k, v),
         setBy' = [setBy EXCEPT ![k] = {}],
         UNCHANGED <<cache, asked, got, failedAt>>,
         \A q \in Callers : pc'[q] = "loaded" => pc[q] = "loaded" /\ key'[q] = key[q]
  PROVE  SetterInv'
<1>1. TypeOK
  BY DEF Fresh
<1>2. /\ setBy' \in [Keys -> SUBSET Replicas] /\ setBy'[k] = {}
      /\ \A q \in Keys \ {k} : setBy'[q] = setBy[q] /\ table'[q] = table[q]
  BY <1>1 DEF SetterInv, Write, TypeOK
<1>3. SetterForgetsPrevious'
  BY <1>2 DEF SetterInv, SetterForgetsPrevious, FailedSince
<1>4. ReadingsAreCurrent'
  <2> SUFFICES ASSUME NEW q \in Callers, pc'[q] = "loaded", q[1] \in setBy'[key'[q]]
               PROVE  CurrentSince(key[q], got[q], asked[q])'
    BY DEF ReadingsAreCurrent, CurrentSince, FailedSince
  <2>1. pc[q] = "loaded" /\ key'[q] = key[q] /\ key[q] \in Keys \ {k}
    BY <1>1, <1>2 DEF TypeOK
  <2>2. CurrentSince(key[q], got[q], asked[q])
    BY <1>2, <2>1 DEF SetterInv, ReadingsAreCurrent
  <2> QED
    BY <1>2, <2>1, <2>2 DEF CurrentSince, FailedSince
<1> QED
  BY <1>2, <1>3, <1>4 DEF SetterInv

LEMMA SetterStep ==
  ASSUME Fresh, Fresh', SetterInv, [Next]_vars
  PROVE  SetterInv'
<1>1. TypeOK /\ \A p \in Callers : p[1] \in Replicas
  BY CallersAssumption DEF Fresh
<1>2. CASE Tick \/ UNCHANGED vars
  BY <1>2, QuietKeepsSetter DEF Tick, vars, db, lookup, failuresSeen
<1>3. ASSUME NEW p \in Callers, NEW k \in Keys, Ask(p, k) PROVE SetterInv'
  <2>1. /\ UNCHANGED <<table, cache, failedAt, setBy>>
        /\ \A q \in Callers : pc'[q] = "loaded" =>
             /\ pc[q] = "loaded" /\ key'[q] = key[q] /\ got'[q] = got[q]
             /\ asked'[q] = asked[q]
    BY <1>1, <1>3 DEF Ask, TypeOK, db, failuresSeen
  <2> QED
    BY <2>1, QuietKeepsSetter
<1>4. ASSUME NEW p \in Callers, Hit(p) PROVE SetterInv'
  <2>1. /\ UNCHANGED <<table, cache, failedAt, setBy>>
        /\ \A q \in Callers : pc'[q] = "loaded" =>
             /\ pc[q] = "loaded" /\ key'[q] = key[q] /\ got'[q] = got[q]
             /\ asked'[q] = asked[q]
    BY <1>1, <1>4 DEF Hit, Reply, TypeOK, db, failuresSeen
  <2> QED
    BY <2>1, QuietKeepsSetter
<1>5. ASSUME NEW p \in Callers, Load(p) \/ LoadFails(p) PROVE SetterInv'
  BY <1>5, LoadKeepsSetter
<1>6. ASSUME NEW p \in Callers, Remember(p) PROVE SetterInv'
  BY <1>6, RememberKeepsSetter
<1>7. ASSUME NEW p \in Callers, Purge(p) PROVE SetterInv'
  BY <1>7, PurgeKeepsSetter
<1>8. ASSUME NEW p \in Callers, NEW k \in Keys, NEW v \in Values, Set(p, k, v)
      PROVE  SetterInv'
  <2>1. \A q \in Callers : pc'[q] = "loaded" => pc[q] = "loaded" /\ key'[q] = key[q]
    BY <1>1, <1>8 DEF Set, TypeOK
  <2> QED
    BY <1>8, <2>1, WriteKeepsSetter DEF Set, failuresSeen
<1>9. ASSUME NEW p \in Callers, NEW k \in Keys, NEW v \in Values, SetFails(p, k, v)
      PROVE  SetterInv'
  <2>1. UNCHANGED <<cache, pc, key, asked, got, failedAt>>
    BY <1>9 DEF SetFails, lookup
  <2>2. CASE Write(k, v) /\ setBy' = [setBy EXCEPT ![k] = {}]
    BY <2>1, <2>2, WriteKeepsSetter
  <2>3. CASE UNCHANGED <<db, setBy>>
    BY <2>1, <2>3, QuietKeepsSetter DEF db
  <2> QED
    BY <1>9, <2>2, <2>3 DEF SetFails
<1>10. ASSUME NEW r \in Replicas, Invalidate(r) PROVE SetterInv'
  <2>1. \A q \in Replicas, k \in Keys : cache'[q][k] \subseteq cache[q][k]
    BY <1>1, <1>10 DEF Invalidate, Emptied, TypeOK
  <2> QED
    BY <1>10, <2>1, QuietKeepsSetter DEF Invalidate, db, lookup, failuresSeen
<1> QED
  BY <1>2, <1>3, <1>4, <1>5, <1>6, <1>7, <1>8, <1>9, <1>10 DEF Next

\* postgres.go, Set: the replica that changed a key, none of whose queries for
\* it was under way, answers nothing older than what it wrote - only what the
\* table holds, or an absence that a later failure explains.
THEOREM SetterForgets == Spec => []SetterForgetsPrevious
<1>1. Init => SetterInv
  BY DEF Init, SetterInv, SetterForgetsPrevious, ReadingsAreCurrent
<1>2. Fresh /\ Fresh' /\ SetterInv /\ [Next]_vars => SetterInv'
  BY SetterStep
<1>3. SetterInv => SetterForgetsPrevious
  BY DEF SetterInv
<1> QED
  BY <1>1, <1>2, <1>3, FreshIsInvariant, PTL DEF Spec
=============================================================================
