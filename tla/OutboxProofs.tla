---------------------------- MODULE OutboxProofs ----------------------------
(***************************************************************************)
(* What holds of Outbox for any messages, dispatchers, policy and bounds.  *)
(***************************************************************************)
EXTENDS Outbox, FiniteSetTheorems, TLAPS

-----------------------------------------------------------------------------
(* Type correctness.                                                       *)

\* A copy of a message is a record of the right shape.
LEMMA CopyType ==
  ASSUME TypeOK, NEW m \in Messages
  PROVE  CopyOf(m) \in Copies
  BY DEF CopyOf, Copies, SortKey, TypeOK

\* The backoff is a number of ticks, so the next attempt is a proper instant.
LEMMA NextAttemptType ==
  ASSUME TypeOK, NEW c \in Copies
  PROVE  /\ NextAttempt(c).attempts \in Nat
         /\ NextAttempt(c).attempts = c.attempts + 1
         /\ NextAttempt(c).status \in {"pending", "failed"}
         /\ NextAttempt(c).status = "failed" <=> c.attempts + 1 >= MaxAttempts
         /\ NextAttempt(c).availableAt \in Int
  <1> DEFINE n == c.attempts + 1
  <1>1. n \in Nat
    BY DEF Copies
  <1>2. (IF n < maxShift THEN n ELSE maxShift) \in Nat
    BY <1>1 DEF maxShift
  <1>3. 2^(IF n < maxShift THEN n ELSE maxShift) \in Int
    BY <1>2
  <1>4. Backoff(n) \in Int
    BY <1>3, PolicyAssumption DEF Backoff
  <1>5. clock + Backoff(n) \in Int
    BY <1>4 DEF TypeOK
  <1> HIDE DEF n
  <1>6. NextAttempt(c) = [attempts |-> n,
                          status |-> IF n >= MaxAttempts THEN "failed" ELSE "pending",
                          availableAt |-> clock + Backoff(n)]
    BY DEF NextAttempt, n
  <1>7. QED
    BY <1>1, <1>5, <1>6 DEF n

\* Resolving a copy keeps the dispatcher's own state well typed.
LEMMA ResolvedType ==
  ASSUME TypeOK, NEW w \in Workers, NEW c \in Copies, Resolved(w, c)
  PROVE  /\ pc' \in [Workers -> {"idle", "claim", "publish", "record", "stopped"}]
         /\ batch' \in [Workers -> SUBSET Copies]
         /\ current' \in [Workers -> SUBSET Copies]
         /\ result' \in [Workers -> Results]
         /\ rounds' \in [Workers -> Nat]
         /\ full' \in [Workers -> BOOLEAN]
         /\ cancelled' \in [Workers -> BOOLEAN]
  BY DEF TypeOK, Resolved, Results

LEMMA MarkDoneType ==
  ASSUME TypeOK, NEW c \in Copies, MarkDone(c)
  PROVE  /\ status' \in [Messages -> Statuses]
         /\ attempts' \in [Messages -> Nat]
         /\ availableAt' \in [Messages -> Int]
         /\ inserted' \in [Messages -> Int]
         /\ claimed' \subseteq Messages
  BY DEF TypeOK, MarkDone, Copies, Statuses

LEMMA MarkFailedType ==
  ASSUME TypeOK, NEW c \in Copies, MarkFailed(c)
  PROVE  /\ status' \in [Messages -> Statuses]
         /\ attempts' \in [Messages -> Nat]
         /\ availableAt' \in [Messages -> Int]
         /\ inserted' \in [Messages -> Int]
         /\ claimed' \subseteq Messages
  <1> DEFINE next == NextAttempt(c)
  <1>1. next.attempts \in Nat /\ next.status \in Statuses /\ next.availableAt \in Int
    BY NextAttemptType DEF Statuses
  <1> HIDE DEF next
  <1>2. /\ attempts' = [attempts EXCEPT ![c.id] = next.attempts]
        /\ status' = [status EXCEPT ![c.id] = next.status]
        /\ availableAt' = [availableAt EXCEPT ![c.id] = next.availableAt]
        /\ claimed' = claimed \ {c.id}
        /\ UNCHANGED inserted
    BY DEF MarkFailed, next
  <1>3. QED
    BY <1>1, <1>2 DEF TypeOK

\* TypeOK is inductive on its own.
LEMMA TypeStep == TypeOK /\ [Next]_vars => TypeOK'
  <1> SUFFICES ASSUME TypeOK, [Next]_vars PROVE TypeOK'
    OBVIOUS
  <1> USE DEF store, worker, history, budget
  <1>1. ASSUME NEW m \in Messages, Enqueue(m) PROVE TypeOK'
    <2> DEFINE known == {n \in Messages : status[n] # "absent"}
    <2>1. Cardinality(known) \in Nat
      BY MessagesAssumption, FS_Subset, FS_CardinalityType
    <2> HIDE DEF known
    <2>2. inserted' = [inserted EXCEPT ![m] = 1 + Cardinality(known)]
      BY <1>1 DEF Enqueue, known
    <2>3. inserted' \in [Messages -> Int]
      BY <2>1, <2>2 DEF TypeOK
    <2>4. QED
      BY <1>1, <2>3 DEF Enqueue, TypeOK, Statuses
  <1>2. CASE Tick
    BY <1>2 DEF Tick, TypeOK
  <1>3. ASSUME NEW w \in Workers, Dispatch(w) PROVE TypeOK'
    <2>1. CASE Poll(w)
      BY <2>1 DEF Poll, TypeOK
    <2>2. CASE Stop(w)
      BY <2>2 DEF Stop, TypeOK
    <2>3. CASE Claim(w)
      <3>1. PICK B \in SUBSET Claimable :
               /\ batch' = [batch EXCEPT ![w] = {CopyOf(m) : m \in B}]
               /\ claimed' = IF driver = "memory" THEN claimed \union B ELSE claimed
               /\ full' = [full EXCEPT ![w] = Cardinality(B) = BatchSize]
               /\ pc' = [pc EXCEPT ![w] = IF B = {} THEN "idle" ELSE "publish"]
        BY <2>3 DEF Claim
      <3>2. {CopyOf(m) : m \in B} \subseteq Copies
        BY CopyType DEF Claimable
      <3>3. batch' \in [Workers -> SUBSET Copies]
        BY <3>1, <3>2 DEF TypeOK
      <3>4. claimed' \subseteq Messages
        BY <3>1 DEF TypeOK, Claimable
      <3>5. full' \in [Workers -> BOOLEAN]
        BY <3>1 DEF TypeOK
      <3>6. pc' \in [Workers -> {"idle", "claim", "publish", "record", "stopped"}]
        BY <3>1 DEF TypeOK
      <3>7. QED
        BY <2>3, <3>3, <3>4, <3>5, <3>6 DEF Claim, TypeOK
    <2>4. CASE ClaimFails(w)
      BY <2>4 DEF ClaimFails, Fault, TypeOK
    <2>5. CASE Publish(w)
      <3>1. PICK c \in batch[w], r \in Results :
               /\ current' = [current EXCEPT ![w] = {c}]
               /\ result' = [result EXCEPT ![w] = r]
               /\ \/ /\ handled' = [handled EXCEPT ![c.id] = @ + 1]
                     /\ UNCHANGED failures
                  \/ /\ failures' = [failures EXCEPT ![c.id] = @ + 1]
                     /\ UNCHANGED handled
        BY <2>5 DEF Publish
      <3>2. c \in Copies
        BY DEF TypeOK
      <3>3. QED
        BY <2>5, <3>1, <3>2 DEF Publish, TypeOK, Copies
    <2>6. CASE RecordDone(w)
      <3>1. PICK c \in current[w] : MarkDone(c) /\ Resolved(w, c)
        BY <2>6 DEF RecordDone
      <3>2. QED
        BY <2>6, <3>1, MarkDoneType, ResolvedType DEF RecordDone, TypeOK
    <2>7. CASE RecordFailed(w)
      <3>1. PICK c \in current[w] : MarkFailed(c) /\ Resolved(w, c)
        BY <2>7 DEF RecordFailed
      <3>2. QED
        BY <2>7, <3>1, MarkFailedType, ResolvedType DEF RecordFailed, TypeOK
    <2>8. CASE RecordFails(w)
      <3>1. PICK c \in current[w] :
               /\ UNCHANGED store \/ MarkDone(c) \/ MarkFailed(c)
               /\ UNCHANGED faults \/ faults' = faults + 1
               /\ Resolved(w, c)
        BY <2>8 DEF RecordFails, Fault
      <3>2. QED
        BY <2>8, <3>1, MarkDoneType, MarkFailedType, ResolvedType
        DEF RecordFails, TypeOK
    <2>9. QED
      BY <1>3, <2>1, <2>2, <2>3, <2>4, <2>5, <2>6, <2>7, <2>8 DEF Dispatch
  <1>4. ASSUME NEW w \in Workers, Environment(w) \/ Restart(w) PROVE TypeOK'
    <2>1. CASE Cancel(w)
      BY <2>1 DEF Cancel, TypeOK
    <2>2. CASE Crash(w)
      BY <2>2 DEF Crash, TypeOK, Results
    <2>3. CASE Restart(w)
      BY <2>3 DEF Restart, TypeOK
    <2>4. QED
      BY <1>4, <2>1, <2>2, <2>3 DEF Environment
  <1>5. CASE UNCHANGED vars
    BY <1>5 DEF vars, TypeOK
  <1>6. QED
    BY <1>1, <1>2, <1>3, <1>4, <1>5 DEF Next

\* Every state of the outbox is well typed, whatever the driver.
THEOREM TypeCorrect == Spec => []TypeOK
  <1>1. Init => TypeOK
    BY DEF Init, TypeOK, Statuses, Results
  <1>2. QED
    BY <1>1, TypeStep, PTL DEF Spec

-----------------------------------------------------------------------------
(* At least once, and never given up early: both drivers, any number of    *)
(* dispatchers, whatever the database and the platform do.                 *)

\* Why a copy may be marked: its publication is in the history.  The copy's
\* attempts never exceed the failures that happened, and a failure just
\* observed is one more than the copy counts.
CopiesAreAccounted ==
  \A w \in Workers :
    /\ current[w] \subseteq batch[w]
    /\ pc[w] # "record" => current[w] = {}
    /\ \A c \in batch[w] : c.attempts <= failures[c.id]
    /\ \A c \in current[w] :
         /\ result[w] = "ok" => handled[c.id] > 0
         /\ result[w] # "ok" => c.attempts < failures[c.id]

AccountInv == CopiesAreAccounted /\ DoneWasPublished /\ GivenUpAfterMaxAttempts

\* What Resolved leaves a dispatcher with: fewer copies, none of them current.
LEMMA ResolvedShrinks ==
  ASSUME TypeOK, NEW w \in Workers, NEW c, Resolved(w, c)
  PROVE  /\ batch'[w] = batch[w] \ {c}
         /\ current'[w] = {}
         /\ pc'[w] # "record"
         /\ \A v \in Workers \ {w} : /\ batch'[v] = batch[v]
                                     /\ current'[v] = current[v]
                                     /\ result'[v] = result[v]
                                     /\ pc'[v] = pc[v]
  BY DEF Resolved, TypeOK

\* Recording a fate, applied or not, keeps the accounts.
LEMMA RecordKeepsAccounts ==
  ASSUME TypeOK, AccountInv, NEW w \in Workers, NEW c \in current[w],
         Resolved(w, c), UNCHANGED history,
         \/ UNCHANGED store
         \/ result[w] = "ok" /\ MarkDone(c)
         \/ result[w] # "ok" /\ MarkFailed(c)
  PROVE  AccountInv'
  <1>1. c \in Copies
    BY DEF TypeOK
  <1>2. CopiesAreAccounted'
    BY ResolvedShrinks DEF AccountInv, CopiesAreAccounted, history
  <1>3. (DoneWasPublished /\ GivenUpAfterMaxAttempts)'
    <2>1. CASE UNCHANGED store
      BY <2>1 DEF store, history, AccountInv, DoneWasPublished, GivenUpAfterMaxAttempts
    <2>2. CASE result[w] = "ok" /\ MarkDone(c)
      BY <1>1, <2>2 DEF MarkDone, history, AccountInv, CopiesAreAccounted,
         DoneWasPublished, GivenUpAfterMaxAttempts, TypeOK, Copies
    <2>3. CASE result[w] # "ok" /\ MarkFailed(c)
      <3> DEFINE next == NextAttempt(c)
      <3>1. /\ next.attempts = c.attempts + 1
            /\ next.status \in {"pending", "failed"}
            /\ next.status = "failed" => c.attempts + 1 >= MaxAttempts
        BY <1>1, NextAttemptType
      <3>2. attempts' = [attempts EXCEPT ![c.id] = next.attempts]
            /\ status' = [status EXCEPT ![c.id] = next.status]
        BY <2>3 DEF MarkFailed
      <3> HIDE DEF next
      <3>3. c.attempts + 1 <= failures[c.id] /\ c.attempts \in Nat /\ c.id \in Messages
        BY <1>1, <2>3 DEF AccountInv, CopiesAreAccounted, TypeOK, Copies
      <3>4. DoneWasPublished'
        BY <3>1, <3>2, <3>3 DEF history, AccountInv, DoneWasPublished, TypeOK
      <3>5. GivenUpAfterMaxAttempts'
        BY <3>1, <3>2, <3>3, PolicyAssumption
        DEF history, AccountInv, GivenUpAfterMaxAttempts, TypeOK
      <3>6. QED
        BY <3>4, <3>5
    <2>4. QED
      BY <2>1, <2>2, <2>3
  <1>4. QED
    BY <1>2, <1>3 DEF AccountInv

LEMMA AccountStep == TypeOK /\ AccountInv /\ [Next]_vars => AccountInv'
  <1> SUFFICES ASSUME TypeOK, AccountInv, [Next]_vars PROVE AccountInv'
    OBVIOUS
  <1> USE DEF AccountInv
  <1>1. ASSUME NEW m \in Messages, Enqueue(m) PROVE AccountInv'
    BY <1>1 DEF Enqueue, worker, history, TypeOK, CopiesAreAccounted,
       DoneWasPublished, GivenUpAfterMaxAttempts
  <1>2. CASE Tick
    BY <1>2 DEF Tick, store, worker, history, CopiesAreAccounted,
       DoneWasPublished, GivenUpAfterMaxAttempts
  <1>3. ASSUME NEW w \in Workers, Dispatch(w) PROVE AccountInv'
    <2>1. CASE Poll(w) \/ Stop(w) \/ ClaimFails(w)
      BY <2>1 DEF Poll, Stop, ClaimFails, store, history, TypeOK, CopiesAreAccounted,
         DoneWasPublished, GivenUpAfterMaxAttempts
    <2>2. CASE Claim(w)
      <3>1. PICK B \in SUBSET Claimable :
               batch' = [batch EXCEPT ![w] = {CopyOf(m) : m \in B}]
        BY <2>2 DEF Claim
      <3>2. \A c \in batch'[w] : c.attempts <= failures[c.id]
        BY <3>1 DEF TypeOK, CopyOf, Claimable, GivenUpAfterMaxAttempts
      <3>3. current[w] \subseteq batch'[w]
        <4>1. current[w] = {}
          BY <2>2 DEF Claim, CopiesAreAccounted
        <4>2. QED
          BY <4>1
      <3>4. CopiesAreAccounted'
        BY <2>2, <3>1, <3>2, <3>3 DEF Claim, history, TypeOK, CopiesAreAccounted
      <3>5. QED
        BY <2>2, <3>4 DEF Claim, history, DoneWasPublished, GivenUpAfterMaxAttempts
    <2>3. CASE Publish(w)
      <3>1. PICK c \in batch[w], r \in Results :
               /\ current' = [current EXCEPT ![w] = {c}]
               /\ result' = [result EXCEPT ![w] = r]
               /\ IF r = "ok"
                    THEN /\ handled' = [handled EXCEPT ![c.id] = @ + 1]
                         /\ UNCHANGED failures
                    ELSE /\ failures' = [failures EXCEPT ![c.id] = @ + 1]
                         /\ UNCHANGED handled
        BY <2>3 DEF Publish
      <3>2. c.id \in Messages /\ c.attempts \in Nat
        BY DEF TypeOK, Copies
      <3>3. \A m \in Messages : /\ handled[m] <= handled'[m]
                                /\ failures[m] <= failures'[m]
                                /\ handled'[m] \in Nat /\ failures'[m] \in Nat
        BY <3>1, <3>2 DEF TypeOK
      <3>4. (r = "ok" => handled'[c.id] > 0) /\ (r # "ok" => c.attempts < failures'[c.id])
        BY <3>1, <3>2 DEF TypeOK, CopiesAreAccounted
      <3>5. UNCHANGED <<batch, status, attempts>> /\ pc' = [pc EXCEPT ![w] = "record"]
        BY <2>3 DEF Publish, store
      <3>6. ASSUME NEW v \in Workers, NEW d \in batch[v]
            PROVE  d.attempts <= failures'[d.id]
        BY <3>3 DEF TypeOK, Copies, CopiesAreAccounted
      <3>7. CopiesAreAccounted'
        <4>1. ASSUME NEW v \in Workers, v # w, NEW d \in current[v]
              PROVE  /\ result[v] = "ok" => handled'[d.id] > 0
                     /\ result[v] # "ok" => d.attempts < failures'[d.id]
          <5>1. d.id \in Messages /\ d.attempts \in Nat
            BY DEF TypeOK, Copies
          <5>2. QED
            BY <3>3, <4>1, <5>1 DEF CopiesAreAccounted, TypeOK
        <4>2. QED
          BY <3>1, <3>4, <3>5, <3>6, <4>1 DEF CopiesAreAccounted, TypeOK
      <3>8. DoneWasPublished' /\ GivenUpAfterMaxAttempts'
        BY <3>3, <3>5, PolicyAssumption DEF DoneWasPublished, GivenUpAfterMaxAttempts, TypeOK
      <3>9. QED
        BY <3>7, <3>8
    <2>4. CASE RecordDone(w)
      <3>1. PICK c \in current[w] : MarkDone(c) /\ Resolved(w, c)
        BY <2>4 DEF RecordDone
      <3>2. QED
        BY <2>4, <3>1, RecordKeepsAccounts DEF RecordDone
    <2>5. CASE RecordFailed(w)
      <3>1. PICK c \in current[w] : MarkFailed(c) /\ Resolved(w, c)
        BY <2>5 DEF RecordFailed
      <3>2. QED
        BY <2>5, <3>1, RecordKeepsAccounts DEF RecordFailed
    <2>6. CASE RecordFails(w)
      <3>1. PICK c \in current[w] :
               /\ \/ UNCHANGED store
                  \/ result[w] = "ok" /\ MarkDone(c)
                  \/ result[w] # "ok" /\ MarkFailed(c)
               /\ Resolved(w, c)
        BY <2>6 DEF RecordFails
      <3>2. QED
        BY <2>6, <3>1, RecordKeepsAccounts DEF RecordFails
    <2>7. QED
      BY <1>3, <2>1, <2>2, <2>3, <2>4, <2>5, <2>6 DEF Dispatch
  <1>4. ASSUME NEW w \in Workers, Environment(w) \/ Restart(w) PROVE AccountInv'
    <2>1. CASE Cancel(w) \/ Restart(w)
      BY <2>1 DEF Cancel, Restart, store, history, TypeOK, CopiesAreAccounted,
         DoneWasPublished, GivenUpAfterMaxAttempts
    <2>2. CASE Crash(w)
      BY <2>2 DEF Crash, store, history, TypeOK, CopiesAreAccounted,
         DoneWasPublished, GivenUpAfterMaxAttempts
    <2>3. QED
      BY <1>4, <2>1, <2>2 DEF Environment
  <1>5. CASE UNCHANGED vars
    BY <1>5 DEF vars, store, worker, history, CopiesAreAccounted,
       DoneWasPublished, GivenUpAfterMaxAttempts
  <1>6. QED
    BY <1>1, <1>2, <1>3, <1>4, <1>5 DEF Next

LEMMA AccountInvariant == Spec => []AccountInv
  <1>1. Init => AccountInv
    BY PolicyAssumption DEF Init, AccountInv, CopiesAreAccounted, DoneWasPublished,
       GivenUpAfterMaxAttempts
  <1>2. QED
    BY <1>1, AccountStep, TypeCorrect, PTL DEF Spec

\* A message is `done` only once it has been published, on either driver and
\* with any number of dispatchers: MarkDone is never reached on another path.
THEOREM AtLeastOnce == Spec => []DoneWasPublished
  BY AccountInvariant, PTL DEF AccountInv

\* A message is given up only after MaxAttempts failed publications, even when
\* stale copies overwrite one another's attempts.
THEOREM NeverGivenUpEarly == Spec => []GivenUpAfterMaxAttempts
  BY AccountInvariant, PTL DEF AccountInv

-----------------------------------------------------------------------------
(* Exclusivity, where it holds: the memory driver, or a single dispatcher  *)
(* on postgres.  With several dispatchers on postgres TLC refutes it.      *)

\* The deployment is settled once and for all.
LEMMA SiteIsFixed ==
  ASSUME [Next]_vars
  PROVE  /\ site' = site /\ driver' = driver /\ team' = team
         /\ Exclusive' <=> Exclusive
  <1>1. site' = site
    BY DEF vars, Next, Enqueue, Tick, Dispatch, Environment, Poll, Stop, Claim,
       ClaimFails, Publish, RecordDone, RecordFailed, RecordFails, Cancel, Crash,
       Restart
  <1>2. QED
    BY <1>1 DEF driver, team, Exclusive

\* Whoever is not deployed is not running.
OnlyTeamRuns == \A w \in Workers \ team : pc[w] = "stopped"

\* A dispatcher never holds two copies of one message.
CopiesAreDistinct ==
  \A w \in Workers : \A c, d \in batch[w] : c.id = d.id => c = d

\* A dispatcher about to claim holds nothing.
ClaimsEmptyHanded ==
  \A w \in Workers : pc[w] \in {"idle", "claim", "stopped"} => batch[w] = {}

ExclusiveInv ==
  /\ OnlyTeamRuns
  /\ ClaimsEmptyHanded
  /\ HeldByOne
  /\ CopiesAreCurrent
  /\ CopiesAreDistinct
  /\ ClaimedIsHeld

\* Recording the fate of c, applied or not, concerns nobody else's copies.
LEMMA RecordKeepsExclusive ==
  ASSUME TypeOK, AccountInv, ExclusiveInv,
         NEW w \in Workers, NEW c \in current[w], Resolved(w, c),
         \/ driver # "memory" /\ UNCHANGED store
         \/ MarkDone(c)
         \/ MarkFailed(c),
         driver' = driver, team' = team, w \in team
  PROVE  ExclusiveInv'
  <1>1. c \in Copies /\ c \in batch[w]
    BY DEF TypeOK, AccountInv, CopiesAreAccounted
  <1>2. /\ batch'[w] = batch[w] \ {c}
        /\ \A v \in Workers \ {w} : batch'[v] = batch[v]
    BY ResolvedShrinks
  <1>3. HeldByOne' /\ CopiesAreDistinct'
    BY <1>2 DEF ExclusiveInv, HeldByOne, CopiesAreDistinct, Held, IdsOf
  <1>4. ASSUME NEW v \in Workers, NEW d \in batch'[v] PROVE d.id # c.id
    <2>1. CASE v = w
      BY <1>1, <1>2, <1>4, <2>1 DEF ExclusiveInv, CopiesAreDistinct
    <2>2. CASE v # w
      <3>1. d.id \in Held(v) /\ c.id \in Held(w)
        BY <1>1, <1>2, <1>4, <2>2 DEF Held, IdsOf
      <3>2. QED
        BY <2>2, <3>1 DEF ExclusiveInv, HeldByOne
    <2>3. QED
      BY <2>1, <2>2
  <1>5. CopiesAreCurrent'
    <2>1. \A m \in Messages \ {c.id} : status'[m] = status[m] /\ attempts'[m] = attempts[m]
      BY DEF store, MarkDone, MarkFailed, TypeOK
    <2>2. ASSUME NEW v \in Workers, NEW d \in batch'[v]
          PROVE  status'[d.id] = "pending" /\ attempts'[d.id] = d.attempts
      <3>1. d \in batch[v] /\ d.id \in Messages
        BY <1>2, <2>2 DEF TypeOK, Copies
      <3>2. QED
        BY <1>4, <2>1, <2>2, <3>1 DEF ExclusiveInv, CopiesAreCurrent
    <2>3. QED
      BY <2>2 DEF CopiesAreCurrent
  <1>6. ASSUME driver = "memory"
        PROVE  claimed' = UNION {Held(v)' : v \in Workers}
    <2>1. claimed' = claimed \ {c.id}
      BY <1>6 DEF MarkDone, MarkFailed
    <2>2. Held(w)' = Held(w) \ {c.id}
      BY <1>1, <1>2, <1>4 DEF Held, IdsOf
    <2>3. \A v \in Workers \ {w} : Held(v)' = Held(v) /\ c.id \notin Held(v)
      BY <1>1, <1>2, <1>4 DEF Held, IdsOf
    <2>4. claimed = UNION {Held(v) : v \in Workers}
      BY <1>6 DEF ExclusiveInv, ClaimedIsHeld
    <2>5. ASSUME NEW m
          PROVE  m \in claimed' <=> \E v \in Workers : m \in Held(v)'
      BY <2>1, <2>2, <2>3, <2>4
    <2>6. QED
      BY <2>5
  <1>7. ClaimsEmptyHanded' /\ OnlyTeamRuns'
    BY <1>2 DEF ClaimsEmptyHanded, OnlyTeamRuns, ExclusiveInv, Resolved, TypeOK
  <1>8. QED
    BY <1>3, <1>5, <1>6, <1>7 DEF ExclusiveInv, ClaimedIsHeld

\* A claim takes what nobody holds.
LEMMA ClaimKeepsExclusive ==
  ASSUME Exclusive, TypeOK, AccountInv, ExclusiveInv, NEW w \in Workers,
         Claim(w), driver' = driver, team' = team
  PROVE  ExclusiveInv'
  <1>1. PICK B \in SUBSET Claimable :
           /\ batch' = [batch EXCEPT ![w] = {CopyOf(m) : m \in B}]
           /\ claimed' = IF driver = "memory" THEN claimed \union B ELSE claimed
           /\ pc' = [pc EXCEPT ![w] = IF B = {} THEN "idle" ELSE "publish"]
    BY DEF Claim
  <1>2. /\ batch'[w] = {CopyOf(m) : m \in B}
        /\ \A v \in Workers \ {w} : batch'[v] = batch[v]
        /\ UNCHANGED <<status, attempts>>
        /\ batch[w] = {}
    BY <1>1 DEF TypeOK, Claim, ExclusiveInv, ClaimsEmptyHanded
  <1>3. Held(w)' = B /\ Held(w) = {}
    <2>1. \A m \in B : CopyOf(m).id = m
      BY DEF CopyOf
    <2>2. \A m : m \in Held(w)' <=> \E n \in B : m = CopyOf(n).id
      BY <1>2 DEF Held, IdsOf
    <2>3. Held(w)' = B
      BY <2>1, <2>2
    <2>4. Held(w) = {}
      BY <1>2 DEF Held, IdsOf
    <2>5. QED
      BY <2>3, <2>4
  <1>4. \A v \in Workers \ {w} : Held(v)' = Held(v)
    BY <1>2 DEF Held, IdsOf
  <1>5. HeldByOne'
    <2>1. CASE driver = "memory"
      <3>1. \A v \in Workers \ {w} : Held(v) \cap B = {}
        BY <2>1 DEF ExclusiveInv, ClaimedIsHeld, Claimable
      <3>2. ASSUME NEW u \in Workers, NEW v \in Workers, u # v
            PROVE  Held(u)' \cap Held(v)' = {}
        BY <1>3, <1>4, <3>1, <3>2 DEF ExclusiveInv, HeldByOne
      <3>3. QED
        BY <3>2 DEF HeldByOne
    <2>2. CASE \A u, v \in team : u = v
      <3>1. w \in team
        BY DEF Claim, ExclusiveInv, OnlyTeamRuns
      <3>2. \A v \in Workers \ {w} : batch[v] = {}
        BY <2>2, <3>1 DEF ExclusiveInv, OnlyTeamRuns, ClaimsEmptyHanded
      <3>3. \A v \in Workers \ {w} : Held(v)' = {}
        BY <1>4, <3>2 DEF Held, IdsOf
      <3>4. QED
        BY <3>3 DEF HeldByOne
    <2>3. QED
      BY <2>1, <2>2 DEF Exclusive
  <1>6. CopiesAreCurrent'
    BY <1>2 DEF ExclusiveInv, CopiesAreCurrent, CopyOf, Claimable, IsDue
  <1>7. CopiesAreDistinct'
    BY <1>2 DEF ExclusiveInv, CopiesAreDistinct, CopyOf
  <1>8. ASSUME driver = "memory"
        PROVE  claimed' = UNION {Held(v)' : v \in Workers}
    <2>1. claimed = UNION {Held(v) : v \in Workers} /\ claimed' = claimed \union B
      BY <1>1, <1>8 DEF ExclusiveInv, ClaimedIsHeld
    <2>2. ASSUME NEW m
          PROVE  m \in claimed' <=> \E v \in Workers : m \in Held(v)'
      BY <1>3, <1>4, <2>1
    <2>3. QED
      BY <2>2
  <1>9. ClaimsEmptyHanded'
    BY <1>1, <1>2 DEF ClaimsEmptyHanded, ExclusiveInv, TypeOK
  <1>10. OnlyTeamRuns'
    BY <1>1 DEF Claim, OnlyTeamRuns, ExclusiveInv, TypeOK
  <1>11. QED
    BY <1>5, <1>6, <1>7, <1>8, <1>9, <1>10 DEF ExclusiveInv, ClaimedIsHeld

LEMMA ExclusiveStep ==
  ASSUME Exclusive, TypeOK, AccountInv, ExclusiveInv, [Next]_vars
  PROVE  ExclusiveInv'
  <1> USE SiteIsFixed
  <1>1. ASSUME NEW m \in Messages, Enqueue(m) PROVE ExclusiveInv'
    BY <1>1 DEF Enqueue, OnlyTeamRuns, worker, TypeOK, Copies, ExclusiveInv, ClaimsEmptyHanded,
       HeldByOne, CopiesAreCurrent, CopiesAreDistinct, ClaimedIsHeld, Held
  <1>2. ASSUME UNCHANGED <<store, batch>>, ClaimsEmptyHanded', OnlyTeamRuns'
        PROVE  ExclusiveInv'
    BY <1>2 DEF store, ExclusiveInv, HeldByOne, CopiesAreCurrent,
       CopiesAreDistinct, ClaimedIsHeld, Held
  <1>3. CASE Tick \/ UNCHANGED vars
    BY <1>2, <1>3 DEF Tick, vars, worker, ExclusiveInv, ClaimsEmptyHanded,
       OnlyTeamRuns
  <1>4. ASSUME NEW w \in Workers, Dispatch(w) PROVE ExclusiveInv'
    <2>1. CASE Poll(w) \/ Stop(w) \/ ClaimFails(w) \/ Publish(w)
      BY <1>2, <2>1 DEF Poll, Stop, ClaimFails, Publish, TypeOK, ExclusiveInv,
         ClaimsEmptyHanded, OnlyTeamRuns
    <2>2. CASE Claim(w)
      BY <2>2, ClaimKeepsExclusive
    <2>3. CASE RecordDone(w) \/ RecordFailed(w)
      <3>1. PICK c \in current[w] : (MarkDone(c) \/ MarkFailed(c)) /\ Resolved(w, c)
        BY <2>3 DEF RecordDone, RecordFailed
      <3>2. w \in team
        BY <2>3 DEF RecordDone, RecordFailed, ExclusiveInv, OnlyTeamRuns
      <3>3. QED
        BY <3>1, <3>2, RecordKeepsExclusive
    <2>4. CASE RecordFails(w)
      <3>1. PICK c \in current[w] :
               /\ UNCHANGED store \/ MarkDone(c) \/ MarkFailed(c)
               /\ Resolved(w, c) /\ driver # "memory"
        BY <2>4 DEF RecordFails
      <3>2. w \in team
        BY <2>4 DEF RecordFails, ExclusiveInv, OnlyTeamRuns
      <3>3. QED
        BY <3>1, <3>2, RecordKeepsExclusive
    <2>5. QED
      BY <1>4, <2>1, <2>2, <2>3, <2>4 DEF Dispatch
  <1>5. ASSUME NEW w \in Workers, Environment(w) \/ Restart(w) PROVE ExclusiveInv'
    <2>1. CASE Cancel(w) \/ Restart(w)
      BY <1>2, <2>1 DEF Cancel, Restart, TypeOK, ExclusiveInv, ClaimsEmptyHanded,
         OnlyTeamRuns
    <2>2. CASE Crash(w)
      <3>1. batch' = [batch EXCEPT ![w] = {}] /\ UNCHANGED store /\ driver # "memory"
        BY <2>2 DEF Crash
      <3>2. \A v \in Workers : batch'[v] \subseteq batch[v]
        BY <3>1 DEF TypeOK
      <3>3. ClaimsEmptyHanded' /\ OnlyTeamRuns'
        BY <2>2, <3>1 DEF Crash, TypeOK, ExclusiveInv, ClaimsEmptyHanded, OnlyTeamRuns
      <3>4. HeldByOne' /\ CopiesAreDistinct'
        BY <3>2 DEF ExclusiveInv, HeldByOne, CopiesAreDistinct, Held, IdsOf
      <3>5. CopiesAreCurrent'
        BY <3>1, <3>2 DEF store, ExclusiveInv, CopiesAreCurrent
      <3>6. QED
        BY <3>1, <3>3, <3>4, <3>5 DEF ExclusiveInv, ClaimedIsHeld
    <2>3. QED
      BY <1>5, <2>1, <2>2 DEF Environment
  <1>6. QED
    BY <1>1, <1>3, <1>4, <1>5 DEF Next

LEMMA ExclusiveInvariant == Spec => [](Exclusive => ExclusiveInv)
  <1>1. Init => ExclusiveInv
    BY DEF Init, ExclusiveInv, OnlyTeamRuns, ClaimsEmptyHanded, HeldByOne,
       CopiesAreCurrent, CopiesAreDistinct, ClaimedIsHeld, Held, IdsOf
  <1>2. ASSUME TypeOK, AccountInv, Exclusive => ExclusiveInv, [Next]_vars
        PROVE  (Exclusive => ExclusiveInv)'
    BY <1>2, ExclusiveStep, SiteIsFixed
  <1>3. QED
    BY <1>1, <1>2, TypeCorrect, AccountInvariant, PTL DEF Spec

\* The Claim contract: with the memory driver, or a single dispatcher on
\* postgres, no message is ever in two hands, and a copy in hand is what the
\* store says.
THEOREM ClaimIsExclusive == Spec => []ClaimsHold
  <1>1. (Exclusive => ExclusiveInv) => ClaimsHold
    BY DEF ExclusiveInv, ClaimsHold
  <1>2. QED
    BY <1>1, ExclusiveInvariant, PTL

\* The memory driver strands no claim: what is claimed is being worked on.
THEOREM NoStrandedClaim == Spec => []ClaimedIsHeld
  <1>1. (Exclusive => ExclusiveInv) => ClaimedIsHeld
    BY DEF ExclusiveInv, Exclusive, ClaimedIsHeld
  <1>2. QED
    BY <1>1, ExclusiveInvariant, PTL

-----------------------------------------------------------------------------
(* Where claims are exclusive, a publication too many is owed to a fault   *)
(* or a stop.  The count is kept per message, while it is pending: every   *)
(* publication is an attempt on its row, one under way, or one of those;   *)
(* a dispatcher that was cancelled holds back one for each copy it has.    *)

Publications(m) == handled[m] + failures[m]

Troubles == faults + stops

UnderWay(m) ==
  IF \E w \in Workers : \E c \in current[w] : c.id = m THEN 1 ELSE 0

Interrupted(m) ==
  IF \E w \in Workers : cancelled[w] /\ m \in Held(w) THEN 1 ELSE 0

Owed(m) ==
  /\ status[m] = "absent" => attempts[m] = 0 /\ Publications(m) = 0
  /\ status[m] = "pending" =>
       /\ attempts[m] < MaxAttempts
       /\ Publications(m) + Interrupted(m)
            <= attempts[m] + Troubles + UnderWay(m)
  /\ status[m] \in {"done", "failed"} =>
       Publications(m) <= MaxAttempts + Troubles

OwedInv ==
  /\ \A m \in Messages : Owed(m)
  /\ \A w \in Workers : \A c, d \in current[w] : c = d

LEMMA Counts ==
  ASSUME TypeOK, NEW m \in Messages
  PROVE  /\ UnderWay(m) \in 0..1 /\ Interrupted(m) \in 0..1
         /\ Publications(m) \in Nat /\ attempts[m] \in Nat
         /\ Troubles \in Nat /\ MaxAttempts \in Nat
         /\ status[m] \in Statuses
  BY PolicyAssumption DEF TypeOK, UnderWay, Interrupted, Publications, Troubles

\* Nothing is published of m and its row does not change: what is under way or
\* held back only becomes a fault or a stop.
LEMMA OwedKept ==
  ASSUME TypeOK, TypeOK', NEW m \in Messages, Owed(m),
         /\ status'[m] = status[m] /\ attempts'[m] = attempts[m]
         /\ handled'[m] = handled[m] /\ failures'[m] = failures[m],
         Troubles <= Troubles',
         Interrupted(m)' + UnderWay(m) + Troubles
           <= Interrupted(m) + UnderWay(m)' + Troubles'
  PROVE  Owed(m)'
  <1>1. Publications(m)' = Publications(m)
    BY DEF Publications
  <1>2. /\ UnderWay(m) \in 0..1 /\ Interrupted(m) \in 0..1
        /\ Publications(m) \in Nat /\ attempts[m] \in Nat
        /\ Troubles \in Nat /\ MaxAttempts \in Nat
    BY Counts
  <1>3. PICK u \in 0..1, i \in 0..1, t \in Nat :
          UnderWay(m)' = u /\ Interrupted(m)' = i /\ Troubles' = t
    <2>1. UnderWay(m)' \in 0..1 /\ Interrupted(m)' \in 0..1
      BY DEF UnderWay, Interrupted
    <2>2. faults' \in Nat /\ stops' \in Nat
      BY DEF TypeOK
    <2>3. \A a, b \in Nat : a + b \in Nat
      OBVIOUS
    <2>4. Troubles' \in Nat
      BY <2>2, <2>3 DEF Troubles
    <2>5. QED
      BY <2>1, <2>4
  <1>4. i + UnderWay(m) + Troubles <= Interrupted(m) + u + t /\ Troubles <= t
    BY <1>3
  <1>5. CASE status[m] = "pending"
    <2>1. Publications(m) + i <= attempts[m] + t + u
      BY <1>2, <1>4, <1>5 DEF Owed
    <2>2. QED
      BY <1>1, <1>3, <1>5, <2>1 DEF Owed
  <1>6. CASE status[m] \in {"done", "failed"}
    <2>1. Publications(m) <= MaxAttempts + t
      BY <1>2, <1>4, <1>6 DEF Owed
    <2>2. QED
      BY <1>1, <1>3, <1>6, <2>1 DEF Owed
  <1>7. CASE status[m] = "absent"
    BY <1>1, <1>7 DEF Owed
  <1>8. QED
    BY <1>5, <1>6, <1>7, Counts DEF Statuses

\* The row of m is given its verdict, or one more attempt.
LEMMA OwedRecorded ==
  ASSUME TypeOK, TypeOK', NEW m \in Messages, Owed(m), status[m] = "pending",
         UNCHANGED history, Troubles <= Troubles', Interrupted(m)' = 0,
         \/ status'[m] = "done"
         \/ /\ attempts'[m] = attempts[m] + 1
            /\ status'[m] \in {"pending", "failed"}
            /\ status'[m] = "failed" <=> attempts[m] + 1 >= MaxAttempts
  PROVE  Owed(m)'
  <1>1. Publications(m)' = Publications(m)
    BY DEF Publications, history
  <1>2. /\ UnderWay(m) \in 0..1 /\ Interrupted(m) \in 0..1
        /\ Publications(m) \in Nat /\ attempts[m] \in Nat
        /\ Troubles \in Nat /\ MaxAttempts \in Nat
    BY Counts
  <1>3. PICK u \in 0..1, t \in Nat : UnderWay(m)' = u /\ Troubles' = t
    <2>1. UnderWay(m)' \in 0..1
      BY DEF UnderWay
    <2>2. faults' \in Nat /\ stops' \in Nat
      BY DEF TypeOK
    <2>3. \A a, b \in Nat : a + b \in Nat
      OBVIOUS
    <2>4. Troubles' \in Nat
      BY <2>2, <2>3 DEF Troubles
    <2>5. QED
      BY <2>1, <2>4
  <1>4. Troubles <= t
    BY <1>3
  <1>5. /\ attempts[m] < MaxAttempts
        /\ Publications(m) <= attempts[m] + Troubles + 1
    BY <1>2 DEF Owed
  <1>6. /\ Publications(m) <= MaxAttempts + t
        /\ Publications(m) + 0 <= attempts[m] + 1 + t + u
    BY <1>2, <1>4, <1>5
  <1>7. CASE status'[m] \in {"done", "failed"}
    BY <1>1, <1>3, <1>6, <1>7 DEF Owed
  <1>8. CASE status'[m] = "pending"
    <2>1. attempts'[m] = attempts[m] + 1 /\ attempts[m] + 1 < MaxAttempts
      BY <1>2, <1>8
    <2>2. QED
      BY <1>1, <1>3, <1>6, <1>8, <2>1 DEF Owed
  <1>9. QED
    BY <1>7, <1>8

\* Copies in other hands, or of other messages, are not touched by Resolved.
LEMMA ResolvedCounts ==
  ASSUME TypeOK, AccountInv, ExclusiveInv, OwedInv,
         NEW w \in Workers, NEW c \in current[w], Resolved(w, c), NEW m \in Messages
  PROVE  /\ Interrupted(m)' <= Interrupted(m)
         /\ m # c.id => UnderWay(m)' = UnderWay(m)
         /\ m = c.id => Interrupted(m)' = 0
         /\ m = c.id /\ cancelled[w] => Interrupted(m) = 1
  <1>1. c \in batch[w] /\ current[w] = {c}
    BY DEF AccountInv, CopiesAreAccounted, OwedInv
  <1>2. /\ batch'[w] = batch[w] \ {c} /\ current'[w] = {} /\ cancelled' = cancelled
        /\ \A v \in Workers \ {w} : batch'[v] = batch[v] /\ current'[v] = current[v]
    BY ResolvedShrinks DEF Resolved
  <1>3. \A v \in Workers : m \in Held(v)' => m \in Held(v)
    BY <1>2 DEF Held, IdsOf
  <1>4. m # c.id => UnderWay(m)' = UnderWay(m)
    <2>1. \A v \in Workers : m # c.id =>
            ((\E d \in current'[v] : d.id = m) <=> (\E d \in current[v] : d.id = m))
      BY <1>1, <1>2
    <2>2. QED
      BY <2>1 DEF UnderWay
  <1>5. m = c.id => m \in Held(w) /\ \A v \in Workers : m \notin Held(v)'
    <2>1. m = c.id => m \in Held(w)
      BY <1>1 DEF Held, IdsOf
    <2>2. m = c.id => m \notin Held(w)'
      BY <1>1, <1>2 DEF ExclusiveInv, CopiesAreDistinct, Held, IdsOf
    <2>3. m = c.id => \A v \in Workers \ {w} : m \notin Held(v)
      BY <2>1 DEF ExclusiveInv, HeldByOne
    <2>4. QED
      BY <1>3, <2>1, <2>2, <2>3
  <1>6. Interrupted(m)' <= Interrupted(m)
    <2>1. (\E v \in Workers : cancelled'[v] /\ m \in Held(v)')
            => \E v \in Workers : cancelled[v] /\ m \in Held(v)
      BY <1>2, <1>3
    <2>2. QED
      BY <2>1 DEF Interrupted
  <1>7. m = c.id => Interrupted(m)' = 0
    BY <1>5 DEF Interrupted
  <1>8. m = c.id /\ cancelled[w] => Interrupted(m) = 1
    BY <1>5 DEF Interrupted
  <1>9. QED
    BY <1>4, <1>6, <1>7, <1>8

\* deliver and reschedule, the fate recorded or not.
LEMMA RecordKeepsOwed ==
  ASSUME TypeOK, TypeOK', AccountInv, ExclusiveInv, OwedInv,
         NEW w \in Workers, NEW c \in current[w], Resolved(w, c), UNCHANGED history,
         stops' = stops,
         \/ UNCHANGED store /\ cancelled[w] /\ UNCHANGED faults
         \/ UNCHANGED store /\ faults' = faults + 1
         \/ (MarkDone(c) \/ MarkFailed(c)) /\ faults' \in {faults, faults + 1}
  PROVE  OwedInv'
  <1>1. c \in batch[w] /\ c \in Copies /\ c.id \in Messages /\ c.attempts \in Nat
    BY DEF AccountInv, CopiesAreAccounted, TypeOK, Copies
  <1>2. status[c.id] = "pending" /\ attempts[c.id] = c.attempts
    BY <1>1 DEF ExclusiveInv, CopiesAreCurrent
  <1>3. \A v \in Workers : \A d, e \in current'[v] : d = e
    BY ResolvedShrinks DEF OwedInv
  <1>4. /\ Troubles \in Nat /\ Troubles' \in {Troubles, Troubles + 1}
        /\ faults' = faults + 1 => Troubles' = Troubles + 1
    <2>1. faults \in Nat /\ stops \in Nat /\ stops' = stops
      BY DEF TypeOK
    <2>2. CASE faults' = faults
      BY <2>1, <2>2 DEF Troubles
    <2>3. CASE faults' = faults + 1
      BY <2>1, <2>3 DEF Troubles
    <2>4. QED
      BY <2>2, <2>3
  <1>5. ASSUME NEW m \in Messages PROVE Owed(m)'
    <2>1. /\ Interrupted(m)' <= Interrupted(m)
          /\ m # c.id => UnderWay(m)' = UnderWay(m)
          /\ m = c.id => Interrupted(m)' = 0
          /\ m = c.id /\ cancelled[w] => Interrupted(m) = 1
      BY ResolvedCounts
    <2>2. PICK u \in 0..1, i \in 0..1, t \in Nat :
            UnderWay(m)' = u /\ Interrupted(m)' = i /\ Troubles' = t
      BY <1>4 DEF UnderWay, Interrupted
    <2>3. UnderWay(m) \in 0..1 /\ Interrupted(m) \in 0..1
      BY Counts
    <2>4. Owed(m) /\ handled'[m] = handled[m] /\ failures'[m] = failures[m]
      BY DEF OwedInv, history
    <2>5. Troubles <= t /\ (faults' = faults + 1 => t = Troubles + 1)
      BY <1>4, <2>2
    <2>6. CASE m # c.id
      <3>1. status'[m] = status[m] /\ attempts'[m] = attempts[m]
        BY <2>6 DEF store, MarkDone, MarkFailed, TypeOK
      <3>2. i <= Interrupted(m) /\ u = UnderWay(m)
        BY <2>1, <2>2, <2>6
      <3>3. i + UnderWay(m) + Troubles <= Interrupted(m) + u + t
        BY <1>4, <2>3, <2>5, <3>2
      <3>4. QED
        BY <2>2, <2>4, <2>5, <3>1, <3>3, OwedKept
    <2>7. CASE m = c.id /\ UNCHANGED store /\ (cancelled[w] \/ faults' = faults + 1)
      <3>1. status'[m] = status[m] /\ attempts'[m] = attempts[m]
        BY <2>7 DEF store
      <3>2. i = 0 /\ (Interrupted(m) = 1 \/ t = Troubles + 1)
        BY <2>1, <2>2, <2>5, <2>7
      <3>3. i + UnderWay(m) + Troubles <= Interrupted(m) + u + t
        BY <1>4, <2>3, <2>5, <3>2
      <3>4. QED
        BY <2>2, <2>4, <2>5, <3>1, <3>3, OwedKept
    <2>8. CASE (MarkDone(c) \/ MarkFailed(c)) /\ m = c.id
      <3>1. \/ status'[m] = "done"
            \/ /\ attempts'[m] = attempts[m] + 1
               /\ status'[m] \in {"pending", "failed"}
               /\ status'[m] = "failed" <=> attempts[m] + 1 >= MaxAttempts
        <4>1. CASE MarkDone(c)
          BY <1>1, <2>8, <4>1 DEF MarkDone, TypeOK
        <4>2. CASE MarkFailed(c)
          <5> DEFINE next == NextAttempt(c)
          <5>1. /\ next.attempts = c.attempts + 1
                /\ next.status \in {"pending", "failed"}
                /\ next.status = "failed" <=> c.attempts + 1 >= MaxAttempts
            BY <1>1, NextAttemptType
          <5>2. attempts'[m] = next.attempts /\ status'[m] = next.status
            BY <1>1, <2>8, <4>2 DEF MarkFailed, TypeOK
          <5> HIDE DEF next
          <5>3. QED
            BY <1>2, <2>8, <5>1, <5>2
        <4>3. QED
          BY <2>8, <4>1, <4>2
      <3>2. QED
        BY <1>2, <2>1, <2>2, <2>4, <2>5, <2>8, <3>1, OwedRecorded
    <2>9. QED
      BY <2>6, <2>7, <2>8
  <1>6. QED
    BY <1>3, <1>5 DEF OwedInv

\* A publication of c begins; nobody else holds its message.
LEMMA PublishKeepsOwed ==
  ASSUME TypeOK, AccountInv, ExclusiveInv, OwedInv, NEW w \in Workers, Publish(w)
  PROVE  OwedInv'
  <1>1. PICK c \in batch[w], r \in Results :
           /\ current' = [current EXCEPT ![w] = {c}]
           /\ IF r = "ok"
                THEN /\ handled' = [handled EXCEPT ![c.id] = @ + 1]
                     /\ UNCHANGED failures
                ELSE /\ failures' = [failures EXCEPT ![c.id] = @ + 1]
                     /\ UNCHANGED handled
    BY DEF Publish
  <1>2. /\ c.id \in Messages /\ status[c.id] = "pending" /\ current[w] = {}
        /\ UNCHANGED <<status, attempts, batch, cancelled, faults, stops>>
    BY DEF Publish, TypeOK, Copies, ExclusiveInv, CopiesAreCurrent, AccountInv,
       CopiesAreAccounted, store, budget
  <1>3. /\ current'[w] = {c}
        /\ \A v \in Workers \ {w} : current'[v] = current[v]
    BY <1>1 DEF TypeOK
  <1>4. \A v \in Workers : c.id \in Held(v) => v = w
    <2>1. c.id \in Held(w)
      BY DEF Held, IdsOf
    <2>2. QED
      BY <2>1 DEF ExclusiveInv, HeldByOne
  <1>5. UnderWay(c.id) = 0
    <2>1. \A v \in Workers : \A d \in current[v] : d.id \in Held(v)
      BY DEF AccountInv, CopiesAreAccounted, Held, IdsOf
    <2>2. \A v \in Workers : \A d \in current[v] : d.id # c.id
      BY <1>2, <1>4, <2>1
    <2>3. QED
      BY <2>2 DEF UnderWay
  <1>6. UnderWay(c.id)' = 1
    BY <1>3 DEF UnderWay
  <1>7. Publications(c.id)' = Publications(c.id) + 1
    BY <1>1, <1>2 DEF Publications, TypeOK
  <1>8. \A m \in Messages : Interrupted(m)' = Interrupted(m) /\ Troubles' = Troubles
    BY <1>2 DEF Interrupted, Held, Troubles
  <1>9. Owed(c.id)'
    <2>1. /\ attempts[c.id] < MaxAttempts
          /\ Publications(c.id) + Interrupted(c.id) <= attempts[c.id] + Troubles + 0
      BY <1>2, <1>5 DEF OwedInv, Owed
    <2>2. /\ Publications(c.id) \in Nat /\ Interrupted(c.id) \in 0..1
          /\ attempts[c.id] \in Nat /\ Troubles \in Nat
      BY <1>2, Counts
    <2>3. Publications(c.id) + 1 + Interrupted(c.id) <= attempts[c.id] + Troubles + 1
      BY <2>1, <2>2
    <2>4. QED
      BY <1>2, <1>6, <1>7, <1>8, <2>1, <2>3 DEF Owed
  <1>10. ASSUME NEW m \in Messages \ {c.id} PROVE Owed(m)'
    <2>1. Publications(m)' = Publications(m)
      BY <1>1, <1>2 DEF Publications, TypeOK
    <2>2. UnderWay(m)' = UnderWay(m)
      <3>1. \A v \in Workers :
              (\E d \in current'[v] : d.id = m) <=> (\E d \in current[v] : d.id = m)
        BY <1>2, <1>3
      <3>2. QED
        BY <3>1 DEF UnderWay
    <2>3. QED
      BY <1>2, <1>8, <2>1, <2>2 DEF OwedInv, Owed
  <1>11. \A v \in Workers : \A d, e \in current'[v] : d = e
    BY <1>3 DEF OwedInv
  <1>12. QED
    BY <1>9, <1>10, <1>11 DEF OwedInv

\* Nothing is published and no row written; current is kept or dropped.
LEMMA QuietKeepsOwed ==
  ASSUME TypeOK, TypeOK', OwedInv,
         UNCHANGED <<status, attempts, handled, failures>>,
         \A w \in Workers : current'[w] = current[w] \/ current'[w] = {},
         Troubles <= Troubles',
         \A m \in Messages :
           Interrupted(m)' + UnderWay(m) + Troubles
             <= Interrupted(m) + UnderWay(m)' + Troubles'
  PROVE  OwedInv'
  <1>1. \A m \in Messages : Owed(m)'
    BY OwedKept DEF OwedInv
  <1>2. \A w \in Workers : \A c, d \in current'[w] : c = d
    BY DEF OwedInv
  <1>3. QED
    BY <1>1, <1>2 DEF OwedInv

\* With the same publications under way, no fault or stop less, and no more
\* copies in the hands of whoever is cancelled.
LEMMA IdleKeepsOwed ==
  ASSUME TypeOK, TypeOK', OwedInv,
         UNCHANGED <<status, attempts, handled, failures, current, stops>>,
         faults' \in {faults, faults + 1},
         \A w \in Workers, m \in Messages :
           cancelled'[w] /\ m \in Held(w)' => cancelled[w] /\ m \in Held(w)
  PROVE  OwedInv'
  <1>1. Troubles \in Nat /\ Troubles' \in {Troubles, Troubles + 1}
    <2>1. faults \in Nat /\ stops \in Nat
      BY DEF TypeOK
    <2>2. CASE faults' = faults
      BY <2>1, <2>2 DEF Troubles
    <2>3. CASE faults' = faults + 1
      BY <2>1, <2>3 DEF Troubles
    <2>4. QED
      BY <2>2, <2>3
  <1>2. ASSUME NEW m \in Messages
        PROVE  Interrupted(m)' + UnderWay(m) + Troubles
                 <= Interrupted(m) + UnderWay(m)' + Troubles'
    <2>1. UnderWay(m)' = UnderWay(m)
      BY DEF UnderWay
    <2>2. PICK i \in 0..1, t \in Nat :
            Interrupted(m)' = i /\ Troubles' = t /\ i <= Interrupted(m) /\ Troubles <= t
      BY <1>1 DEF Interrupted
    <2>3. UnderWay(m) \in 0..1 /\ Interrupted(m) \in 0..1
      BY Counts
    <2>4. i + UnderWay(m) + Troubles <= Interrupted(m) + UnderWay(m) + t
      BY <1>1, <2>2, <2>3
    <2>5. QED
      BY <2>1, <2>2, <2>4
  <1>3. Troubles <= Troubles'
    BY <1>1
  <1>4. QED
    BY <1>2, <1>3, QuietKeepsOwed

\* A shutdown request or a crash pays for what it may leave unrecorded.
LEMMA StopKeepsOwed ==
  ASSUME TypeOK, TypeOK', OwedInv, NEW w \in Workers, Cancel(w) \/ Crash(w)
  PROVE  OwedInv'
  <1>1. /\ UNCHANGED <<status, attempts, handled, failures>>
        /\ stops' = stops + 1 /\ faults' = faults
        /\ \A v \in Workers : current'[v] = current[v] \/ current'[v] = {}
    BY DEF Cancel, Crash, store, history, TypeOK
  <1>2. Troubles \in Nat /\ Troubles' = Troubles + 1
    BY <1>1 DEF Troubles, TypeOK
  <1>3. ASSUME NEW m \in Messages
        PROVE  Interrupted(m)' + UnderWay(m) + Troubles
                 <= Interrupted(m) + UnderWay(m)' + Troubles'
    <2>1. UnderWay(m) \in 0..1 /\ Interrupted(m) \in 0..1
      BY Counts
    <2>2. PICK u \in 0..1, i \in 0..1 : UnderWay(m)' = u /\ Interrupted(m)' = i
      BY DEF UnderWay, Interrupted
    <2>3. u = UnderWay(m) \/ i <= Interrupted(m)
      <3>1. CASE Cancel(w)
        <4>1. UnderWay(m)' = UnderWay(m)
          BY <3>1 DEF Cancel, UnderWay
        <4>2. QED
          BY <2>2, <4>1
      <3>2. CASE Crash(w)
        <4>1. cancelled' = cancelled /\ batch' = [batch EXCEPT ![w] = {}]
          BY <3>2 DEF Crash
        <4>2. \A v \in Workers : batch'[v] \subseteq batch[v]
          BY <4>1 DEF TypeOK
        <4>3. (\E v \in Workers : cancelled'[v] /\ m \in Held(v)')
                => \E v \in Workers : cancelled[v] /\ m \in Held(v)
          BY <4>1, <4>2 DEF Held, IdsOf
        <4>4. Interrupted(m)' <= Interrupted(m)
          BY <4>3 DEF Interrupted
        <4>5. QED
          BY <2>2, <4>4
      <3>3. QED
        BY <3>1, <3>2
    <2>4. i + UnderWay(m) + Troubles <= Interrupted(m) + u + (Troubles + 1)
      BY <1>2, <2>1, <2>3
    <2>5. QED
      BY <1>2, <2>2, <2>4
  <1>4. Troubles <= Troubles'
    BY <1>2
  <1>5. QED
    BY <1>1, <1>3, <1>4, QuietKeepsOwed

LEMMA EnqueueKeepsOwed ==
  ASSUME TypeOK, TypeOK', ExclusiveInv, OwedInv, NEW m \in Messages, Enqueue(m)
  PROVE  OwedInv'
  <1>1. /\ UNCHANGED <<attempts, current, batch, cancelled, faults, stops>>
        /\ UNCHANGED <<handled, failures>>
        /\ status[m] = "absent" /\ status'[m] = "pending"
        /\ \A n \in Messages \ {m} : status'[n] = status[n]
    BY DEF Enqueue, worker, history, budget, TypeOK
  <1>2. \A n \in Messages : /\ Publications(n)' = Publications(n)
                            /\ UnderWay(n)' = UnderWay(n)
                            /\ Interrupted(n)' = Interrupted(n)
                            /\ Troubles' = Troubles
    BY <1>1 DEF Publications, UnderWay, Interrupted, Troubles, Held
  <1>3. Owed(m)'
    <2>1. attempts[m] = 0 /\ Publications(m) = 0
      BY <1>1 DEF OwedInv, Owed
    <2>2. Interrupted(m) = 0
      <3>1. \A v \in Workers : m \notin Held(v)
        BY <1>1 DEF ExclusiveInv, CopiesAreCurrent, Held, IdsOf
      <3>2. QED
        BY <3>1 DEF Interrupted
    <2>3. UnderWay(m) \in 0..1 /\ Troubles \in Nat /\ MaxAttempts > 0
      BY Counts, PolicyAssumption
    <2>4. attempts[m] < MaxAttempts
          /\ Publications(m) + Interrupted(m) <= attempts[m] + Troubles + UnderWay(m)
      BY <2>1, <2>2, <2>3
    <2>5. QED
      BY <1>1, <1>2, <2>4 DEF Owed
  <1>4. ASSUME NEW n \in Messages \ {m} PROVE Owed(n)'
    BY <1>1, <1>2 DEF OwedInv, Owed
  <1>5. QED
    BY <1>1, <1>3, <1>4 DEF OwedInv

LEMMA OwedStep ==
  ASSUME TypeOK, TypeOK', AccountInv, ExclusiveInv, OwedInv, [Next]_vars
  PROVE  OwedInv'
  <1>1. ASSUME NEW m \in Messages, Enqueue(m) PROVE OwedInv'
    BY <1>1, EnqueueKeepsOwed
  <1>2. CASE Tick \/ UNCHANGED vars
    BY <1>2, IdleKeepsOwed DEF Tick, vars, store, worker, history, budget, Held
  <1>3. ASSUME NEW w \in Workers, Dispatch(w) PROVE OwedInv'
    <2>1. CASE Poll(w) \/ Stop(w) \/ ClaimFails(w)
      <3>1. /\ UNCHANGED <<status, attempts, handled, failures, current, stops>>
            /\ UNCHANGED <<batch, cancelled>> /\ faults' \in {faults, faults + 1}
        BY <2>1 DEF Poll, Stop, ClaimFails, Fault, store, history, budget
      <3>2. QED
        BY <3>1, IdleKeepsOwed DEF Held
    <2>2. CASE Claim(w)
      <3>1. /\ UNCHANGED <<status, attempts, handled, failures, current, stops>>
            /\ UNCHANGED <<cancelled, faults>> /\ ~cancelled[w]
            /\ \A v \in Workers \ {w} : batch'[v] = batch[v]
        BY <2>2 DEF Claim, history, budget, TypeOK
      <3>2. \A v \in Workers \ {w} : Held(v)' = Held(v)
        BY <3>1 DEF Held
      <3>3. QED
        BY <3>1, <3>2, IdleKeepsOwed
    <2>3. CASE Publish(w)
      BY <2>3, PublishKeepsOwed
    <2>4. CASE RecordDone(w) \/ RecordFailed(w)
      <3>1. PICK c \in current[w] : (MarkDone(c) \/ MarkFailed(c)) /\ Resolved(w, c)
        BY <2>4 DEF RecordDone, RecordFailed
      <3>2. UNCHANGED history /\ stops' = stops /\ faults' = faults
        BY <2>4 DEF RecordDone, RecordFailed, budget
      <3>3. QED
        BY <3>1, <3>2, RecordKeepsOwed
    <2>5. CASE RecordFails(w)
      <3>1. PICK c \in current[w] :
               /\ Resolved(w, c)
               /\ \/ UNCHANGED store /\ cancelled[w] /\ UNCHANGED faults
                  \/ UNCHANGED store /\ faults' = faults + 1
                  \/ /\ MarkDone(c) \/ MarkFailed(c)
                     /\ faults' \in {faults, faults + 1}
        BY <2>5 DEF RecordFails, Fault
      <3>2. UNCHANGED history /\ stops' = stops
        BY <2>5 DEF RecordFails
      <3>3. QED
        BY <3>1, <3>2, RecordKeepsOwed
    <2>6. QED
      BY <1>3, <2>1, <2>2, <2>3, <2>4, <2>5 DEF Dispatch
  <1>4. ASSUME NEW w \in Workers, Environment(w) PROVE OwedInv'
    BY <1>4, StopKeepsOwed DEF Environment
  <1>5. ASSUME NEW w \in Workers, Restart(w) PROVE OwedInv'
    <2>1. /\ UNCHANGED <<status, attempts, handled, failures, current, stops>>
          /\ UNCHANGED <<batch, faults>>
          /\ \A v \in Workers : cancelled'[v] => cancelled[v]
      BY <1>5 DEF Restart, store, history, budget, TypeOK
    <2>2. QED
      BY <2>1, IdleKeepsOwed DEF Held
  <1>6. QED
    BY <1>1, <1>2, <1>3, <1>4, <1>5 DEF Next

LEMMA OwedInvariant == Spec => [](Exclusive => OwedInv)
  <1>1. Init => OwedInv
    <2> SUFFICES ASSUME Init PROVE OwedInv
      OBVIOUS
    <2>1. \A m \in Messages : Publications(m) = 0
      BY DEF Init, Publications
    <2>2. QED
      BY <2>1 DEF Init, OwedInv, Owed
  <1>2. ASSUME TypeOK, TypeOK', AccountInv, Exclusive => ExclusiveInv,
               Exclusive => OwedInv, [Next]_vars
        PROVE  (Exclusive => OwedInv)'
    BY <1>2, OwedStep, SiteIsFixed
  <1>3. QED
    BY <1>1, <1>2, TypeCorrect, AccountInvariant, ExclusiveInvariant, PTL DEF Spec

\* Of RetryPolicy and MarkDone: where claims are exclusive a message is
\* published at most MaxAttempts times, and once more for each fault of the
\* database, shutdown or crash, which leaves a fate unrecorded.
THEOREM NoIdlePublication == Spec => []ExtraPublicationsAreOwed
  <1>1. TypeOK /\ OwedInv =>
          \A m \in Messages : handled[m] + failures[m] <= MaxAttempts + faults + stops
    <2> SUFFICES ASSUME TypeOK, OwedInv, NEW m \in Messages
                 PROVE  handled[m] + failures[m] <= MaxAttempts + faults + stops
      OBVIOUS
    <2>1. /\ UnderWay(m) \in 0..1 /\ Interrupted(m) \in 0..1
          /\ Publications(m) \in Nat /\ attempts[m] \in Nat
          /\ Troubles \in Nat /\ MaxAttempts \in Nat
          /\ status[m] \in Statuses
      BY Counts
    <2>2. Publications(m) <= MaxAttempts + Troubles
      BY <2>1 DEF OwedInv, Owed, Statuses
    <2>3. faults \in Nat /\ stops \in Nat
      BY DEF TypeOK
    <2>4. QED
      BY <2>1, <2>2, <2>3 DEF Publications, Troubles
  <1>2. TypeOK /\ (Exclusive => OwedInv) => ExtraPublicationsAreOwed
    BY <1>1 DEF ExtraPublicationsAreOwed
  <1>3. QED
    BY <1>2, OwedInvariant, TypeCorrect, PTL

-----------------------------------------------------------------------------
(* Where claims are exclusive, the outbox implements OutboxContract.       *)

LEMMA ContractInit == Init => Contract!Init
  BY DEF Init, Contract!Init, Seen

\* Recording a fate is a verdict of the contract, or nothing it can see.
LEMMA RecordIsVerdict ==
  ASSUME Exclusive, Exclusive', TypeOK, AccountInv, ExclusiveInv,
         UNCHANGED history, NEW w \in Workers, NEW c \in current[w],
         \/ UNCHANGED store
         \/ result[w] = "ok" /\ MarkDone(c)
         \/ result[w] # "ok" /\ MarkFailed(c)
  PROVE  [Contract!Next]_<<status, handled, failures>>
  <1>1. c \in Copies /\ c \in batch[w] /\ c.id \in Messages /\ c.attempts \in Nat
    BY DEF TypeOK, AccountInv, CopiesAreAccounted, Copies
  <1>2. status[c.id] = "pending"
    BY <1>1 DEF ExclusiveInv, CopiesAreCurrent
  <1>3. CASE UNCHANGED store
    BY <1>3 DEF store, history
  <1>4. CASE result[w] = "ok" /\ MarkDone(c)
    <2>1. Contract!Settle(c.id)
      BY <1>1, <1>2, <1>4 DEF Contract!Settle, Seen, MarkDone, history, AccountInv,
         CopiesAreAccounted
    <2>2. QED
      BY <1>1, <2>1 DEF Contract!Next
  <1>5. CASE result[w] # "ok" /\ MarkFailed(c)
    <2> DEFINE next == NextAttempt(c)
    <2>1. /\ next.status \in {"pending", "failed"}
          /\ next.status = "failed" => c.attempts + 1 >= MaxAttempts
      BY <1>1, NextAttemptType
    <2>2. status' = [status EXCEPT ![c.id] = next.status]
      BY <1>5 DEF MarkFailed
    <2> HIDE DEF next
    <2>3. CASE next.status = "pending"
      <3>1. status' = status
        BY <1>2, <2>2, <2>3 DEF TypeOK
      <3>2. QED
        BY <3>1 DEF history
    <2>4. CASE next.status = "failed"
      <3>1. failures[c.id] >= MaxAttempts
        BY <1>1, <1>5, <2>1, <2>4, PolicyAssumption
        DEF AccountInv, CopiesAreAccounted, TypeOK
      <3>2. Contract!GiveUp(c.id)
        BY <1>2, <2>2, <2>4, <3>1 DEF Contract!GiveUp, Seen, history
      <3>3. QED
        BY <1>1, <3>2 DEF Contract!Next
    <2>5. QED
      BY <2>1, <2>3, <2>4
  <1>6. QED
    BY <1>3, <1>4, <1>5

LEMMA ContractStep ==
  ASSUME Exclusive, TypeOK, AccountInv, ExclusiveInv, [Next]_vars
  PROVE  [Contract!Next]_<<status, handled, failures>>
  <1> USE SiteIsFixed
  <1>1. ASSUME NEW m \in Messages, Enqueue(m) PROVE Contract!Next
    BY <1>1 DEF Enqueue, history, Contract!Next, Contract!Accept, Seen
  <1>2. CASE Tick \/ UNCHANGED vars
    BY <1>2 DEF Tick, vars, store, history
  <1>3. ASSUME NEW w \in Workers, Dispatch(w)
        PROVE  [Contract!Next]_<<status, handled, failures>>
    <2>1. CASE Poll(w) \/ Stop(w) \/ Claim(w) \/ ClaimFails(w)
      BY <2>1 DEF Poll, Stop, Claim, ClaimFails, store, history
    <2>2. CASE Publish(w)
      <3>1. PICK c \in batch[w] :
               \/ /\ handled' = [handled EXCEPT ![c.id] = @ + 1]
                  /\ UNCHANGED failures
               \/ /\ failures' = [failures EXCEPT ![c.id] = @ + 1]
                  /\ UNCHANGED handled
        BY <2>2 DEF Publish
      <3>2. c.id \in Messages /\ status[c.id] = "pending" /\ UNCHANGED status
        BY <2>2 DEF Publish, store, TypeOK, Copies, ExclusiveInv, CopiesAreCurrent
      <3>3. Contract!Succeed(c.id) \/ Contract!Miss(c.id)
        BY <3>1, <3>2 DEF Contract!Succeed, Contract!Miss, Seen
      <3>4. QED
        BY <3>2, <3>3 DEF Contract!Next
    <2>3. CASE RecordDone(w) \/ RecordFailed(w) \/ RecordFails(w)
      <3>1. PICK c \in current[w] :
               \/ UNCHANGED store
               \/ result[w] = "ok" /\ MarkDone(c)
               \/ result[w] # "ok" /\ MarkFailed(c)
        BY <2>3 DEF RecordDone, RecordFailed, RecordFails
      <3>2. UNCHANGED history
        BY <2>3 DEF RecordDone, RecordFailed, RecordFails
      <3>3. QED
        BY <3>1, <3>2, RecordIsVerdict
    <2>4. QED
      BY <1>3, <2>1, <2>2, <2>3 DEF Dispatch
  <1>4. ASSUME NEW w \in Workers, Environment(w) \/ Restart(w)
        PROVE  UNCHANGED <<status, handled, failures>>
    BY <1>4 DEF Environment, Cancel, Crash, Restart, store, history
  <1>5. QED
    BY <1>1, <1>2, <1>3, <1>4 DEF Next

\* Faults, stops, crashes and restarts included, the outbox does what its
\* contract says as long as claims are exclusive.
THEOREM Refinement == Spec => ImplementsContract
  <1>1. ASSUME TypeOK, AccountInv, Exclusive => ExclusiveInv, [Next]_vars
        PROVE  [Contract!Next]_(Contract!contract)
    <2>1. CASE Exclusive
      <3>1. [Contract!Next]_<<status, handled, failures>>
        BY <1>1, <2>1, ContractStep
      <3>2. QED
        BY <1>1, <2>1, <3>1, SiteIsFixed DEF Contract!contract, Seen
    <2>2. CASE ~Exclusive
      BY <1>1, <2>2, SiteIsFixed DEF Contract!contract, Seen
    <2>3. QED
      BY <2>1, <2>2
  <1>2. QED
    BY <1>1, ContractInit, TypeCorrect, AccountInvariant, ExclusiveInvariant, PTL
    DEF Spec, ImplementsContract, Contract!Spec
=============================================================================
