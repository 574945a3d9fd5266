------------------------- MODULE IdempotencyProofs -------------------------
(***************************************************************************)
(* What the three drivers guarantee when no operation outlives its         *)
(* reservation, for any calls, lifetime and number of failures.            *)
(***************************************************************************)
EXTENDS Idempotency, TLAPS

\* Every entry the actions build is well formed.
LEMMA EntryTypes ==
  /\ NoEntry \in Entries
  /\ \A c \in Callers : Reservation(c) \in Entries
  /\ \A c \in Callers, e \in Entries : Memorised(e, c) \in Entries
  <1>1. NoEntry \in Entries
    BY TTLAssumption DEF NoEntry, Entries, Fingerprints
  <1>2. \A c \in Callers : Reservation(c) \in Entries
    BY TTLAssumption DEF Reservation, Entries, Fingerprints, Fingerprint
  <1>3. ASSUME NEW c \in Callers, NEW e \in Entries
        PROVE  Memorised(e, c) \in Entries
    BY DEF Memorised, Entries
  <1>4. QED
    BY <1>1, <1>2, <1>3

LEMMA TypeStep == TypeOK /\ [Next]_vars => TypeOK'
  <1> SUFFICES ASSUME TypeOK, [Next]_vars PROVE TypeOK'
    OBVIOUS
  <1>1. ASSUME NEW c \in Callers, Call(c) \/ Vanish(c) PROVE TypeOK'
    <2>1. CASE ReserveWins(c)
      BY <2>1, EntryTypes, TTLAssumption DEF ReserveWins, Goto, Steps, TypeOK
    <2>2. CASE ReserveLoses(c) \/ Inspect(c)
      <3>1. entry.response \in SUBSET Callers
        BY DEF TypeOK, Entries
      <3>2. UNCHANGED <<site, entry, seen, troubles, lease>>
        BY <2>2 DEF ReserveLoses, Inspect
      <3>3. pc' \in [Callers -> Steps] /\ reply' \in [Callers -> SUBSET Callers]
        BY <2>2, <3>1 DEF ReserveLoses, Inspect, Settle, Goto, Steps, TypeOK
      <3>4. QED
        BY <3>2, <3>3 DEF TypeOK
    <2>3. CASE OperationSucceeds(c) \/ OperationFails(c)
      BY <2>3 DEF OperationSucceeds, OperationFails, Trouble, Goto, Steps, TypeOK
    <2>4. CASE Complete(c)
      BY <2>4, EntryTypes DEF Complete, Goto, Steps, TypeOK
    <2>5. CASE CompleteReads(c)
      BY <2>5 DEF CompleteReads, Goto, Steps, TypeOK
    <2>6. CASE CompleteWrites(c)
      <3>1. seen[c].fingerprint \in Fingerprints /\ Memorised(entry, c) \in Entries
        BY EntryTypes DEF TypeOK, Entries
      <3>2. [Memorised(entry, c) EXCEPT !.fingerprint = seen[c].fingerprint] \in Entries
        BY <3>1 DEF Entries
      <3>3. entry' \in Entries
        BY <2>6, <3>2 DEF CompleteWrites, TypeOK
      <3>4. QED
        BY <2>6, <3>3, EntryTypes DEF CompleteWrites, Goto, Steps, TypeOK
    <2>7. CASE Release(c) \/ ReleaseDeletes(c)
      BY <2>7, EntryTypes DEF Release, ReleaseDeletes, Goto, Steps, TypeOK
    <2>8. CASE ReleaseReads(c)
      BY <2>8 DEF ReleaseReads, Goto, Steps, TypeOK
    <2>9. CASE Vanish(c)
      BY <2>9, EntryTypes DEF Vanish, Trouble, Goto, Steps, TypeOK
    <2>10. QED
      BY <1>1, <2>1, <2>2, <2>3, <2>4, <2>5, <2>6, <2>7, <2>8, <2>9 DEF Call
  <1>2. CASE Purge
    BY <1>2, EntryTypes DEF Purge, TypeOK
  <1>3. CASE Tick
    <2>1. entry.left - 1 \in -1..TTL
      BY <1>3, TTLAssumption DEF Tick, TypeOK, Entries
    <2>2. [entry EXCEPT !.left = @ - 1] \in Entries
      BY <2>1 DEF TypeOK, Entries
    <2>3. entry' \in Entries
      BY <1>3, <2>2, EntryTypes DEF Tick
    <2>4. lease' \in [Callers -> 0..TTL]
      BY <1>3, TTLAssumption DEF Tick, TypeOK
    <2>5. QED
      BY <1>3, <2>3, <2>4 DEF Tick, TypeOK
  <1>4. CASE UNCHANGED vars
    BY <1>4 DEF vars, TypeOK
  <1>5. QED
    BY <1>1, <1>2, <1>3, <1>4 DEF Next

\* Every state is well typed, whatever the driver and however long operations
\* run.
THEOREM TypeCorrect == Spec => []TypeOK
  <1>1. Init => TypeOK
    BY EntryTypes, TTLAssumption DEF Init, TypeOK, Steps
  <1>2. QED
    BY <1>1, TypeStep, PTL DEF Spec

-----------------------------------------------------------------------------
(* The inductive invariant: the reservation belongs to the call that       *)
(* holds it, and is as old as the grant.                                   *)

HolderOwnsEntry ==
  \A c \in Holding :
    /\ entry.status = "in_flight"
    /\ entry.owner = {c}
    /\ entry.fingerprint = Fingerprint(c)
    /\ entry.left = lease[c]
    /\ lease[c] > 0
    /\ pc[c] = "set" => seen[c].fingerprint = Fingerprint(c)

MemorisedForRequest ==
  entry.status = "done" => \A r \in entry.response : Fingerprint(r) = entry.fingerprint

\* The response is memorised by the call that holds the reservation.
MemorisedByHolder == entry.status = "done" => entry.response = entry.owner

HolderInv ==
  /\ HolderOwnsEntry
  /\ MemorisedByHolder
  /\ MemorisedForRequest
  /\ ReplayMatchesRequest

\* A call that leaves Holding, or was never in it, owes the entry nothing:
\* the others are not holding while it is.
LEMMA HolderIsAlone ==
  ASSUME HolderOwnsEntry, NEW c \in Holding
  PROVE  Holding = {c}
  BY DEF HolderOwnsEntry

\* A step by which the only holder leaves leaves nobody holding.
LEMMA LastHolderLeaves ==
  ASSUME TypeOK, HolderOwnsEntry, NEW c \in Holding, NEW s, Goto(c, s),
         s \in {"start", "answered", "refused"}
  PROVE  Holding' = {}
  <1>1. pc' = [pc EXCEPT ![c] = s] /\ c \in Callers
    BY DEF Goto, Holding
  <1>2. \A d \in Callers \ {c} : d \notin Holding
    BY HolderIsAlone
  <1>3. QED
    BY <1>1, <1>2 DEF Holding, TypeOK

\* The deployment is settled once and for all.
LEMMA SiteIsFixed ==
  ASSUME [Next]_vars
  PROVE  /\ site' = site /\ driver' = driver
         /\ Punctual' <=> Punctual
  <1>1. site' = site
    BY DEF vars, Next, Call, ReserveWins, ReserveLoses, Inspect,
       OperationSucceeds, OperationFails, Complete, CompleteReads,
       CompleteWrites, Release, ReleaseReads, ReleaseDeletes, Vanish, Purge, Tick
  <1>2. QED
    BY <1>1 DEF driver, Punctual

LEMMA HolderStep ==
  ASSUME Punctual, TypeOK, HolderInv, [Next]_vars
  PROVE  HolderInv'
  <1> USE SiteIsFixed DEF HolderInv
  <1>1. ASSUME NEW c \in Callers, Call(c) \/ Vanish(c) PROVE HolderInv'
    <2>1. CASE ReserveWins(c)
      <3>1. Holding = {}
        BY <2>1 DEF ReserveWins, IsFree, Expired, HolderOwnsEntry, TypeOK, Entries
      <3>2. Holding' = {c}
        BY <2>1, <3>1 DEF ReserveWins, Goto, Holding, TypeOK
      <3>3. HolderOwnsEntry'
        BY <2>1, <3>2, TTLAssumption
        DEF ReserveWins, Goto, HolderOwnsEntry, Reservation, TypeOK, Fingerprint
      <3>4. QED
        BY <2>1, <3>3 DEF ReserveWins, Reservation, MemorisedByHolder,
           MemorisedForRequest, ReplayMatchesRequest, Fingerprint
    <2>2. CASE ReserveLoses(c) \/ Inspect(c)
      <3>1. UNCHANGED <<entry, seen, troubles, lease>>
        BY <2>2 DEF ReserveLoses, Inspect
      <3>2. c \notin Holding
        BY <2>2 DEF ReserveLoses, Inspect, Holding
      <3>3. PICK s \in {"start", "inspect", "answered", "refused"} : Goto(c, s)
        BY <2>2 DEF ReserveLoses, Inspect, Settle
      <3>4. Holding' = Holding /\ \A d \in Holding : pc'[d] = pc[d]
        BY <3>2, <3>3 DEF Goto, Holding, TypeOK
      <3>5. \/ UNCHANGED reply
            \/ /\ entry.status = "done" /\ entry.fingerprint = Fingerprint(c)
               /\ reply' = [reply EXCEPT ![c] = entry.response]
        BY <2>2 DEF ReserveLoses, Inspect, Settle
      <3>6. ReplayMatchesRequest'
        BY <3>5 DEF MemorisedForRequest, ReplayMatchesRequest, Fingerprint, TypeOK
      <3>7. HolderOwnsEntry'
        BY <3>1, <3>4 DEF HolderOwnsEntry, Fingerprint
      <3>8. QED
        BY <3>1, <3>6, <3>7 DEF MemorisedByHolder, MemorisedForRequest, Fingerprint
    <2>3. CASE OperationSucceeds(c) \/ OperationFails(c) \/ ReleaseReads(c)
      <3>1. UNCHANGED <<entry, seen, lease, reply>> /\ c \in Holding
        BY <2>3 DEF OperationSucceeds, OperationFails, ReleaseReads, Holding
      <3>2. PICK s \in {"complete", "release", "del", "start"} : Goto(c, s)
        BY <2>3 DEF OperationSucceeds, OperationFails, ReleaseReads
      <3>3. Holding' \subseteq Holding /\ \A d \in Holding' : pc'[d] = "set" => pc[d] = "set"
        BY <3>1, <3>2 DEF Goto, Holding, TypeOK
      <3>4. HolderOwnsEntry'
        BY <3>1, <3>3 DEF HolderOwnsEntry, Fingerprint
      <3>5. QED
        BY <3>1, <3>4 DEF MemorisedByHolder, MemorisedForRequest,
           ReplayMatchesRequest, Fingerprint
    <2>4. CASE Complete(c)
      <3>1. c \in Holding /\ Goto(c, "answered") /\ UNCHANGED reply
        BY <2>4 DEF Complete, Holding
      <3>2. Holding' = {}
        BY <3>1, LastHolderLeaves
      <3>3. entry.status = "in_flight" /\ entry.owner = {c} /\ entry.fingerprint = Fingerprint(c)
        BY <3>1 DEF HolderOwnsEntry
      <3>4. entry' = Memorised(entry, c) \/ entry' = entry
        BY <2>4 DEF Complete
      <3>5. MemorisedByHolder' /\ MemorisedForRequest'
        <4>1. CASE entry' = entry
          BY <4>1 DEF MemorisedByHolder, MemorisedForRequest, Fingerprint
        <4>2. CASE entry' = Memorised(entry, c)
          <5>1. /\ entry'.owner = {c} /\ entry'.response = {c}
                /\ entry'.fingerprint = Fingerprint(c)
            BY <3>3, <4>2 DEF Memorised, TypeOK, Entries
          <5>2. Fingerprint(c)' = Fingerprint(c)
            BY DEF Fingerprint
          <5> QED
            BY <5>1, <5>2 DEF MemorisedByHolder, MemorisedForRequest, Fingerprint
        <4> QED
          BY <3>4, <4>1, <4>2
      <3>6. HolderOwnsEntry'
        BY <3>2 DEF HolderOwnsEntry
      <3>7. ReplayMatchesRequest'
        BY <3>1 DEF ReplayMatchesRequest, Fingerprint
      <3>8. QED
        BY <3>5, <3>6, <3>7
    <2>5. CASE CompleteReads(c)
      <3>1. c \in Holding /\ UNCHANGED <<entry, lease, reply>>
        BY <2>5 DEF CompleteReads, Holding
      <3>2. Holding = {c} /\ entry.status = "in_flight" /\ entry.fingerprint = Fingerprint(c)
        BY <3>1, HolderIsAlone DEF HolderOwnsEntry
      <3>3. seen' = [seen EXCEPT ![c] = entry] /\ Goto(c, "set")
        BY <2>5, <3>2 DEF CompleteReads
      <3>4. Holding' = {c} /\ seen'[c].fingerprint = Fingerprint(c)
        BY <3>2, <3>3 DEF Goto, Holding, TypeOK
      <3>5. HolderOwnsEntry'
        BY <3>1, <3>2, <3>4 DEF HolderOwnsEntry, Fingerprint
      <3>6. QED
        BY <3>1, <3>5 DEF MemorisedByHolder, MemorisedForRequest,
           ReplayMatchesRequest, Fingerprint
    <2>6. CASE CompleteWrites(c)
      <3>1. c \in Holding /\ Goto(c, "answered") /\ UNCHANGED reply
        BY <2>6 DEF CompleteWrites, Holding
      <3>2. Holding' = {}
        BY <3>1, LastHolderLeaves
      <3>3. entry.status = "in_flight" /\ entry.owner = {c}
            /\ seen[c].fingerprint = Fingerprint(c)
        BY <2>6, <3>1 DEF HolderOwnsEntry, CompleteWrites
      <3>4. entry' = [Memorised(entry, c) EXCEPT !.fingerprint = seen[c].fingerprint]
        BY <2>6, <3>3 DEF CompleteWrites
      <3>5. MemorisedByHolder' /\ MemorisedForRequest'
        BY <3>3, <3>4 DEF Memorised, MemorisedByHolder, MemorisedForRequest,
           Fingerprint, TypeOK, Entries
      <3>6. QED
        BY <3>1, <3>2, <3>5 DEF HolderOwnsEntry, ReplayMatchesRequest, Fingerprint
    <2>7. CASE Release(c) \/ ReleaseDeletes(c)
      <3>1. c \in Holding /\ Goto(c, "start") /\ UNCHANGED reply
        BY <2>7 DEF Release, ReleaseDeletes, Holding
      <3>2. Holding' = {}
        BY <3>1, LastHolderLeaves
      <3>3. entry' = NoEntry
        BY <2>7, <3>1 DEF Release, ReleaseDeletes, HolderOwnsEntry
      <3>4. QED
        BY <3>1, <3>2, <3>3 DEF NoEntry, HolderOwnsEntry, MemorisedByHolder,
           MemorisedForRequest, ReplayMatchesRequest, Fingerprint
    <2>8. CASE Vanish(c)
      <3>1. c \in Holding /\ Goto(c, "start") /\ UNCHANGED <<entry, reply>>
        BY <2>8 DEF Vanish
      <3>2. Holding' = {}
        BY <3>1, LastHolderLeaves
      <3>3. QED
        BY <3>1, <3>2 DEF HolderOwnsEntry, MemorisedByHolder,
           MemorisedForRequest, ReplayMatchesRequest, Fingerprint
    <2>9. QED
      BY <1>1, <2>1, <2>2, <2>3, <2>4, <2>5, <2>6, <2>7, <2>8 DEF Call
  <1>2. CASE Purge
    <2>1. Holding = {}
      BY <1>2 DEF Purge, IsFree, Expired, HolderOwnsEntry, TypeOK, Entries
    <2>2. Holding' = {} /\ entry' = NoEntry /\ UNCHANGED reply
      BY <1>2, <2>1 DEF Purge, Holding
    <2>3. QED
      BY <2>2 DEF NoEntry, HolderOwnsEntry, MemorisedByHolder,
         MemorisedForRequest, ReplayMatchesRequest, Fingerprint
  <1>3. CASE Tick
    <2>1. Holding' = Holding /\ UNCHANGED <<pc, seen, reply>>
      BY <1>3 DEF Tick, Holding
    <2>2. entry' = NoEntry \/ entry' = [entry EXCEPT !.left = @ - 1]
      BY <1>3 DEF Tick
    <2>3. MemorisedByHolder' /\ MemorisedForRequest' /\ ReplayMatchesRequest'
      BY <2>1, <2>2 DEF NoEntry, MemorisedByHolder, MemorisedForRequest,
         ReplayMatchesRequest, Fingerprint, TypeOK, Entries
    <2>4. ASSUME NEW c \in Holding
          PROVE  /\ entry' = [entry EXCEPT !.left = @ - 1]
                 /\ lease'[c] = lease[c] - 1 /\ lease[c] > 1
                 /\ entry.left \in Int /\ lease[c] \in Int
      <3>1. lease[c] > 1 /\ entry.left = lease[c] /\ c \in Callers
        BY <1>3 DEF Tick, Punctual, HolderOwnsEntry, Holding
      <3>2. lease[c] \in Int /\ entry.left \in Int
        BY <3>1 DEF TypeOK, Entries
      <3>3. QED
        BY <1>3, <3>1, <3>2 DEF Tick
    <2>5. HolderOwnsEntry'
      BY <2>1, <2>4 DEF HolderOwnsEntry, Fingerprint, TypeOK, Entries
    <2>6. QED
      BY <2>3, <2>5
  <1>4. CASE UNCHANGED vars
    BY <1>4 DEF vars, Holding, HolderOwnsEntry, MemorisedByHolder,
       MemorisedForRequest, ReplayMatchesRequest, Fingerprint
  <1>5. QED
    BY <1>1, <1>2, <1>3, <1>4 DEF Next

LEMMA HolderInvariant == Spec => [](Punctual => HolderInv)
  <1>1. Init => HolderInv
    BY DEF Init, NoEntry, Holding, HolderInv, HolderOwnsEntry, MemorisedByHolder,
       MemorisedForRequest, ReplayMatchesRequest
  <1>2. ASSUME TypeOK, Punctual => HolderInv, [Next]_vars
        PROVE  (Punctual => HolderInv)'
    BY <1>2, HolderStep, SiteIsFixed
  <1>3. QED
    BY <1>1, <1>2, TypeCorrect, PTL DEF Spec

\* The module's only promise, on the three drivers: two calls never hold the
\* key together, provided no operation outlives its reservation.
THEOREM Exclusivity == Spec => []OneLiveHolder
  <1>1. (Punctual => HolderInv) => OneLiveHolder
    BY DEF HolderInv, HolderOwnsEntry, OneLiveHolder
  <1>2. QED
    BY <1>1, HolderInvariant, PTL

\* Under the same proviso an operation whose response is memorised is not run
\* again while the response lives.
THEOREM NotRunTwice == Spec => []NobodyRunsOnceMemorised
  <1>1. (Punctual => HolderInv) => NobodyRunsOnceMemorised
    BY DEF HolderInv, HolderOwnsEntry, NobodyRunsOnceMemorised
  <1>2. QED
    BY <1>1, HolderInvariant, PTL

\* And a replay never hands a request the response of another one.
THEOREM ReplaysAreGenuine == Spec => []ReplayMatchesRequest
  <1>1. (Punctual => HolderInv) => ReplayMatchesRequest
    BY DEF HolderInv, ReplayMatchesRequest
  <1>2. QED
    BY <1>1, HolderInvariant, PTL

-----------------------------------------------------------------------------
(* The three drivers implement IdempotencyContract.                        *)

\* The driver's key as the contract sees it.
Holder ==
  IF Punctual /\ entry.status = "in_flight" /\ ~Expired THEN entry.owner ELSE {}

Memo ==
  IF Punctual /\ entry.status = "done" /\ ~Expired THEN entry.response ELSE {}

LEMMA KeyIs ==
  /\ Key!Init <=> Holder = {} /\ Memo = {}
  /\ Key!Expire <=> Holder' = {} /\ Memo' = {}
  /\ \A c : Key!Grant(c) <=> Holder = {} /\ Memo = {} /\ Holder' = {c} /\ Memo' = Memo
  /\ \A c : Key!Memorise(c) <=> Holder = {c} /\ Holder' = {} /\ Memo' = {c}
  /\ \A c : Key!GiveBack(c) <=> Holder = {c} /\ Holder' = {} /\ Memo' = Memo
  /\ UNCHANGED Key!key <=> Holder' = Holder /\ Memo' = Memo
  BY DEF Key!Init, Key!Expire, Key!Grant, Key!Memorise, Key!GiveBack, Key!key,
         Holder, Memo

\* A call that holds the key holds it in the contract too.
LEMMA HolderIsHolder ==
  ASSUME Punctual, TypeOK, HolderInv, NEW c \in Holding
  PROVE  Holder = {c} /\ Memo = {} /\ entry.left > 0 /\ entry.status = "in_flight"
         /\ entry.owner = {c} /\ ~Expired
  <1>1. c \in Callers
    BY DEF Holding
  <1>2. entry.status = "in_flight" /\ entry.owner = {c} /\ entry.left > 0
    BY DEF HolderInv, HolderOwnsEntry
  <1>3. ~Expired
    BY <1>2, <1>1 DEF Expired, TypeOK, Entries
  <1>4. QED
    BY <1>2, <1>3 DEF Holder, Memo

LEMMA KeyStep ==
  ASSUME Punctual, TypeOK, HolderInv, [Next]_vars
  PROVE  [Key!Next]_Key!key
  <1> USE SiteIsFixed
  <1>n. /\ Key!Expire => Key!Next
        /\ \A c \in Callers : Key!Grant(c) \/ Key!Memorise(c) \/ Key!GiveBack(c) => Key!Next
    BY DEF Key!Next
  <1>s. UNCHANGED entry => UNCHANGED Key!key
    BY KeyIs DEF Holder, Memo, Expired
  <1>e. entry' = NoEntry => Holder' = {} /\ Memo' = {}
    BY DEF NoEntry, Holder, Memo
  <1>1. ASSUME NEW c \in Callers, Call(c) \/ Vanish(c) PROVE [Key!Next]_Key!key
    <2>1. CASE ReserveWins(c)
      <3>1. Holder = {} /\ Memo = {}
        BY <2>1 DEF ReserveWins, IsFree, Holder, Memo
      <3>2. entry' = Reservation(c) /\ TTL > 0
        BY <2>1, TTLAssumption DEF ReserveWins
      <3>3. Holder' = {c} /\ Memo' = {}
        BY <3>2, TTLAssumption DEF Reservation, Holder, Memo, Expired
      <3>4. QED
        BY <3>1, <3>3, <1>n, KeyIs
    <2>2. CASE Complete(c)
      <3>1. c \in Holding /\ entry'.left = entry.left
        BY <2>2 DEF Complete, Holding, Memorised, TypeOK, Entries
      <3>2. Holder = {c} /\ ~Expired /\ entry.left > 0 /\ entry.status = "in_flight"
        BY <3>1, HolderIsHolder
      <3>3. entry' = Memorised(entry, c)
        BY <2>2, <3>2 DEF Complete
      <3>4. entry'.status = "done" /\ entry'.response = {c} /\ ~Expired'
        BY <3>1, <3>2, <3>3 DEF Memorised, TypeOK, Entries, Expired
      <3>5. QED
        BY <3>2, <3>4, <1>n, KeyIs DEF Holder, Memo
    <2>3. CASE CompleteWrites(c)
      <3>1. c \in Holding
        BY <2>3 DEF CompleteWrites, Holding
      <3>2. Holder = {c} /\ ~Expired /\ entry.status = "in_flight"
        BY <3>1, HolderIsHolder
      <3>3. entry' = [Memorised(entry, c) EXCEPT !.fingerprint = seen[c].fingerprint]
        BY <2>3, <3>2 DEF CompleteWrites
      <3>4. entry'.status = "done" /\ entry'.response = {c}
            /\ entry'.left = entry.left
        BY <3>3 DEF Memorised, TypeOK, Entries
      <3>5. ~Expired'
        BY <3>2, <3>4 DEF Expired
      <3>6. QED
        BY <3>2, <3>4, <3>5, <1>n, KeyIs DEF Holder, Memo
    <2>4. CASE Release(c) \/ ReleaseDeletes(c)
      <3>1. c \in Holding
        BY <2>4 DEF Release, ReleaseDeletes, Holding
      <3>2. Holder = {c} /\ Memo = {} /\ entry.status = "in_flight"
        BY <3>1, HolderIsHolder
      <3>3. entry' = NoEntry
        BY <2>4, <3>2 DEF Release, ReleaseDeletes
      <3>4. QED
        BY <3>2, <3>3, <1>e, <1>n, KeyIs
    <2>5. CASE ReserveLoses(c) \/ Inspect(c) \/ OperationSucceeds(c)
               \/ OperationFails(c) \/ CompleteReads(c) \/ ReleaseReads(c)
               \/ Vanish(c)
      BY <2>5, <1>s DEF ReserveLoses, Inspect, OperationSucceeds,
         OperationFails, CompleteReads, ReleaseReads, Vanish
    <2>6. QED
      BY <1>1, <2>1, <2>2, <2>3, <2>4, <2>5 DEF Call
  <1>2. CASE Purge
    BY <1>2, <1>e, <1>n, KeyIs DEF Purge
  <1>3. CASE Tick
    <2>1. CASE entry' = NoEntry
      BY <2>1, <1>e, <1>n, KeyIs
    <2>2. CASE entry' = [entry EXCEPT !.left = @ - 1]
      <3>1. /\ entry'.status = entry.status /\ entry'.owner = entry.owner
            /\ entry'.response = entry.response /\ entry'.left = entry.left - 1
            /\ entry.left \in Int
        BY <2>2 DEF TypeOK, Entries
      <3>2. CASE Expired'
        BY <3>2, <1>n, KeyIs DEF Holder, Memo
      <3>3. CASE ~Expired'
        <4>1. ~Expired
          BY <3>1, <3>3 DEF Expired
        <4>2. Holder' = Holder /\ Memo' = Memo
          BY <3>1, <3>3, <4>1 DEF Holder, Memo
        <4>3. QED
          BY <4>2, KeyIs
      <3>4. QED
        BY <3>2, <3>3
    <2>3. QED
      BY <1>3, <2>1, <2>2 DEF Tick
  <1>4. CASE UNCHANGED vars
    BY <1>4, <1>s DEF vars
  <1>5. QED
    BY <1>1, <1>2, <1>3, <1>4 DEF Next

\* ports.go, one contract for three drivers: while no operation outlives its
\* reservation, each driver behaves as IdempotencyContract, so callers cannot
\* tell them apart.
THEOREM Refinement == Spec => ImplementsContract
  <1>1. Init => Key!Init
    <2>1. Init => Holder = {} /\ Memo = {}
      BY DEF Init, NoEntry, Holder, Memo
    <2>2. QED
      BY <2>1, KeyIs
  <1>2. ASSUME TypeOK, Punctual => HolderInv, [Next]_vars
        PROVE  [Key!Next]_Key!key
    <2>1. CASE Punctual
      BY <1>2, <2>1, KeyStep
    <2>2. CASE ~Punctual
      <3>1. Holder = {} /\ Memo = {} /\ Holder' = {} /\ Memo' = {}
        BY <1>2, <2>2, SiteIsFixed DEF Holder, Memo
      <3>2. QED
        BY <3>1, KeyIs
    <2>3. QED
      BY <2>1, <2>2
  <1>3. QED
    BY <1>1, <1>2, TypeCorrect, HolderInvariant, PTL
    DEF Spec, ImplementsContract, Key!Spec
=============================================================================
