---------------------------- MODULE Idempotency ----------------------------
(***************************************************************************)
(* Calls that carry one idempotency key: Reserve, run the operation, then  *)
(* Complete or Release, on each of the three drivers.  Keys share nothing, *)
(* so one is modelled.  memory decides under a mutex; postgres reserves in *)
(* one statement and inspects in another; redis reserves with SET NX and   *)
(* reads before it writes in Complete and Release.                         *)
(***************************************************************************)
EXTENDS Integers

CONSTANTS
  Callers,      \* the calls; each resends until it has an answer
  Strangers,    \* those that reuse the key for a different request
  Sites,        \* the deployments considered
  TTL,          \* lifetime of a reservation, in ticks
  MaxTroubles   \* bound: failed operations, crashes and failed statements

ASSUME SitesAssumption ==
  Sites \subseteq [driver : {"memory", "postgres", "redis"},
                   overrun : BOOLEAN]   \* may an operation outlive its TTL?
ASSUME CallersAssumption == Strangers \subseteq Callers
ASSUME TTLAssumption == TTL \in Nat \ {0}
ASSUME BoundAssumption == MaxTroubles \in Nat

\* The deployment, settled before the program starts.
VARIABLE site

VARIABLES
  entry,    \* what the store keeps under the key
  pc,       \* where each call stands
  seen,     \* redis: the entry a call read and is about to write from
  troubles  \* operations, processes and statements that failed so far

\* History.  `lease` is what is left of the reservation a call was granted,
\* `reply` the calls whose response it was given.
VARIABLES lease, reply

vars == <<site, entry, pc, seen, troubles, lease, reply>>

driver == site.driver

\* Every operation ends within its TTL.
Punctual == ~site.overrun

-----------------------------------------------------------------------------
Fingerprints == {"none", "request", "other"}

Fingerprint(c) == IF c \in Strangers THEN "other" ELSE "request"

\* `left` is expires_at - now, -1 standing for any instant past expires_at;
\* `owner` is the call the reservation was granted to, which no driver keeps.
Entries == [status : {"none", "in_flight", "done"},
            fingerprint : Fingerprints,
            left : -1..TTL,
            owner : SUBSET Callers,
            response : SUBSET Callers]

NoEntry == [status |-> "none", fingerprint |-> "none", left |-> -1,
            owner |-> {}, response |-> {}]

Reservation(c) == [status |-> "in_flight", fingerprint |-> Fingerprint(c),
                   left |-> TTL, owner |-> {c}, response |-> {}]

Steps == {"start", "inspect", "running", "complete", "release", "set", "del",
          "answered", "refused"}

\* Broken on purpose: a key in flight, a completed key, taken for free; an
\* expired one that never is.
IsFree_InFlight == entry.status # "done"

IsFree_Completed == entry.status \in {"none", "done"}

IsFree_NeverExpires == entry.status = "none"

\* Reserve wins on an absent or an expired key.  postgres compares with
\* expires_at < now(), memory with !expiresAt.After(now), redis has erased it.
Expired == entry.left < (IF driver = "postgres" THEN 0 ELSE 1)

IsFree == entry.status = "none" \/ Expired

\* The calls that hold a grant they have not resolved.
Holding == {c \in Callers : pc[c] \in {"running", "complete", "release", "set", "del"}}

Goto(c, step) == pc' = [pc EXCEPT ![c] = step]

Init ==
  /\ site \in Sites
  /\ entry = NoEntry
  /\ pc = [c \in Callers |-> "start"]
  /\ seen = [c \in Callers |-> NoEntry]
  /\ troubles = 0
  /\ lease = [c \in Callers |-> 0]
  /\ reply = [c \in Callers |-> {}]

-----------------------------------------------------------------------------
(* Reserve.                                                                *)

\* Broken on purpose: the fingerprint is not compared.
Settle_AnyRequest(c, e) ==
  IF e.status = "done"
    THEN /\ Goto(c, "answered")
         /\ reply' = [reply EXCEPT ![c] = e.response]
    ELSE Goto(c, "start") /\ UNCHANGED reply

\* The fate of a call that finds the key held by e: conflict, replay, in
\* flight; the last is resent.  An entry gone meanwhile counts as in flight.
Settle(c, e) ==
  \/ /\ e.status = "none"
     /\ Goto(c, "start") /\ UNCHANGED reply
  \/ /\ e.status # "none" /\ e.fingerprint # Fingerprint(c)
     /\ Goto(c, "refused") /\ UNCHANGED reply
  \/ /\ e.status = "in_flight" /\ e.fingerprint = Fingerprint(c)
     /\ Goto(c, "start") /\ UNCHANGED reply
  \/ /\ e.status = "done" /\ e.fingerprint = Fingerprint(c)
     /\ Goto(c, "answered")
     /\ reply' = [reply EXCEPT ![c] = e.response]

ReserveWins(c) ==
  /\ pc[c] = "start"
  /\ IsFree
  /\ entry' = Reservation(c)
  /\ lease' = [lease EXCEPT ![c] = TTL]
  /\ Goto(c, "running")
  /\ UNCHANGED <<site, seen, troubles, reply>>

\* memory settles under the same lock; the others read again.
ReserveLoses(c) ==
  /\ pc[c] = "start"
  /\ ~IsFree
  /\ IF driver = "memory"
       THEN Settle(c, entry)
       ELSE Goto(c, "inspect") /\ UNCHANGED reply
  /\ UNCHANGED <<site, entry, seen, troubles, lease>>

\* postgres does not look at expires_at here; redis has erased what expired.
Inspect(c) ==
  /\ pc[c] = "inspect"
  /\ Settle(c, entry)
  /\ UNCHANGED <<site, entry, seen, troubles, lease>>

-----------------------------------------------------------------------------
(* The operation, Complete and Release.                                    *)

Trouble ==
  /\ troubles < MaxTroubles
  /\ troubles' = troubles + 1

OperationSucceeds(c) ==
  /\ pc[c] = "running"
  /\ Goto(c, "complete")
  /\ UNCHANGED <<site, entry, seen, troubles, lease, reply>>

OperationFails(c) ==
  /\ pc[c] = "running"
  /\ Trouble
  /\ Goto(c, "release")
  /\ UNCHANGED <<site, entry, seen, lease, reply>>

Memorised(e, c) == [e EXCEPT !.status = "done", !.response = {c}]

\* The key names nobody: memory completes any live entry, postgres any live
\* entry in flight.  ErrNotReserved is logged, the call is answered.
Complete(c) ==
  /\ pc[c] = "complete"
  /\ driver # "redis"
  /\ entry' = IF entry.status # "none" /\ entry.left > 0
                   /\ (driver = "postgres" => entry.status = "in_flight")
                THEN Memorised(entry, c) ELSE entry
  /\ Goto(c, "answered")
  /\ UNCHANGED <<site, seen, troubles, lease, reply>>

\* redis, first command: GET.
CompleteReads(c) ==
  /\ pc[c] = "complete"
  /\ driver = "redis"
  /\ IF entry.status = "in_flight"
       THEN seen' = [seen EXCEPT ![c] = entry] /\ Goto(c, "set")
       ELSE Goto(c, "answered") /\ UNCHANGED seen
  /\ UNCHANGED <<site, entry, troubles, lease, reply>>

\* redis, second command: SET XX KEEPTTL, with the fingerprint read before.
CompleteWrites(c) ==
  /\ pc[c] = "set"
  /\ entry' = IF entry.status = "none" THEN entry
              ELSE [Memorised(entry, c) EXCEPT !.fingerprint = seen[c].fingerprint]
  /\ seen' = [seen EXCEPT ![c] = NoEntry]
  /\ Goto(c, "answered")
  /\ UNCHANGED <<site, troubles, lease, reply>>

Release(c) ==
  /\ pc[c] = "release"
  /\ driver # "redis"
  /\ entry' = IF entry.status = "in_flight" THEN NoEntry ELSE entry
  /\ Goto(c, "start")
  /\ UNCHANGED <<site, seen, troubles, lease, reply>>

ReleaseReads(c) ==
  /\ pc[c] = "release"
  /\ driver = "redis"
  /\ Goto(c, IF entry.status = "in_flight" THEN "del" ELSE "start")
  /\ UNCHANGED <<site, entry, seen, troubles, lease, reply>>

ReleaseDeletes(c) ==
  /\ pc[c] = "del"
  /\ entry' = NoEntry
  /\ Goto(c, "start")
  /\ UNCHANGED <<site, seen, troubles, lease, reply>>

-----------------------------------------------------------------------------
(* What goes wrong, and time.                                              *)

\* The call disappears, by a panic or with its process, and is resent; so is
\* one whose Complete or Release met a store that does not answer.
Vanish(c) ==
  /\ c \in Holding
  /\ Trouble
  /\ Goto(c, "start")
  /\ seen' = [seen EXCEPT ![c] = NoEntry]
  /\ UNCHANGED <<site, entry, lease, reply>>

\* Drivers that keep what expired purge it on demand.
Purge ==
  /\ driver # "redis"
  /\ entry.status # "none" /\ IsFree
  /\ entry' = NoEntry
  /\ UNCHANGED <<site, pc, seen, troubles, lease, reply>>

Tick ==
  /\ entry.status # "none" /\ entry.left >= 0
  /\ site.overrun \/ \A c \in Holding : lease[c] > 1
  /\ entry' = IF driver = "redis" /\ entry.left = 1 THEN NoEntry
              ELSE [entry EXCEPT !.left = @ - 1]
  /\ lease' = [c \in Callers |-> IF lease[c] > 0 THEN lease[c] - 1 ELSE 0]
  /\ UNCHANGED <<site, pc, seen, troubles, reply>>

-----------------------------------------------------------------------------
Call(c) ==
  \/ ReserveWins(c) \/ ReserveLoses(c) \/ Inspect(c)
  \/ OperationSucceeds(c) \/ OperationFails(c)
  \/ Complete(c) \/ CompleteReads(c) \/ CompleteWrites(c)
  \/ Release(c) \/ ReleaseReads(c) \/ ReleaseDeletes(c)

Next == (\E c \in Callers : Call(c) \/ Vanish(c)) \/ Purge \/ Tick

Spec == Init /\ [][Next]_vars

\* Calls proceed, their operations end and time passes; no store is obliged to
\* be purged.
FairSpec ==
  /\ Spec
  /\ WF_vars(Tick)
  /\ \A c \in Callers : WF_vars(Call(c))

-----------------------------------------------------------------------------
(* Properties.                                                             *)

\* Every variable keeps its type; no lifetime exceeds TTL.
TypeOK ==
  /\ site \in Sites
  /\ entry \in Entries
  /\ pc \in [Callers -> Steps]
  /\ seen \in [Callers -> Entries]
  /\ troubles \in Nat
  /\ lease \in [Callers -> 0..TTL]
  /\ reply \in [Callers -> SUBSET Callers]

\* ports.Reserve, outcome 5: while an operation is in flight under a live
\* reservation nobody else is granted the key.
OneLiveHolder ==
  Punctual => \A c, d \in Holding : c # d => lease[c] = 0 \/ lease[d] = 0

\* Once a response is memorised nobody runs the operation again.
NobodyRunsOnceMemorised == Punctual /\ entry.status = "done" => Holding = {}

\* A replay hands out the response of the same request, never of another one
\* that was given the same key.
ReplayMatchesRequest ==
  Punctual =>
    \A c \in Callers : \A r \in reply[c] : Fingerprint(r) = Fingerprint(c)

\* A call is not refused for ever because an earlier one vanished: expiry
\* gives the key back.
EveryCallEnds == \A c \in Callers : <>(pc[c] \in {"answered", "refused"})

\* A deployment where operations outlive their TTL is shown to the contract as
\* a key nobody uses.
Key == INSTANCE IdempotencyContract WITH
  holder <- IF Punctual /\ entry.status = "in_flight" /\ ~Expired
              THEN entry.owner ELSE {},
  memo <- IF Punctual /\ entry.status = "done" /\ ~Expired
            THEN entry.response ELSE {}

\* ports.go: the three drivers promise the same thing, so that one may replace
\* another without its callers noticing.
ImplementsContract == Key!Spec
=============================================================================
