------------------------------- MODULE Outbox -------------------------------
(***************************************************************************)
(* The transactional outbox: the store (either driver) and the dispatchers *)
(* that claim a batch, publish each message and record its fate.           *)
(*                                                                         *)
(* "memory" is one process: a mutex makes each port one step, `claimed`    *)
(* keeps a message from being claimed twice.  "postgres" is shared by      *)
(* several worker processes: each port is one autocommitted statement, so  *)
(* the row locks of FOR UPDATE SKIP LOCKED end with the Claim itself.      *)
(***************************************************************************)
EXTENDS Integers, FiniteSets

CONSTANTS
  Messages,     \* the messages that may be enqueued
  Workers,      \* the dispatchers that may run on the store
  Sites,        \* the deployments considered
  MaxAttempts,  \* RetryPolicy.MaxAttempts
  BaseBackoff,  \* RetryPolicy.BaseBackoff, in ticks
  BatchSize,    \* Policy.BatchSize
  MaxRounds,    \* maxRounds, the batches of one catch-up
  MaxFaults,    \* bound: statements the database fails
  MaxStops      \* bound: shutdown requests and crashes of a worker

ASSUME SitesAssumption ==
  Sites \subseteq [driver : {"memory", "postgres"},
                   team : SUBSET Workers,     \* the dispatchers it runs
                   load : SUBSET Messages]    \* what its producers enqueue

ASSUME PolicyAssumption ==
  /\ MaxAttempts \in Nat \ {0}
  /\ BaseBackoff \in Nat \ {0}
  /\ BatchSize \in Nat \ {0}
  /\ MaxRounds \in Nat \ {0}

ASSUME BoundAssumption == MaxFaults \in Nat /\ MaxStops \in Nat

ASSUME MessagesAssumption == IsFiniteSet(Messages)

\* The deployment, settled before the program starts.
VARIABLE site

VARIABLES
  clock,        \* the instant every party reads
  status,       \* "absent" until enqueued, then the status column
  attempts,     \* the attempts column
  availableAt,  \* the available_at column
  inserted,     \* rank of insertion (memory's `order`)
  claimed,      \* memory's `claimed` set
  pc,           \* where each dispatcher stands
  batch,        \* the copies a dispatcher has claimed and not yet resolved
  current,      \* the copy whose publication has just ended
  result,       \* how that publication ended
  rounds,       \* batches already drained in this catch-up
  full,         \* the batch being drained came back full
  cancelled     \* the dispatcher's context has been cancelled

\* History and fault counters; the code keeps none of them.
VARIABLES
  handled,      \* how many times each message was published successfully
  failures,     \* how many of its publications failed
  faults,       \* statements failed so far
  stops         \* shutdown requests and crashes so far

driver == site.driver

team == site.team

store == <<status, attempts, availableAt, inserted, claimed>>
worker == <<pc, batch, current, result, rounds, full, cancelled>>
history == <<handled, failures>>
budget == <<faults, stops>>
vars == <<site, clock, store, worker, history, budget>>

-----------------------------------------------------------------------------
(* The domain: due messages and the retry policy.                          *)

Statuses == {"absent", "pending", "done", "failed"}

\* A copy of a message as Claim returns it; `key` is its place in the batch.
Copies == [id : Messages, attempts : Nat, key : Int]

\* A panic of the publisher is recovered and comes back as an error.
Results == {"ok", "error"}

IsDue(m) == status[m] = "pending" /\ availableAt[m] <= clock

maxShift == 10

\* 1 << min(attempts, maxShift), in base backoffs.
Backoff(n) == BaseBackoff * 2^(IF n < maxShift THEN n ELSE maxShift)

\* Broken on purpose: one attempt short, then one too many.
NextAttempt_GivesUpEarly(c) ==
  LET n == c.attempts + 1
  IN  [attempts |-> n,
       status |-> IF n + 1 >= MaxAttempts THEN "failed" ELSE "pending",
       availableAt |-> clock + Backoff(n)]

NextAttempt_OneTooMany(c) ==
  LET n == c.attempts + 1
  IN  [attempts |-> n,
       status |-> IF n > MaxAttempts THEN "failed" ELSE "pending",
       availableAt |-> clock + Backoff(n)]

NextAttempt(c) ==
  LET n == c.attempts + 1
  IN  [attempts |-> n,
       status |-> IF n >= MaxAttempts THEN "failed" ELSE "pending",
       availableAt |-> clock + Backoff(n)]

\* memory walks in insertion order, postgres in ORDER BY available_at.
SortKey(m) == IF driver = "memory" THEN inserted[m] ELSE availableAt[m]

CopyOf(m) == [id |-> m, attempts |-> attempts[m], key |-> SortKey(m)]

\* Broken on purpose: a claim does not look at what is claimed.
Claimable_ForgetsClaims == {m \in Messages : IsDue(m)}

Claimable == {m \in Messages : IsDue(m) /\ m \notin claimed}

\* The first `BatchSize` claimable messages, all of them when there are fewer.
FirstClaimable(B) ==
  /\ B \subseteq Claimable
  /\ Cardinality(B) <= BatchSize
  /\ B # Claimable => Cardinality(B) = BatchSize
  /\ \A m \in B, n \in Claimable \ B : SortKey(m) <= SortKey(n)

IdsOf(C) == {c.id : c \in C}

-----------------------------------------------------------------------------
Init ==
  /\ site \in Sites
  /\ clock = 0
  /\ status = [m \in Messages |-> "absent"]
  /\ attempts = [m \in Messages |-> 0]
  /\ availableAt = [m \in Messages |-> 0]
  /\ inserted = [m \in Messages |-> 0]
  /\ claimed = {}
  /\ pc = [w \in Workers |-> IF w \in team THEN "idle" ELSE "stopped"]
  /\ batch = [w \in Workers |-> {}]
  /\ current = [w \in Workers |-> {}]
  /\ result = [w \in Workers |-> "ok"]
  /\ rounds = [w \in Workers |-> 0]
  /\ full = [w \in Workers |-> FALSE]
  /\ cancelled = [w \in Workers |-> FALSE]
  /\ handled = [m \in Messages |-> 0]
  /\ failures = [m \in Messages |-> 0]
  /\ faults = 0
  /\ stops = 0

-----------------------------------------------------------------------------
(* Producers and time.                                                     *)

Enqueue(m) ==
  /\ m \in site.load /\ status[m] = "absent"
  /\ status' = [status EXCEPT ![m] = "pending"]
  /\ availableAt' = [availableAt EXCEPT ![m] = clock]
  /\ inserted' = [inserted EXCEPT
       ![m] = 1 + Cardinality({n \in Messages : status[n] # "absent"})]
  /\ UNCHANGED <<site, clock, attempts, claimed, worker, history, budget>>

\* Only IsDue observes the time, which stops once every date has passed.
Tick ==
  /\ \E m \in Messages : availableAt[m] > clock
  /\ clock' = clock + 1
  /\ UNCHANGED <<site, store, worker, history, budget>>

-----------------------------------------------------------------------------
(* The dispatcher's loop.                                                  *)

\* Run: the ticker fires and catchUp begins; it returns at once when the
\* context is already cancelled.
Poll(w) ==
  /\ pc[w] = "idle"
  /\ ~cancelled[w]
  /\ pc' = [pc EXCEPT ![w] = "claim"]
  /\ rounds' = [rounds EXCEPT ![w] = 0]
  /\ UNCHANGED <<site, clock, store, batch, current, result, full, cancelled,
                 history, budget>>

\* Run: the select sees ctx.Done.
Stop(w) ==
  /\ pc[w] = "idle"
  /\ cancelled[w]
  /\ pc' = [pc EXCEPT ![w] = "stopped"]
  /\ UNCHANGED <<site, clock, store, batch, current, result, rounds, full,
                 cancelled, history, budget>>

\* Broken on purpose: postgres writes the claim down, and nothing undoes it
\* when the worker dies.
Claim_Persisted(w) ==
  /\ pc[w] = "claim"
  /\ ~cancelled[w]
  /\ \E B \in SUBSET Claimable :
       /\ FirstClaimable(B)
       /\ batch' = [batch EXCEPT ![w] = {CopyOf(m) : m \in B}]
       /\ claimed' = claimed \union B
       /\ full' = [full EXCEPT ![w] = Cardinality(B) = BatchSize]
       /\ pc' = [pc EXCEPT ![w] = IF B = {} THEN "idle" ELSE "publish"]
  /\ UNCHANGED <<site, clock, status, attempts, availableAt, inserted, current,
                 result, rounds, cancelled, history, budget>>

\* DrainOnce with a Claim that succeeds.  Only memory remembers the claim.
Claim(w) ==
  /\ pc[w] = "claim"
  /\ ~cancelled[w]
  /\ \E B \in SUBSET Claimable :
       /\ FirstClaimable(B)
       /\ batch' = [batch EXCEPT ![w] = {CopyOf(m) : m \in B}]
       /\ claimed' = IF driver = "memory" THEN claimed \union B ELSE claimed
       /\ full' = [full EXCEPT ![w] = Cardinality(B) = BatchSize]
       /\ pc' = [pc EXCEPT ![w] = IF B = {} THEN "idle" ELSE "publish"]
  /\ UNCHANGED <<site, clock, status, attempts, availableAt, inserted, current,
                 result, rounds, cancelled, history, budget>>

\* A statement of the database fails; memory has none.
Fault ==
  /\ driver = "postgres"
  /\ faults < MaxFaults
  /\ faults' = faults + 1

\* DrainOnce with a Claim that fails: reported, and catchUp gives up.
ClaimFails(w) ==
  /\ pc[w] = "claim"
  /\ \/ cancelled[w] /\ UNCHANGED faults
     \/ ~cancelled[w] /\ Fault
  /\ pc' = [pc EXCEPT ![w] = "idle"]
  /\ UNCHANGED <<site, clock, store, batch, current, result, rounds, full,
                 cancelled, history, stops>>

\* deliver: the publisher is called on the next copy of the batch; a panic is
\* recovered and comes back as an error of its own kind.
Publish(w) ==
  /\ pc[w] = "publish"
  /\ \E c \in batch[w], r \in Results :
       /\ \A d \in batch[w] : c.key <= d.key
       /\ current' = [current EXCEPT ![w] = {c}]
       /\ result' = [result EXCEPT ![w] = r]
       /\ IF r = "ok"
            THEN /\ handled' = [handled EXCEPT ![c.id] = @ + 1]
                 /\ UNCHANGED failures
            ELSE /\ failures' = [failures EXCEPT ![c.id] = @ + 1]
                 /\ UNCHANGED handled
  /\ pc' = [pc EXCEPT ![w] = "record"]
  /\ UNCHANGED <<site, clock, store, batch, rounds, full, cancelled, budget>>

\* The rest of DrainOnce and catchUp once copy c is resolved: next copy, else
\* another batch if this one was full, rounds remain and nobody asked to stop.
Resolved(w, c) ==
  LET rest == batch[w] \ {c}
      again == full[w] /\ rounds[w] + 1 < MaxRounds /\ ~cancelled[w]
  IN  /\ batch' = [batch EXCEPT ![w] = rest]
      /\ current' = [current EXCEPT ![w] = {}]
      /\ result' = [result EXCEPT ![w] = "ok"]
      /\ rounds' = [rounds EXCEPT ![w] = IF rest = {} /\ again THEN @ + 1 ELSE @]
      /\ pc' = [pc EXCEPT ![w] = IF rest # {} THEN "publish"
                                 ELSE IF again THEN "claim" ELSE "idle"]
      /\ UNCHANGED <<full, cancelled>>

\* The store's MarkDone: no condition on the status the row has by now.
MarkDone(c) ==
  /\ status' = [status EXCEPT ![c.id] = "done"]
  /\ claimed' = claimed \ {c.id}
  /\ UNCHANGED <<attempts, availableAt, inserted>>

\* The store's MarkFailed: the row is overwritten from the claimed copy.
MarkFailed(c) ==
  LET next == NextAttempt(c)
  IN  /\ attempts' = [attempts EXCEPT ![c.id] = next.attempts]
      /\ status' = [status EXCEPT ![c.id] = next.status]
      /\ availableAt' = [availableAt EXCEPT ![c.id] = next.availableAt]
      /\ claimed' = claimed \ {c.id}
      /\ UNCHANGED inserted

\* memory ignores the context of MarkDone and MarkFailed, pgx does not.
CanWrite(w) == driver = "memory" \/ ~cancelled[w]

\* deliver, publication succeeded and its fate is recorded.
RecordDone(w) ==
  /\ pc[w] = "record" /\ result[w] = "ok"
  /\ CanWrite(w)
  /\ \E c \in current[w] :
       /\ MarkDone(c)
       /\ Resolved(w, c)
  /\ UNCHANGED <<site, clock, history, budget>>

\* reschedule, the failure is recorded.
RecordFailed(w) ==
  /\ pc[w] = "record" /\ result[w] # "ok"
  /\ CanWrite(w)
  /\ \E c \in current[w] :
       /\ MarkFailed(c)
       /\ Resolved(w, c)
  /\ UNCHANGED <<site, clock, history, budget>>

\* MarkDone or MarkFailed returns an error: the context was cancelled, or the
\* statement failed, in which case it may have been applied all the same.
RecordFails(w) ==
  /\ pc[w] = "record"
  /\ driver = "postgres"
  /\ \E c \in current[w] :
       /\ \/ cancelled[w] /\ UNCHANGED <<store, faults>>
          \/ Fault /\ UNCHANGED store
          \/ Fault /\ result[w] = "ok" /\ MarkDone(c)
          \/ Fault /\ result[w] # "ok" /\ MarkFailed(c)
       /\ Resolved(w, c)
  /\ UNCHANGED <<site, clock, history, stops>>

-----------------------------------------------------------------------------
(* Shutdown and crash.                                                     *)

Cancel(w) ==
  /\ pc[w] # "stopped" /\ ~cancelled[w]
  /\ stops < MaxStops
  /\ cancelled' = [cancelled EXCEPT ![w] = TRUE]
  /\ stops' = stops + 1
  /\ UNCHANGED <<site, clock, store, pc, batch, current, result, rounds, full,
                 history, faults>>

\* A worker process disappears with everything it had claimed.
Crash(w) ==
  /\ driver = "postgres"
  /\ pc[w] # "stopped"
  /\ stops < MaxStops
  /\ stops' = stops + 1
  /\ pc' = [pc EXCEPT ![w] = "stopped"]
  /\ batch' = [batch EXCEPT ![w] = {}]
  /\ current' = [current EXCEPT ![w] = {}]
  /\ result' = [result EXCEPT ![w] = "ok"]
  /\ rounds' = [rounds EXCEPT ![w] = 0]
  /\ full' = [full EXCEPT ![w] = FALSE]
  /\ UNCHANGED <<site, clock, store, cancelled, history, faults>>

\* A new process takes over with a fresh context.
Restart(w) ==
  /\ driver = "postgres"
  /\ w \in team /\ pc[w] = "stopped"
  /\ pc' = [pc EXCEPT ![w] = "idle"]
  /\ cancelled' = [cancelled EXCEPT ![w] = FALSE]
  /\ UNCHANGED <<site, clock, store, batch, current, result, rounds, full,
                 history, budget>>

-----------------------------------------------------------------------------
Dispatch(w) ==
  \/ Poll(w) \/ Stop(w) \/ Claim(w) \/ ClaimFails(w) \/ Publish(w)
  \/ RecordDone(w) \/ RecordFailed(w) \/ RecordFails(w)

Environment(w) == Cancel(w) \/ Crash(w)

Next ==
  \/ \E m \in Messages : Enqueue(m)
  \/ Tick
  \/ \E w \in Workers : Dispatch(w) \/ Environment(w) \/ Restart(w)

Spec == Init /\ [][Next]_vars

\* Go schedules every goroutine, time passes, publishers return, and the
\* platform restarts a worker that has gone.
Fairness ==
  /\ WF_vars(Tick)
  /\ \A w \in Workers : WF_vars(Dispatch(w)) /\ WF_vars(Restart(w))

FairSpec == Spec /\ Fairness

-----------------------------------------------------------------------------
(* Properties.                                                             *)

Held(w) == IdsOf(batch[w])

\* Where nothing lets two dispatchers claim one message: memory, or a single
\* dispatcher.
Exclusive == driver = "memory" \/ \A v, w \in team : v = w

\* Every variable keeps its type; a publication ends only on a claimed copy.
TypeOK ==
  /\ site \in Sites
  /\ clock \in Nat
  /\ status \in [Messages -> Statuses]
  /\ attempts \in [Messages -> Nat]
  /\ availableAt \in [Messages -> Int]
  /\ inserted \in [Messages -> Int]
  /\ claimed \subseteq Messages
  /\ pc \in [Workers -> {"idle", "claim", "publish", "record", "stopped"}]
  /\ batch \in [Workers -> SUBSET Copies]
  /\ current \in [Workers -> SUBSET Copies]
  /\ result \in [Workers -> Results]
  /\ rounds \in [Workers -> Nat]
  /\ full \in [Workers -> BOOLEAN]
  /\ cancelled \in [Workers -> BOOLEAN]
  /\ handled \in [Messages -> Nat]
  /\ failures \in [Messages -> Nat]
  /\ faults \in Nat
  /\ stops \in Nat

\* The contract of ports.Claim: a message claimed by one dispatcher is in the
\* hands of no other until its fate is recorded.
HeldByOne ==
  \A v, w \in Workers : v # w => Held(v) \cap Held(w) = {}

\* A dispatcher decides from the copy it claimed; the copy must still be what
\* the store says, or NextAttempt computes from a stale number of attempts.
CopiesAreCurrent ==
  \A w \in Workers : \A c \in batch[w] :
    status[c.id] = "pending" /\ attempts[c.id] = c.attempts

\* What the memory driver and a single worker on postgres both give: nobody
\* else holds a claimed message, nor changes its row.
ClaimsHold == Exclusive => HeldByOne /\ CopiesAreCurrent

\* memory's claimed set is exactly what the dispatchers hold: a panic, a
\* failure or a shutdown leaves no message claimed for ever.
ClaimedIsHeld ==
  driver = "memory" => claimed = UNION {Held(w) : w \in Workers}

\* "At least once": MarkDone only follows a successful publication, whoever
\* else was working on the message.
DoneWasPublished ==
  \A m \in Messages : status[m] = "done" => handled[m] > 0

\* The attempts column never counts a failure that did not happen, so no
\* message is given up before MaxAttempts real failures.
GivenUpAfterMaxAttempts ==
  \A m \in Messages :
    /\ attempts[m] <= failures[m]
    /\ status[m] = "failed" => failures[m] >= MaxAttempts

\* A message is published at most MaxAttempts times, and every publication
\* beyond that is owed to a fate the database or a stop left unrecorded.
ExtraPublicationsAreOwed ==
  Exclusive =>
    \A m \in Messages : handled[m] + failures[m] <= MaxAttempts + faults + stops

\* Every message that was enqueued ends up, and stays, done or failed; what a
\* stopped process keeps in its memory excepted.
EventuallySettled ==
  \A m \in Messages :
    status[m] # "absent" ~>
      \/ [](status[m] \in {"done", "failed"})
      \/ driver = "memory" /\ stops > 0

\* Every deployment with exclusive claims is compared with the contract; one
\* without is shown to it as an outbox nobody uses.
Seen(field, default) == IF Exclusive THEN field ELSE [m \in Messages |-> default]

Contract == INSTANCE OutboxContract
              WITH fate <- Seen(status, "absent"),
                   published <- Seen(handled, 0),
                   missed <- Seen(failures, 0)

\* Where claims are exclusive the outbox promises its producers no more and no
\* less than OutboxContract.
ImplementsContract == Contract!Spec
=============================================================================
