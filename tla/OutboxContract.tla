--------------------------- MODULE OutboxContract ---------------------------
(***************************************************************************)
(* What the outbox promises about one message, whatever the driver and the *)
(* number of dispatchers: it is published at least once or given up after  *)
(* MaxAttempts failures, and that verdict is final.                        *)
(***************************************************************************)
EXTENDS Naturals

CONSTANTS Messages, MaxAttempts

VARIABLES
  fate,       \* "absent", "pending", "done" or "failed"
  published,  \* successful publications
  missed      \* failed publications

contract == <<fate, published, missed>>

Init ==
  /\ fate = [m \in Messages |-> "absent"]
  /\ published = [m \in Messages |-> 0]
  /\ missed = [m \in Messages |-> 0]

\* A producer's Enqueue succeeds.
Accept(m) ==
  /\ fate[m] = "absent"
  /\ fate' = [fate EXCEPT ![m] = "pending"]
  /\ UNCHANGED <<published, missed>>

\* A publication, only ever of a message still pending.
Succeed(m) ==
  /\ fate[m] = "pending"
  /\ published' = [published EXCEPT ![m] = @ + 1]
  /\ UNCHANGED <<fate, missed>>

Miss(m) ==
  /\ fate[m] = "pending"
  /\ missed' = [missed EXCEPT ![m] = @ + 1]
  /\ UNCHANGED <<fate, published>>

\* The two verdicts.
Settle(m) ==
  /\ fate[m] = "pending" /\ published[m] > 0
  /\ fate' = [fate EXCEPT ![m] = "done"]
  /\ UNCHANGED <<published, missed>>

GiveUp(m) ==
  /\ fate[m] = "pending" /\ missed[m] >= MaxAttempts
  /\ fate' = [fate EXCEPT ![m] = "failed"]
  /\ UNCHANGED <<published, missed>>

Next ==
  \E m \in Messages :
    Accept(m) \/ Succeed(m) \/ Miss(m) \/ Settle(m) \/ GiveUp(m)

Spec == Init /\ [][Next]_contract
=============================================================================
