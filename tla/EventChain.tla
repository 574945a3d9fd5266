----------------------------- MODULE EventChain -----------------------------
(***************************************************************************)
(* From the outbox to the effect: a dispatcher hands a message to the      *)
(* in-process bus, which calls the consumers of its type one by one, each  *)
(* behind the Once guard.  The outbox is taken as its contract; the guard  *)
(* is the worker's: an idempotency store in the memory of the process.     *)
(***************************************************************************)
EXTENDS Naturals

CONSTANTS
  Messages,      \* the messages that may be enqueued
  Workers,       \* worker processes, one dispatcher each
  NConsumers,    \* consumers subscribed to the type of the messages
  MaxAttempts,   \* RetryPolicy.MaxAttempts
  MaxMissed,     \* bound: failed publications of a message
  MaxPanics,     \* bound: handlers that panic
  MaxCrashes,    \* bound: workers that disappear
  MaxExpiries,   \* bound: keys that reach the end of their TTL
  MaxLost        \* bound: verdicts the database fails to record

ASSUME ConsumersAssumption == NConsumers \in Nat
ASSUME PolicyAssumption == MaxAttempts \in Nat \ {0}
ASSUME BoundAssumption ==
  {MaxMissed, MaxPanics, MaxCrashes, MaxExpiries, MaxLost}
    \subseteq Nat

VARIABLES
  fate, published, missed,  \* the outbox, as OutboxContract has it
  pc,       \* where each dispatcher stands
  msg,      \* the message it is delivering
  turn,     \* the consumer whose turn it is
  failed,   \* a consumer has returned an error on this delivery
  key       \* per worker and message: the state of the idempotency key

\* History: what the consumers did, and what went wrong.
VARIABLES effects, refusals, panics, crashes, expiries, lost

outbox == <<fate, published, missed>>
delivery == <<msg, turn, failed>>
deeds == <<effects, refusals>>
troubles == <<panics, crashes, expiries, lost>>
vars == <<outbox, pc, delivery, key, deeds, troubles>>

Consumers == 1..NConsumers

Outbox == INSTANCE OutboxContract

Init ==
  /\ Outbox!Init
  /\ pc = [w \in Workers |-> "idle"]
  /\ msg = [w \in Workers |-> {}]
  /\ turn = [w \in Workers |-> 0]
  /\ failed = [w \in Workers |-> FALSE]
  /\ key = [w \in Workers |-> [m \in Messages |-> "free"]]
  /\ effects = [m \in Messages |-> [i \in Consumers |-> 0]]
  /\ refusals = [m \in Messages |-> 0]
  /\ panics = 0 /\ crashes = 0 /\ expiries = 0 /\ lost = 0

Goto(w, step) == pc' = [pc EXCEPT ![w] = step]

SetKey(w, state) ==
  key' = [key EXCEPT ![w] = [m \in Messages |->
                               IF m \in msg[w] THEN state ELSE @[m]]]

KeyOf(w) == CHOOSE s \in {"free", "held", "done"} : \E m \in msg[w] : key[w][m] = s

-----------------------------------------------------------------------------
(* The bus.                                                                *)

Enqueue(m) ==
  /\ Outbox!Accept(m)
  /\ UNCHANGED <<pc, delivery, key, deeds, troubles>>

\* The dispatcher publishes a message it has claimed.
Deliver(w, m) ==
  /\ pc[w] = "idle"
  /\ fate[m] = "pending"
  /\ missed[m] < MaxMissed
  /\ msg' = [msg EXCEPT ![w] = {m}]
  /\ turn' = [turn EXCEPT ![w] = 1]
  /\ failed' = [failed EXCEPT ![w] = FALSE]
  /\ Goto(w, IF NConsumers = 0 THEN "returned" ELSE "reserve")
  /\ UNCHANGED <<outbox, key, deeds, troubles>>

\* A consumer has returned, with an error or not; its error does not keep the
\* next one from being called.
Consumed(w, error) ==
  /\ turn' = [turn EXCEPT ![w] = @ + 1]
  /\ failed' = [failed EXCEPT ![w] = @ \/ error]
  /\ Goto(w, IF turn[w] < NConsumers THEN "reserve" ELSE "returned")
  /\ UNCHANGED msg

-----------------------------------------------------------------------------
(* Once.                                                                   *)

\* The key is the envelope's identifier, whichever consumer asks.
Reserve(w) ==
  /\ pc[w] = "reserve" /\ KeyOf(w) = "free"
  /\ SetKey(w, "held")
  /\ Goto(w, "handle")
  /\ UNCHANGED <<outbox, delivery, deeds, troubles>>

\* Broken on purpose: a key in flight is acknowledged like a replay.
Replay_InFlight(w) ==
  /\ pc[w] = "reserve" /\ KeyOf(w) \in {"held", "done"}
  /\ Consumed(w, FALSE)
  /\ UNCHANGED <<outbox, key, deeds, troubles>>

\* Already handled: acknowledged without running.
Replay(w) ==
  /\ pc[w] = "reserve" /\ KeyOf(w) = "done"
  /\ Consumed(w, FALSE)
  /\ UNCHANGED <<outbox, key, deeds, troubles>>

\* In flight: an error, so that the outbox tries again.
InFlight(w) ==
  /\ pc[w] = "reserve" /\ KeyOf(w) = "held"
  /\ Consumed(w, TRUE)
  /\ UNCHANGED <<outbox, key, deeds, troubles>>

HasEffect(w) ==
  effects' = [m \in Messages |->
                IF m \in msg[w] THEN [effects[m] EXCEPT ![turn[w]] = @ + 1]
                ELSE effects[m]]

HandlerSucceeds(w) ==
  /\ pc[w] = "handle"
  /\ HasEffect(w)
  /\ Goto(w, "complete")
  /\ UNCHANGED <<outbox, delivery, key, refusals, troubles>>

\* Broken on purpose: the key is not given back on the failure path.
HandlerFails_KeepsKey(w) ==
  /\ pc[w] = "handle"
  /\ refusals' = [m \in Messages |-> refusals[m] + IF m \in msg[w] THEN 1 ELSE 0]
  /\ Consumed(w, TRUE)
  /\ UNCHANGED <<outbox, key, effects, troubles>>

\* The handler returns an error; the key is released before Once returns.
HandlerFails(w) ==
  /\ pc[w] = "handle"
  /\ refusals' = [m \in Messages |-> refusals[m] + IF m \in msg[w] THEN 1 ELSE 0]
  /\ SetKey(w, "free")
  /\ Consumed(w, TRUE)
  /\ UNCHANGED <<outbox, effects, troubles>>

\* A panic, before or after the effect, skips Complete, Release and the other
\* consumers; the dispatcher recovers it.
HandlerPanics(w) ==
  /\ pc[w] = "handle"
  /\ panics < MaxPanics
  /\ panics' = panics + 1
  /\ HasEffect(w) \/ UNCHANGED effects
  /\ failed' = [failed EXCEPT ![w] = TRUE]
  /\ Goto(w, "returned")
  /\ UNCHANGED <<outbox, msg, turn, key, refusals, crashes, expiries,
                 lost>>

\* Broken on purpose: Complete and Release swapped.
Complete_Swapped(w) ==
  /\ pc[w] = "complete"
  /\ SetKey(w, "free")
  /\ Consumed(w, FALSE)
  /\ UNCHANGED <<outbox, deeds, troubles>>

\* The response is memorised, unless the key expired under the handler.
Complete(w) ==
  /\ pc[w] = "complete"
  /\ IF KeyOf(w) = "free" THEN UNCHANGED key ELSE SetKey(w, "done")
  /\ Consumed(w, KeyOf(w) = "free")
  /\ UNCHANGED <<outbox, deeds, troubles>>

-----------------------------------------------------------------------------
(* The dispatcher records what the bus returned.                           *)

Leave(w) ==
  /\ msg' = [msg EXCEPT ![w] = {}]
  /\ turn' = [turn EXCEPT ![w] = 0]
  /\ failed' = [failed EXCEPT ![w] = FALSE]

Return(w) ==
  /\ pc[w] = "returned"
  /\ \E m \in msg[w] : IF failed[w] THEN Outbox!Miss(m) ELSE Outbox!Succeed(m)
  /\ Goto(w, "record")
  /\ UNCHANGED <<delivery, key, deeds, troubles>>

\* MarkDone, or MarkFailed with the verdict the attempts call for.
Record(w) ==
  /\ pc[w] = "record"
  /\ \E m \in msg[w] :
       \/ ~failed[w] /\ Outbox!Settle(m)
       \/ failed[w] /\ Outbox!GiveUp(m)
       \/ failed[w] /\ missed[m] < MaxMissed /\ UNCHANGED outbox
  /\ Leave(w)
  /\ Goto(w, "idle")
  /\ UNCHANGED <<key, deeds, troubles>>

\* The statement fails: the message stays pending and will be published again.
RecordIsLost(w) ==
  /\ pc[w] = "record"
  /\ lost < MaxLost
  /\ lost' = lost + 1
  /\ Leave(w)
  /\ Goto(w, "idle")
  /\ UNCHANGED <<outbox, key, deeds, panics, crashes, expiries>>

\* The process goes, its keys with it; the outbox has recorded nothing yet.
Crash(w) ==
  /\ pc[w] # "idle"
  /\ crashes < MaxCrashes
  /\ crashes' = crashes + 1
  /\ key' = [key EXCEPT ![w] = [m \in Messages |-> "free"]]
  /\ Leave(w)
  /\ Goto(w, "idle")
  /\ UNCHANGED <<outbox, deeds, panics, expiries, lost>>

\* A key reaches the end of its TTL, held or done.
Expire(w, m) ==
  /\ key[w][m] # "free"
  /\ expiries < MaxExpiries
  /\ expiries' = expiries + 1
  /\ key' = [key EXCEPT ![w][m] = "free"]
  /\ UNCHANGED <<outbox, pc, delivery, deeds, panics, crashes,
                 lost>>

-----------------------------------------------------------------------------
Next ==
  \/ \E m \in Messages : Enqueue(m)
  \/ \E w \in Workers :
       \/ \E m \in Messages : Deliver(w, m) \/ Expire(w, m)
       \/ Reserve(w) \/ Replay(w) \/ InFlight(w)
       \/ HandlerSucceeds(w) \/ HandlerFails(w) \/ HandlerPanics(w)
       \/ Complete(w) \/ Return(w) \/ Record(w) \/ RecordIsLost(w)
       \/ Crash(w)

Spec == Init /\ [][Next]_vars

-----------------------------------------------------------------------------
(* Properties.                                                             *)

\* No event is lost: a message the outbox holds for handled has had its effect
\* with every consumer, even when a delivery was only acknowledged as a replay.
DoneHasEffect ==
  \A m \in Messages, i \in Consumers : fate[m] = "done" => effects[m][i] > 0

\* once.go: "Once makes the effect take place only ONCE, even if the envelope
\* comes back".  A repetition needs a worker that forgot its keys or a key
\* that expired; refusals, panics and lost verdicts alone never repeat one.
EffectOnce ==
  \A m \in Messages, i \in Consumers : effects[m][i] <= 1 + crashes + expiries

\* A message is only given up when its consumers refused it MaxAttempts times,
\* and then it has had no effect at all - unless a panic, a crash or an expiry
\* blurred the picture.
GivenUpIsDeserved ==
  \A m \in Messages :
    fate[m] = "failed" /\ panics + crashes + expiries = 0 =>
      refusals[m] >= MaxAttempts /\ \A i \in Consumers : effects[m][i] = 0
=============================================================================
