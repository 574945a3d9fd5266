---------------------------- MODULE WorkerLoops ----------------------------
(***************************************************************************)
(* The worker binary once composed: the dispatcher and the consumer run in *)
(* two goroutines, the first to end cancels the context of the other, main *)
(* waits for both and then closes the broker and the connections.  What a  *)
(* consumer's Run does depends on the relay.                               *)
(***************************************************************************)
EXTENDS Naturals, Sequences

CONSTANTS
  Relays,         \* the relays a configuration may choose
  Subscriptions,  \* the event types subscribed to, none if notification is off
  MaxTroubles     \* bound: bindings refused, connections lost, metrics down

ASSUME RelayAssumption ==
  Relays \subseteq {"inproc", "noop", "kafka", "rabbitmq"}
ASSUME TroublesAssumption == MaxTroubles \in Nat

VARIABLES
  relay,       \* the one the configuration chose
  stopping,    \* the context shared by both loops
  dispatcher,  \* "polling", "draining" or "gone"
  consumer,    \* "starting", "running", "failing" or "gone"
  reader,      \* the goroutine of each subscription
  connected,   \* rabbitmq: the connection is up
  exits,       \* the channel both loops write their result to
  loop,        \* "first", "second", "closing", "exited"
  firstError   \* the error main will return, "nil" if none

\* History: a signal was received; what went wrong; what each loop returned.
VARIABLES terminated, troubles, returned

loops == <<dispatcher, consumer, reader, connected>>
record == <<terminated, troubles, returned>>
loopsVars == <<relay, stopping, loops, exits, loop, firstError, record>>

Networked == relay \in {"kafka", "rabbitmq"}

LoopsInit ==
  /\ relay \in Relays
  /\ stopping = FALSE
  /\ dispatcher = "polling"
  /\ consumer = "starting"
  /\ reader = [t \in Subscriptions |-> "none"]
  /\ connected = TRUE
  /\ exits = <<>>
  /\ loop = "first"
  /\ firstError = "nil"
  /\ terminated = FALSE
  /\ troubles = 0
  /\ returned = {}

Trouble == troubles < MaxTroubles /\ troubles' = troubles + 1

\* A loop ends and says so on the channel.
Exit(result) ==
  /\ exits' = Append(exits, result)
  /\ returned' = returned \union {result}

-----------------------------------------------------------------------------
(* The dispatcher.                                                         *)

\* The select may still prefer the ticker when the context is cancelled.
Poll ==
  /\ dispatcher = "polling"
  /\ dispatcher' = "draining"
  /\ UNCHANGED <<relay, stopping, consumer, reader, connected, exits, loop,
                 firstError, record>>

DrainEnds ==
  /\ dispatcher = "draining"
  /\ dispatcher' = "polling"
  /\ UNCHANGED <<relay, stopping, consumer, reader, connected, exits, loop,
                 firstError, record>>

\* Cancellation is the normal end of a worker: no error.
DispatcherEnds ==
  /\ dispatcher = "polling" /\ stopping
  /\ dispatcher' = "gone"
  /\ Exit("nil")
  /\ UNCHANGED <<relay, stopping, consumer, reader, connected, loop, firstError,
                 terminated, troubles>>

-----------------------------------------------------------------------------
(* The consumer's Run.                                                     *)

\* One goroutine for each subscription; rabbitmq binds a queue first, and the
\* loop goes on with the other subscriptions when a binding fails.
ConsumerStarts ==
  /\ consumer = "starting"
  /\ \E ok \in SUBSET Subscriptions :
       /\ reader' = [t \in Subscriptions |->
                       IF Networked /\ t \in ok THEN "waiting" ELSE "none"]
       /\ IF ok = Subscriptions
            THEN consumer' = "running" /\ UNCHANGED troubles
            ELSE relay = "rabbitmq" /\ consumer' = "failing" /\ Trouble
  /\ UNCHANGED <<relay, stopping, dispatcher, connected, exits, loop, firstError,
                 terminated, returned>>

\* rabbitmq: a failed binding is returned at once, readers or not.
ConsumerFails ==
  /\ consumer = "failing"
  /\ consumer' = "gone"
  /\ Exit("error")
  /\ UNCHANGED <<relay, stopping, dispatcher, reader, connected, loop,
                 firstError, terminated, troubles>>

\* Broken on purpose: nothing is waited for.
ConsumerEnds_AtOnce ==
  /\ consumer = "running"
  /\ consumer' = "gone"
  /\ Exit("nil")
  /\ UNCHANGED <<relay, stopping, dispatcher, reader, connected, loop,
                 firstError, terminated, troubles>>

\* inproc and noop wait for the context; the others for their readers, of
\* which there may be none.
ConsumerEnds ==
  /\ consumer = "running"
  /\ IF Networked
       THEN \A t \in Subscriptions : reader[t] = "gone"
       ELSE stopping
  /\ consumer' = "gone"
  /\ Exit("nil")
  /\ UNCHANGED <<relay, stopping, dispatcher, reader, connected, loop,
                 firstError, terminated, troubles>>

Turn(t, step) ==
  /\ reader' = [reader EXCEPT ![t] = step]
  /\ UNCHANGED <<relay, stopping, dispatcher, consumer, connected, exits,
                 loop, firstError, record>>

ReaderReceives(t) == reader[t] = "waiting" /\ connected /\ Turn(t, "handling")

ReaderHandled(t) == reader[t] = "handling" /\ Turn(t, "waiting")

\* Broken on purpose: only the end of the deliveries ends a reader.
ReaderEnds_OnlyWhenLost(t) ==
  /\ reader[t] = "waiting"
  /\ ~connected
  /\ Turn(t, "gone")

\* The context is cancelled, or the channel of deliveries is closed.
ReaderEnds(t) ==
  /\ reader[t] = "waiting"
  /\ stopping \/ ~connected
  /\ Turn(t, "gone")

-----------------------------------------------------------------------------
(* What happens to the process.                                            *)

Terminate ==
  /\ ~terminated /\ loop # "exited"
  /\ terminated' = TRUE
  /\ stopping' = TRUE
  /\ UNCHANGED <<relay, loops, exits, loop, firstError, troubles, returned>>

\* Outside development a metrics server that fails cancels the context.
MetricsLost ==
  /\ ~stopping /\ Trouble
  /\ stopping' = TRUE
  /\ UNCHANGED <<relay, loops, exits, loop, firstError, terminated, returned>>

\* The broker closes the connection; kafka reconnects by itself.
ConnectionDrops ==
  /\ relay = "rabbitmq" /\ connected /\ loop # "exited" /\ Trouble
  /\ connected' = FALSE
  /\ UNCHANGED <<relay, stopping, dispatcher, consumer, reader, exits, loop,
                 firstError, terminated, returned>>

-----------------------------------------------------------------------------
(* main: loop, then the deferred closings.                                 *)

\* Broken on purpose: the first exit is noted and nothing is cancelled.
FirstExit_NoStop ==
  /\ loop = "first" /\ exits # <<>>
  /\ firstError' = Head(exits)
  /\ exits' = Tail(exits)
  /\ loop' = "second"
  /\ UNCHANGED <<relay, stopping, loops, record>>

FirstExit ==
  /\ loop = "first" /\ exits # <<>>
  /\ firstError' = Head(exits)
  /\ exits' = Tail(exits)
  /\ stopping' = TRUE
  /\ loop' = "second"
  /\ UNCHANGED <<relay, loops, record>>

\* The second result only counts when the first was no error.
SecondExit ==
  /\ loop = "second" /\ exits # <<>>
  /\ firstError' = IF firstError = "error" THEN firstError ELSE Head(exits)
  /\ exits' = Tail(exits)
  /\ loop' = "closing"
  /\ UNCHANGED <<relay, stopping, loops, record>>

\* The broker, then the pool and the cache.
Close ==
  /\ loop = "closing"
  /\ loop' = "exited"
  /\ connected' = FALSE
  /\ UNCHANGED <<relay, stopping, dispatcher, consumer, reader, exits,
                 firstError, record>>

-----------------------------------------------------------------------------
Dispatcher == DrainEnds \/ DispatcherEnds
Consumer == ConsumerStarts \/ ConsumerFails \/ ConsumerEnds
Reader(t) == ReaderHandled(t) \/ ReaderEnds(t)
Loop == FirstExit \/ SecondExit \/ Close

LoopsNext ==
  \/ Poll \/ Dispatcher \/ Consumer \/ Loop
  \/ \E t \in Subscriptions : ReaderReceives(t) \/ Reader(t)
  \/ Terminate \/ MetricsLost \/ ConnectionDrops

LoopsSpec == LoopsInit /\ [][LoopsNext]_loopsVars

\* Every goroutine is scheduled and every handler returns.  A select between a
\* cancelled context and a ready ticker or delivery is fair: it ends up taking
\* the context.
FairLoops ==
  /\ WF_loopsVars(DrainEnds) /\ SF_loopsVars(DispatcherEnds)
  /\ WF_loopsVars(Consumer) /\ WF_loopsVars(Loop)
  /\ \A t \in Subscriptions :
       WF_loopsVars(ReaderHandled(t)) /\ SF_loopsVars(ReaderEnds(t))

-----------------------------------------------------------------------------
(* Properties.                                                             *)

\* boucles.go, kafka.go, rabbitmq.go: whichever loop fails, and whichever ends
\* first, the process says so; and since a handler still running holds a
\* reservation, none is left behind, unless the consumer gave up half-way
\* through its bindings.
StopsInOrder ==
  /\ loop = "exited" /\ "error" \in returned => firstError = "error"
  /\ loop \in {"closing", "exited"} /\ "error" \notin returned =>
       \A t \in Subscriptions : reader[t] # "handling"

\* boucles.go: "The failure of one must stop the other", or a dispatcher would
\* go on publishing to nobody.
OneGoneEndsAll ==
  dispatcher = "gone" \/ consumer = "gone" ~> loop = "exited"

\* A signal is honoured, wherever the loops are.
SignalIsHonoured == terminated ~> loop = "exited"

\* abonnement.go: without notification "the events are published and nobody
\* reacts to them" - the dispatcher only stops when asked to or in trouble.
DispatchesUntilAsked ==
  dispatcher = "gone" => terminated \/ troubles > 0
=============================================================================
