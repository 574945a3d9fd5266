------------------------------- MODULE Relays -------------------------------
(***************************************************************************)
(* The two network relays: the dispatcher publishes with a bounded retry,  *)
(* the broker receives and keeps the message, the readers of a consumer    *)
(* group hand it to the handler and then commit its offset (kafka) or      *)
(* acknowledge it (rabbitmq).  The events are those of one type and one    *)
(* aggregate, in the order they were enqueued: one partition, one queue.   *)
(***************************************************************************)
EXTENDS Naturals, Sequences, FiniteSets, Functions

CONSTANTS
  NMessages,   \* events of the aggregate
  Readers,     \* replicas of the consumer group
  Sites        \* the deployments considered

Messages == 1..NMessages

ASSUME MessagesAssumption == NMessages \in Nat
ASSUME ReadersAssumption == IsFiniteSet(Readers)
ASSUME SitesAssumption ==
  Sites \subseteq [relay : {"kafka", "rabbitmq"},
                   queue : BOOLEAN,   \* rabbitmq: an earlier run declared it
                   unreadable : SUBSET Messages,  \* cannot be decoded
                   maxRefusals : Nat, \* bound: handlers that return an error
                   maxTroubles : Nat] \* bound: attempts, commits, connections
                                      \* and processes lost

\* The deployment, settled before the program starts.
VARIABLE site

Unreadable == site.unreadable

VARIABLES
  sending,   \* the message being published, as a set
  tries,     \* attempts WithRetry has made for it
  sent,      \* messages whose publication returned no error
  delayed,   \* messages whose publication failed: the outbox reschedules them
  written,   \* rabbitmq: published messages the broker has yet to receive
  log,       \* kafka: the partition
  committed, \* kafka: the offset of the group
  bound,     \* rabbitmq: the queue is declared and bound
  ready,     \* rabbitmq: copies of each message waiting in the queue
  attached,  \* the reader has the partition, or its channel is open
  position,  \* kafka: the offset the reader has fetched
  pc,        \* "idle", "handling" or "settle"
  current,   \* the message the reader is handling, as a set
  offset     \* kafka: its offset

\* History: what the handlers did, what the broker had no queue for or never
\* received, and what went wrong.
VARIABLES handled, refused, dropped, vanished, troubles

publisher == <<sending, tries, sent, delayed>>
wire == <<written, vanished>>
broker == <<log, committed, bound, ready, dropped>>
reader == <<attached, position, pc, current, offset>>
history == <<handled, refused>>
vars == <<site, publisher, wire, broker, reader, history, troubles>>

Init ==
  /\ site \in Sites
  /\ sending = {} /\ tries = 0 /\ sent = {} /\ delayed = {}
  /\ written = {} /\ vanished = {}
  /\ log = <<>> /\ committed = 0
  /\ bound = site.queue /\ ready = [m \in Messages |-> 0]
  /\ attached = [r \in Readers |-> FALSE]
  /\ position = [r \in Readers |-> 0]
  /\ pc = [r \in Readers |-> "idle"]
  /\ current = [r \in Readers |-> {}]
  /\ offset = [r \in Readers |-> 0]
  /\ handled = [m \in Messages |-> 0]
  /\ refused = [m \in Messages |-> 0]
  /\ dropped = {} /\ troubles = 0

Trouble == troubles < site.maxTroubles /\ troubles' = troubles + 1

Goto(r, step) == pc' = [pc EXCEPT ![r] = step]

\* A count per message, one more for the message a reader is handling.
Counted(count, r) ==
  [m \in Messages |-> IF m \in current[r] THEN count[m] + 1 ELSE count[m]]

-----------------------------------------------------------------------------
(* Publication.                                                            *)

publishAttempts == 3

\* What the dispatcher is told, and what it makes of it.
Outcome(m, ok) ==
  /\ sent' = IF ok THEN sent \union {m} ELSE sent
  /\ delayed' = IF ok THEN delayed \ {m} ELSE delayed \union {m}

\* One dispatcher takes the messages in order; those it failed to publish wait
\* for their next attempt and no longer hold the others back.
Publish(m) ==
  /\ sending = {} /\ m \notin sent
  /\ \A k \in 1..(m - 1) : k \in sent \union delayed
  /\ sending' = {m} /\ tries' = 0
  /\ UNCHANGED <<site, sent, delayed, wire, broker, reader, history, troubles>>

\* The broker has the message: at the end of the partition, or in the queue if
\* there is one (mandatory is FALSE: otherwise it drops the message).
Accept(m) ==
  /\ log' = IF site.relay = "kafka" THEN Append(log, m) ELSE log
  /\ ready' = IF site.relay = "rabbitmq" /\ bound THEN [ready EXCEPT ![m] = @ + 1]
              ELSE ready
  /\ dropped' = IF site.relay = "rabbitmq" /\ ~bound THEN dropped \union {m}
                ELSE dropped
  /\ UNCHANGED <<committed, bound>>

\* kafka answers when it has the message (RequireAll).  The channel of rabbitmq
\* is not in confirm mode: no error means that the frame was written.
AttemptSucceeds(m) ==
  /\ m \in sending
  /\ IF site.relay = "kafka"
       THEN Accept(m) /\ UNCHANGED wire
       ELSE written' = written \union {m} /\ UNCHANGED <<broker, vanished>>
  /\ sending' = {} /\ tries' = 0
  /\ Outcome(m, TRUE)
  /\ UNCHANGED <<site, reader, history, troubles>>

\* The broker receives a frame.
Arrive(m) ==
  /\ m \in written
  /\ written' = written \ {m}
  /\ Accept(m)
  /\ UNCHANGED <<site, publisher, vanished, reader, history, troubles>>

\* The publisher's connection is lost, or the broker before it has stored them,
\* and the frames under way with it.
LoseFrames ==
  /\ written # {}
  /\ Trouble
  /\ vanished' = vanished \union written
  /\ written' = {}
  /\ UNCHANGED <<site, publisher, broker, reader, history>>

\* The error may come after the broker has accepted the message.
AttemptFails(m) ==
  /\ m \in sending
  /\ Trouble
  /\ Accept(m) \/ UNCHANGED broker
  /\ IF tries + 1 < publishAttempts
       THEN tries' = tries + 1 /\ UNCHANGED <<sending, sent, delayed>>
       ELSE tries' = 0 /\ sending' = {} /\ Outcome(m, FALSE)
  /\ UNCHANGED <<site, wire, reader, history>>

\* The context is cancelled while WithRetry waits: the dispatcher can record
\* nothing, and a later one finds the message where it was.
Interrupted(m) ==
  /\ m \in sending /\ tries > 0
  /\ sending' = {} /\ tries' = 0
  /\ UNCHANGED <<site, sent, delayed, wire, broker, reader, history, troubles>>

-----------------------------------------------------------------------------
(* The broker gives a reader its share, and takes it back.                 *)

\* Broken on purpose: a new reader starts at the end of the partition.
Attach_FromEnd(r) ==
  /\ ~attached[r]
  /\ attached' = [attached EXCEPT ![r] = TRUE]
  /\ \A s \in Readers : ~attached[s]
  /\ position' = [position EXCEPT ![r] = Len(log)]
  /\ UNCHANGED <<site, publisher, wire, broker, pc, current, offset, history, troubles>>

\* kafka: the group gives the partition to one reader, from the committed
\* offset.  rabbitmq: Run declares and binds the queue, then consumes.
Attach(r) ==
  /\ ~attached[r]
  /\ attached' = [attached EXCEPT ![r] = TRUE]
  /\ IF site.relay = "kafka"
       THEN /\ \A s \in Readers : ~attached[s]
            /\ position' = [position EXCEPT ![r] = committed]
            /\ UNCHANGED broker
       ELSE /\ pc[r] = "idle"
            /\ bound' = TRUE
            /\ UNCHANGED <<log, committed, ready, dropped, position>>
  /\ UNCHANGED <<site, publisher, wire, pc, current, offset, history, troubles>>

\* rabbitmq: what was not acknowledged goes back to the queue.
Requeue(r) ==
  /\ ready' = IF site.relay = "rabbitmq" /\ attached[r] THEN Counted(ready, r)
              ELSE ready
  /\ UNCHANGED <<log, committed, bound, dropped>>

\* A rebalance or a lost connection, the handler still running.
Detach(r) ==
  /\ attached[r]
  /\ Trouble
  /\ Requeue(r)
  /\ attached' = [attached EXCEPT ![r] = FALSE]
  /\ UNCHANGED <<site, publisher, wire, position, pc, current, offset, history>>

\* The process of the reader disappears.
Crash(r) ==
  /\ attached[r] \/ pc[r] # "idle"
  /\ Trouble
  /\ Requeue(r)
  /\ attached' = [attached EXCEPT ![r] = FALSE]
  /\ Goto(r, "idle")
  /\ current' = [current EXCEPT ![r] = {}]
  /\ UNCHANGED <<site, publisher, wire, position, offset, history>>

-----------------------------------------------------------------------------
(* consume.                                                                *)

\* FetchMessage goes on from the last message fetched, committed or not.
Fetch(r) ==
  /\ site.relay = "kafka" /\ pc[r] = "idle" /\ attached[r]
  /\ position[r] < Len(log)
  /\ position' = [position EXCEPT ![r] = @ + 1]
  /\ offset' = [offset EXCEPT ![r] = position[r] + 1]
  /\ current' = [current EXCEPT ![r] = {log[position[r] + 1]}]
  /\ Goto(r, "handling")
  /\ UNCHANGED <<site, publisher, wire, broker, attached, history, troubles>>

Receive(r) ==
  /\ site.relay = "rabbitmq" /\ pc[r] = "idle" /\ attached[r]
  /\ \E m \in Messages :
       /\ ready[m] > 0
       /\ ready' = [ready EXCEPT ![m] = @ - 1]
       /\ current' = [current EXCEPT ![r] = {m}]
  /\ Goto(r, "handling")
  /\ UNCHANGED <<site, publisher, wire, log, committed, bound, dropped, attached,
                 position, offset, history, troubles>>

\* The reader turns to the next message.
Proceed(r) ==
  /\ Goto(r, "idle")
  /\ current' = [current EXCEPT ![r] = {}]
  /\ UNCHANGED <<attached, position, offset>>

HandlerSucceeds(r) ==
  /\ pc[r] = "handling" /\ current[r] \intersect Unreadable = {}
  /\ handled' = Counted(handled, r)
  /\ Goto(r, "settle")
  /\ UNCHANGED <<site, publisher, wire, broker, attached, position, current,
                 offset, refused, troubles>>

Refusals == FoldFunction(LAMBDA n, k : n + k, 0, refused)

\* Broken on purpose: a refused message is not put back in the queue.
HandlerFails_Drops(r) ==
  /\ pc[r] = "handling" /\ current[r] \intersect Unreadable = {}
  /\ Refusals < site.maxRefusals
  /\ refused' = Counted(refused, r)
  /\ Proceed(r)
  /\ UNCHANGED <<site, publisher, wire, broker, handled, troubles>>

\* kafka: no commit, on to the next one.  rabbitmq: nack with requeue.
HandlerFails(r) ==
  /\ pc[r] = "handling" /\ current[r] \intersect Unreadable = {}
  /\ Refusals < site.maxRefusals
  /\ refused' = Counted(refused, r)
  /\ Requeue(r)
  /\ Proceed(r)
  /\ UNCHANGED <<site, publisher, wire, handled, troubles>>

\* An envelope that cannot be decoded is settled like a handled one; rabbitmq
\* does it with a nack that does not requeue.
Unread(r) ==
  /\ pc[r] = "handling" /\ current[r] \subseteq Unreadable
  /\ Goto(r, "settle")
  /\ UNCHANGED <<site, publisher, wire, broker, attached, position, current,
                 offset, history, troubles>>

\* Broken on purpose: the whole partition is committed.
Commit_Everything(r) ==
  /\ pc[r] = "settle"
  /\ committed' = IF site.relay = "kafka" /\ attached[r] THEN Len(log)
                  ELSE committed
  /\ Proceed(r)
  /\ UNCHANGED <<site, publisher, wire, log, bound, ready, dropped, history, troubles>>

\* The offset moves past the message, or the queue forgets it; neither for a
\* reader whose partition or channel is gone.
Commit(r) ==
  /\ pc[r] = "settle"
  /\ committed' = IF site.relay = "kafka" /\ attached[r] THEN offset[r]
                  ELSE committed
  /\ Proceed(r)
  /\ UNCHANGED <<site, publisher, wire, log, bound, ready, dropped, history, troubles>>

\* kafka: a failed commit is only logged.
CommitFails(r) ==
  /\ site.relay = "kafka" /\ pc[r] = "settle" /\ attached[r]
  /\ Trouble
  /\ Proceed(r)
  /\ UNCHANGED <<site, publisher, wire, broker, history>>

-----------------------------------------------------------------------------
Attempt(m) == AttemptSucceeds(m) \/ AttemptFails(m) \/ Interrupted(m)

Consume(r) ==
  \/ Fetch(r) \/ Receive(r)
  \/ HandlerSucceeds(r) \/ HandlerFails(r) \/ Unread(r)
  \/ Commit(r) \/ CommitFails(r)

Next ==
  \/ \E m \in Messages : Publish(m) \/ Attempt(m) \/ Arrive(m)
  \/ LoseFrames
  \/ \E r \in Readers : Attach(r) \/ Detach(r) \/ Crash(r) \/ Consume(r)

Spec == Init /\ [][Next]_vars

\* The dispatcher comes back to what it has not published, a frame arrives or
\* its connection is lost, the group always finds a reader, handlers return.
FairSpec ==
  /\ Spec
  /\ \A m \in Messages : SF_vars(Publish(m)) /\ WF_vars(Attempt(m)) /\ WF_vars(Arrive(m))
  /\ \A r \in Readers : SF_vars(Attach(r)) /\ WF_vars(Consume(r))

-----------------------------------------------------------------------------
(* Properties.                                                             *)

\* The message is under way, or the broker will still deliver it to somebody.
InTransit(m) ==
  \/ m \in written
  \/ \E i \in (committed + 1)..Len(log) : log[i] = m
  \/ ready[m] > 0
  \/ \E r \in Readers :
       site.relay = "rabbitmq" /\ attached[r] /\ m \in current[r]

Lost(m) ==
  m \in sent \ Unreadable /\ handled[m] = 0 /\ ~InTransit(m)

\* What was published is handled or still on its way.  kafka.go, on a message that
\* is not committed: "the message will be redelivered"; messaging.go, on the
\* handlers: "every transport here is 'at least once'".
NothingLost == \A m \in Messages : ~Lost(m)

\* The times the broker took the message in, as far as it tells them apart: a
\* partition keeps them all, a queue forgets.
Entries(m) ==
  IF site.relay = "kafka" THEN Cardinality({i \in DOMAIN log : log[i] = m}) ELSE 1

\* "at least once".  A message is lost when kafka's handler refused it, when
\* rabbitmq received it before it had the queue, or when the connection was lost
\* with the frame nobody waits to see confirmed.  Rebalances, crashes, lost
\* connections and failed commits only repeat, and each further delivery of what
\* was published is owed to something that went wrong; kafka owes it for every
\* entry, because who comes back from a rebalance commits an older offset.
AtLeastOnce ==
  \A m \in Messages :
    /\ Lost(m) => \/ m \in dropped \union vanished
                  \/ site.relay = "kafka" /\ refused[m] > 0
    /\ handled[m] <= Entries(m) * (1 + troubles)

\* What is published ends up handled, with the same three exceptions.
EventuallyHandled ==
  \A m \in Messages :
    m \in sent \ Unreadable ~>
      \/ handled[m] > 0
      \/ m \in dropped \union vanished
      \/ site.relay = "kafka" /\ refused[m] > 0
=============================================================================
