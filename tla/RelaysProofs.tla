---------------------------- MODULE RelaysProofs ----------------------------
(***************************************************************************)
(* What a network relay published is handled, was refused, dropped or lost *)
(* with its connection, or is still on its way, and no delivery is         *)
(* repeated for nothing, for any number of events, readers, refusals and   *)
(* troubles.                                                               *)
(***************************************************************************)
EXTENDS Relays, FiniteSetTheorems, TLAPS

-----------------------------------------------------------------------------
Places == {"idle", "handling", "settle"}

TypeOK ==
  /\ site \in Sites
  /\ sending \subseteq Messages /\ sent \subseteq Messages
  /\ sending \intersect sent = {}
  /\ log \in Seq(Messages) /\ committed \in Nat
  /\ written \subseteq sent /\ vanished \subseteq Messages
  /\ bound \in BOOLEAN /\ dropped \subseteq Messages
  /\ ready \in [Messages -> Nat]
  /\ handled \in [Messages -> Nat] /\ refused \in [Messages -> Nat]
  /\ attached \in [Readers -> BOOLEAN]
  /\ position \in [Readers -> Nat] /\ offset \in [Readers -> Nat]
  /\ pc \in [Readers -> Places] /\ current \in [Readers -> SUBSET Messages]
  /\ troubles \in Nat

\* Who is busy has one message, who is idle none.
OneAtATime ==
  \A r \in Readers :
    IF pc[r] = "idle" THEN current[r] = {} ELSE \E m \in Messages : current[r] = {m}

Done(m) == handled[m] > 0 \/ refused[m] > 0 \/ m \in Unreadable

\* Done with is what the owner of the partition has passed, and what precedes the
\* entry a reader works on, owner or not.
Passes(r) ==
  /\ attached[r] =>
       /\ position[r] <= Len(log)
       /\ \A i \in 1..position[r] :
            Done(log[i]) \/ (pc[r] # "idle" /\ i = offset[r])
  /\ pc[r] # "idle" =>
       /\ offset[r] \in 1..Len(log) /\ current[r] = {log[offset[r]]}
       /\ \A i \in 1..(offset[r] - 1) : Done(log[i])
  /\ pc[r] = "settle" => Done(log[offset[r]])

\* kafka: so is what is committed.
KafkaPasses ==
  site.relay = "kafka" =>
    /\ \A m \in sent : \E i \in 1..Len(log) : log[i] = m
    /\ committed <= Len(log) /\ \A i \in 1..committed : Done(log[i])
    /\ \A r, s \in Readers : attached[r] /\ attached[s] => r = s
    /\ \A r \in Readers : Passes(r)

Held(m) ==
  \/ m \in written
  \/ ready[m] > 0
  \/ \E r \in Readers : attached[r] /\ m \in current[r]

\* Nothing will come of the message any more.
Gone(m) == m \in dropped \/ m \in vanished

\* rabbitmq: what is published is dealt with, gone, under way or still held.
RabbitHolds ==
  site.relay = "rabbitmq" =>
    /\ \A m \in sent :
         Gone(m) \/ m \in Unreadable \/ handled[m] > 0 \/ Held(m)
    /\ \A r \in Readers : \A m \in current[r] :
         pc[r] = "settle" => m \in Unreadable \/ handled[m] > 0

Handling(m) == {r \in Readers : pc[r] = "handling" /\ m \in current[r]}
Upto(n, m) == {i \in 1..n : log[i] = m}

\* A reader passes each entry once between two troubles.
KafkaRepeats ==
  site.relay = "kafka" =>
    \A m \in Messages :
      /\ \A r \in Readers :
           attached[r] =>
             handled[m] + Cardinality(Handling(m))
               <= Entries(m) * troubles + Cardinality(Upto(position[r], m))
      /\ (\A r \in Readers : ~attached[r]) =>
           handled[m] + Cardinality(Handling(m)) <= Entries(m) * troubles

Underway(m) == IF m \in written THEN 1 ELSE 0

\* Each copy under way, in the queue or in hand, and each one handled, is the
\* published one or owed to a trouble.
RabbitRepeats ==
  site.relay = "rabbitmq" =>
    \A m \in Messages :
      handled[m] + Underway(m) + ready[m] + Cardinality(Handling(m))
        <= (IF m \in sent THEN 1 ELSE 0) + troubles

\* The steps outside the readers: those of the publisher, and of its connection.
Sending(m) == Publish(m) \/ Attempt(m) \/ Arrive(m) \/ LoseFrames

RelaysInv ==
  TypeOK /\ OneAtATime /\ KafkaPasses /\ RabbitHolds /\ KafkaRepeats /\ RabbitRepeats

-----------------------------------------------------------------------------
(* Types.                                                                  *)

LEMMA CountedIs ==
  ASSUME NEW count \in [Messages -> Nat], NEW r \in Readers
  PROVE  /\ Counted(count, r) \in [Messages -> Nat]
         /\ \A m \in Messages : Counted(count, r)[m] >= count[m]
         /\ \A m \in current[r] \intersect Messages : Counted(count, r)[m] = count[m] + 1
         /\ \A m \in Messages \ current[r] : Counted(count, r)[m] = count[m]
BY DEF Counted

LEMMA SiteIs ==
  ASSUME site \in Sites
  PROVE  /\ site.relay \in {"kafka", "rabbitmq"} /\ site.queue \in BOOLEAN
         /\ site.unreadable \subseteq Messages
BY SitesAssumption

LEMMA TypeInitially == Init => TypeOK /\ OneAtATime
<1> SUFFICES ASSUME Init PROVE TypeOK /\ OneAtATime
  OBVIOUS
<1>1. site.queue \in BOOLEAN
  BY SiteIs DEF Init
<1>2. 0 \in Nat /\ "idle" \in Places
  BY DEF Places
<1>3. log \in Seq(Messages) /\ committed \in Nat
  BY DEF Init
<1> QED
  BY <1>1, <1>2, <1>3 DEF Init, TypeOK, OneAtATime

\* The publisher: the entry goes to the end of the partition, or in the queue.
LEMMA AcceptType ==
  ASSUME TypeOK, NEW m \in Messages, Accept(m)
  PROVE  /\ log' \in Seq(Messages) /\ committed' \in Nat
         /\ bound' \in BOOLEAN /\ dropped' \subseteq Messages
         /\ ready' \in [Messages -> Nat]
<1>1. committed' = committed /\ bound' = bound
  BY DEF Accept
<1>2. log' = log \/ log' = Append(log, m)
  BY DEF Accept
<1>3. log' \in Seq(Messages)
  <2>1. log \in Seq(Messages) /\ Append(log, m) \in Seq(Messages)
    BY DEF TypeOK
  <2> QED
    BY <1>2, <2>1
<1>4. ready' = ready \/ ready' = [ready EXCEPT ![m] = @ + 1]
  BY DEF Accept
<1>5. ready' \in [Messages -> Nat]
  <2>1. ready \in [Messages -> Nat] /\ ready[m] + 1 \in Nat
    BY DEF TypeOK
  <2> QED
    BY <1>4, <2>1
<1>6. dropped' \subseteq Messages
  BY DEF Accept, TypeOK
<1> QED
  BY <1>1, <1>3, <1>5, <1>6 DEF TypeOK

LEMMA PublisherType ==
  ASSUME TypeOK, NEW m \in Messages, Sending(m)
  PROVE  TypeOK'
<1>1. UNCHANGED <<site, reader, history>>
  BY DEF Sending, Publish, Attempt, AttemptSucceeds, AttemptFails, Interrupted,
     Arrive, LoseFrames
<1>2. CASE Publish(m) \/ Interrupted(m)
  BY <1>2 DEF Publish, Interrupted, TypeOK, wire, reader, history, broker
<1>3. CASE AttemptSucceeds(m) \/ AttemptFails(m) \/ Arrive(m) \/ LoseFrames
  <2>1. Accept(m) \/ UNCHANGED broker
    BY <1>3 DEF AttemptSucceeds, AttemptFails, Arrive, LoseFrames
  <2>2. /\ log' \in Seq(Messages) /\ committed' \in Nat
        /\ bound' \in BOOLEAN /\ dropped' \subseteq Messages
        /\ ready' \in [Messages -> Nat]
    BY <2>1, AcceptType DEF TypeOK, broker
  <2>3. /\ sending' \subseteq Messages /\ sent' \subseteq Messages
        /\ sending' \intersect sent' = {}
        /\ written' \subseteq sent' /\ vanished' \subseteq Messages
    <3>1. CASE AttemptSucceeds(m)
      BY <3>1 DEF AttemptSucceeds, Outcome, TypeOK, wire
    <3>2. CASE AttemptFails(m)
      <4>1. /\ sent' = sent /\ (sending' = sending \/ sending' = {})
            /\ written' = written /\ vanished' = vanished
        BY <3>2 DEF AttemptFails, Outcome, wire
      <4> QED
        BY <4>1 DEF TypeOK
    <3>3. CASE Arrive(m) \/ LoseFrames
      BY <3>3 DEF Arrive, LoseFrames, TypeOK, publisher
    <3> QED
      BY <1>3, <3>1, <3>2, <3>3
  <2>4. troubles' \in Nat
    <3>1. troubles' = troubles \/ troubles' = troubles + 1
      BY <1>3 DEF AttemptSucceeds, AttemptFails, Arrive, LoseFrames, Trouble
    <3> QED
      BY <3>1 DEF TypeOK
  <2> QED
    BY <1>1, <2>2, <2>3, <2>4 DEF TypeOK, reader, history
<1> QED
  BY <1>2, <1>3 DEF Sending, Attempt

LEMMA ReaderType ==
  ASSUME TypeOK, NEW r \in Readers, Attach(r) \/ Detach(r) \/ Crash(r) \/ Consume(r)
  PROVE  TypeOK'
<1>1. UNCHANGED <<site, sending, sent, written, vanished>>
  BY DEF Attach, Detach, Crash, Consume, Fetch, Receive, HandlerSucceeds,
     HandlerFails, Unread, Commit, CommitFails, publisher, wire
<1>2. troubles' \in Nat
  BY DEF Attach, Detach, Crash, Consume, Fetch, Receive, HandlerSucceeds,
     HandlerFails, Unread, Commit, CommitFails, Trouble, TypeOK
<1>3. log' = log
  BY DEF Attach, Detach, Crash, Consume, Fetch, Receive, HandlerSucceeds,
     HandlerFails, Unread, Commit, CommitFails, Requeue, broker
<1>10. committed' \in Nat
  BY DEF Attach, Detach, Crash, Consume, Fetch, Receive, HandlerSucceeds,
     HandlerFails, Unread, Commit, CommitFails, Requeue, broker, TypeOK
<1>4. bound' \in BOOLEAN /\ dropped' \subseteq Messages
  BY DEF Attach, Detach, Crash, Consume, Fetch, Receive, HandlerSucceeds,
     HandlerFails, Unread, Commit, CommitFails, Requeue, broker, TypeOK
<1>5. attached' \in [Readers -> BOOLEAN] /\ pc' \in [Readers -> Places]
  BY DEF Attach, Detach, Crash, Consume, Fetch, Receive, HandlerSucceeds,
     HandlerFails, Unread, Commit, CommitFails, Proceed, Goto, Places, TypeOK
<1>6. position' \in [Readers -> Nat] /\ offset' \in [Readers -> Nat]
  <2>1. CASE Attach(r)
    BY <2>1 DEF Attach, TypeOK
  <2>2. CASE Fetch(r)
    BY <2>2 DEF Fetch, TypeOK
  <2> QED
    BY <2>1, <2>2 DEF Detach, Crash, Consume, Receive, HandlerSucceeds,
       HandlerFails, Unread, Commit, CommitFails, Proceed, TypeOK
<1>7. current' \in [Readers -> SUBSET Messages]
  <2>1. CASE Fetch(r)
    <3>1. log[position[r] + 1] \in Messages
      BY <2>1 DEF Fetch, TypeOK
    <3> QED
      BY <2>1, <3>1 DEF Fetch, TypeOK
  <2>2. CASE Receive(r)
    BY <2>2 DEF Receive, TypeOK
  <2> QED
    BY <2>1, <2>2 DEF Attach, Detach, Crash, Consume, HandlerSucceeds,
       HandlerFails, Unread, Commit, CommitFails, Proceed, TypeOK
<1>8. handled' \in [Messages -> Nat] /\ refused' \in [Messages -> Nat]
  <2>1. \/ handled' = handled \/ handled' = Counted(handled, r)
    BY DEF Attach, Detach, Crash, Consume, Fetch, Receive, HandlerSucceeds,
       HandlerFails, Unread, Commit, CommitFails, history
  <2>2. \/ refused' = refused \/ refused' = Counted(refused, r)
    BY DEF Attach, Detach, Crash, Consume, Fetch, Receive, HandlerSucceeds,
       HandlerFails, Unread, Commit, CommitFails, history
  <2>3. handled \in [Messages -> Nat] /\ refused \in [Messages -> Nat]
    BY DEF TypeOK
  <2>4. Counted(handled, r) \in [Messages -> Nat]
        /\ Counted(refused, r) \in [Messages -> Nat]
    BY <2>3, CountedIs
  <2> QED
    BY <2>1, <2>2, <2>3, <2>4
<1>9. ready' \in [Messages -> Nat]
  <2>0. ready \in [Messages -> Nat]
    BY DEF TypeOK
  <2>1. CASE Receive(r)
    <3>1. PICK m \in Messages : ready[m] > 0 /\ ready' = [ready EXCEPT ![m] = @ - 1]
      BY <2>1 DEF Receive
    <3>2. ready[m] - 1 \in Nat
      BY <2>0, <3>1
    <3> QED
      BY <2>0, <3>1, <3>2
  <2>2. CASE ready' = ready \/ ready' = Counted(ready, r)
    BY <2>0, <2>2, CountedIs
  <2>3. Receive(r) \/ ready' = ready \/ ready' = Counted(ready, r)
    BY DEF Attach, Detach, Crash, Consume, Fetch, HandlerSucceeds,
       HandlerFails, Unread, Commit, CommitFails, Requeue, broker
  <2> QED
    BY <2>1, <2>2, <2>3
<1> QED
  BY <1>1, <1>2, <1>3, <1>4, <1>5, <1>6, <1>7, <1>8, <1>9, <1>10 DEF TypeOK

-----------------------------------------------------------------------------
(* What a step touches.                                                    *)

\* A step of a reader is its own.
LEMMA OthersStay ==
  ASSUME TypeOK, NEW r \in Readers, Attach(r) \/ Detach(r) \/ Crash(r) \/ Consume(r)
  PROVE  /\ UNCHANGED <<site, sent, written, vanished, log>>
         /\ \A s \in Readers \ {r} :
              /\ attached'[s] = attached[s] /\ position'[s] = position[s]
              /\ offset'[s] = offset[s]
              /\ pc'[s] = pc[s] /\ current'[s] = current[s]
<1>1. UNCHANGED <<site, sent, written, vanished, log>>
  BY DEF Attach, Detach, Crash, Consume, Fetch, Receive, HandlerSucceeds,
     HandlerFails, Unread, Commit, CommitFails, Requeue, publisher, wire, broker
<1>2. ASSUME NEW s \in Readers \ {r}
      PROVE  attached'[s] = attached[s] /\ position'[s] = position[s]
  BY <1>2 DEF Attach, Detach, Crash, Consume, Fetch, Receive, HandlerSucceeds,
     HandlerFails, Unread, Commit, CommitFails, Proceed, TypeOK
<1>3. ASSUME NEW s \in Readers \ {r}
      PROVE  offset'[s] = offset[s]
  BY <1>3 DEF Attach, Detach, Crash, Consume, Fetch, Receive, HandlerSucceeds,
     HandlerFails, Unread, Commit, CommitFails, Proceed, TypeOK
<1>4. ASSUME NEW s \in Readers \ {r}
      PROVE  pc'[s] = pc[s]
  BY <1>4 DEF Attach, Detach, Crash, Consume, Fetch, Receive, HandlerSucceeds,
     HandlerFails, Unread, Commit, CommitFails, Proceed, Goto, TypeOK
<1>5. ASSUME NEW s \in Readers \ {r}
      PROVE  current'[s] = current[s]
  BY <1>5 DEF Attach, Detach, Crash, Consume, Fetch, Receive, HandlerSucceeds,
     HandlerFails, Unread, Commit, CommitFails, Proceed, TypeOK
<1> QED
  BY <1>1, <1>2, <1>3, <1>4, <1>5

\* What each step makes of its reader.
LEMMA ReaderBecomes ==
  ASSUME TypeOK, NEW r \in Readers
  PROVE  /\ Attach(r) => pc'[r] = pc[r] /\ current'[r] = current[r]
                         /\ offset'[r] = offset[r] /\ ~attached[r] /\ attached'[r]
         /\ Detach(r) => pc'[r] = pc[r] /\ current'[r] = current[r]
                         /\ offset'[r] = offset[r] /\ attached[r] /\ ~attached'[r]
         /\ Crash(r) => pc'[r] = "idle" /\ current'[r] = {} /\ ~attached'[r]
         /\ Fetch(r) => /\ pc[r] = "idle" /\ pc'[r] = "handling"
                        /\ attached[r] /\ attached'[r] /\ position[r] < Len(log)
                        /\ position'[r] = position[r] + 1
                        /\ offset'[r] = position[r] + 1
                        /\ current'[r] = {log[position[r] + 1]}
         /\ Receive(r) => /\ pc[r] = "idle" /\ pc'[r] = "handling"
                          /\ attached[r] /\ attached'[r] = attached[r]
         /\ HandlerSucceeds(r) \/ Unread(r) =>
              /\ pc[r] = "handling" /\ pc'[r] = "settle" /\ current'[r] = current[r]
              /\ attached'[r] = attached[r] /\ position'[r] = position[r]
              /\ offset'[r] = offset[r]
         /\ HandlerFails(r) \/ Commit(r) \/ CommitFails(r) =>
              /\ pc[r] # "idle" /\ pc'[r] = "idle" /\ current'[r] = {}
              /\ attached'[r] = attached[r] /\ position'[r] = position[r]
              /\ offset'[r] = offset[r]
<1> USE DEF TypeOK, Goto, Proceed
<1>1. Attach(r) => pc'[r] = pc[r] /\ current'[r] = current[r]
                   /\ offset'[r] = offset[r] /\ ~attached[r] /\ attached'[r]
  BY DEF Attach
<1>2. Detach(r) => pc'[r] = pc[r] /\ current'[r] = current[r]
                   /\ offset'[r] = offset[r] /\ attached[r] /\ ~attached'[r]
  BY DEF Detach
<1>3. Crash(r) => pc'[r] = "idle" /\ current'[r] = {} /\ ~attached'[r]
  BY DEF Crash
<1>4. Fetch(r) => /\ pc[r] = "idle" /\ pc'[r] = "handling"
                  /\ attached[r] /\ attached'[r] /\ position[r] < Len(log)
                  /\ position'[r] = position[r] + 1
                  /\ offset'[r] = position[r] + 1
                  /\ current'[r] = {log[position[r] + 1]}
  BY DEF Fetch
<1>5. Receive(r) => /\ pc[r] = "idle" /\ pc'[r] = "handling"
                    /\ attached[r] /\ attached'[r] = attached[r]
  BY DEF Receive
<1>6. HandlerSucceeds(r) \/ Unread(r) =>
        /\ pc[r] = "handling" /\ pc'[r] = "settle" /\ current'[r] = current[r]
        /\ attached'[r] = attached[r] /\ position'[r] = position[r]
        /\ offset'[r] = offset[r]
  BY DEF HandlerSucceeds, Unread
<1>7. HandlerFails(r) \/ Commit(r) \/ CommitFails(r) =>
        /\ pc[r] # "idle" /\ pc'[r] = "idle" /\ current'[r] = {}
        /\ attached'[r] = attached[r] /\ position'[r] = position[r]
        /\ offset'[r] = offset[r]
  BY DEF HandlerFails, Commit, CommitFails
<1> QED
  BY <1>1, <1>2, <1>3, <1>4, <1>5, <1>6, <1>7

LEMMA OneStep ==
  ASSUME TypeOK, OneAtATime, NEW r \in Readers,
         Attach(r) \/ Detach(r) \/ Crash(r) \/ Consume(r)
  PROVE  OneAtATime'
<1>1. IF pc'[r] = "idle" THEN current'[r] = {}
      ELSE \E m \in Messages : current'[r] = {m}
  <2>1. CASE Attach(r) \/ Detach(r) \/ HandlerSucceeds(r) \/ Unread(r)
    <3>1. current'[r] = current[r] /\ (pc'[r] = pc[r] \/ (pc[r] # "idle" /\ pc'[r] = "settle"))
      BY <2>1, ReaderBecomes
    <3> QED
      BY <3>1 DEF OneAtATime
  <2>2. CASE Crash(r) \/ HandlerFails(r) \/ Commit(r) \/ CommitFails(r)
    BY <2>2, ReaderBecomes
  <2>3. CASE Fetch(r)
    <3>1. log[position[r] + 1] \in Messages
      BY <2>3 DEF Fetch, TypeOK
    <3> QED
      BY <2>3, <3>1, ReaderBecomes
  <2>4. CASE Receive(r)
    <3>1. \E m \in Messages : current'[r] = {m}
      BY <2>4 DEF Receive, TypeOK
    <3> QED
      BY <2>4, <3>1, ReaderBecomes
  <2> QED
    BY <2>1, <2>2, <2>3, <2>4 DEF Consume
<1> QED
  BY <1>1, OthersStay DEF OneAtATime

LEMMA SomeoneMoves ==
  ASSUME TypeOK, Next
  PROVE  \/ \E m \in Messages : Sending(m)
         \/ \E r \in Readers : Attach(r) \/ Detach(r) \/ Crash(r) \/ Consume(r)
<1>1. LoseFrames => \E m \in Messages : m \in written
  BY DEF LoseFrames, TypeOK
<1> QED
  BY <1>1 DEF Next, Sending

\* What is done with stays so.
LEMMA DoneStays ==
  ASSUME TypeOK, Next, NEW m \in Messages, Done(m)
  PROVE  Done(m)'
<1>1. ASSUME NEW r \in Readers, Attach(r) \/ Detach(r) \/ Crash(r) \/ Consume(r)
      PROVE  /\ site' = site
             /\ handled' = handled \/ handled' = Counted(handled, r)
             /\ refused' = refused \/ refused' = Counted(refused, r)
  BY <1>1 DEF Attach, Detach, Crash, Consume, Fetch, Receive, HandlerSucceeds,
     HandlerFails, Unread, Commit, CommitFails, history
<1>2. ASSUME NEW r \in Readers
      PROVE  Counted(handled, r)[m] >= handled[m] /\ Counted(refused, r)[m] >= refused[m]
  BY CountedIs DEF TypeOK
<1>3. ASSUME NEW k \in Messages, Sending(k)
      PROVE  UNCHANGED <<site, handled, refused>>
  BY <1>3 DEF Sending, Publish, Attempt, AttemptSucceeds, AttemptFails, Interrupted,
     Arrive, LoseFrames, history
<1>4. /\ site' = site
      /\ handled' = handled \/ \E r \in Readers : handled' = Counted(handled, r)
      /\ refused' = refused \/ \E r \in Readers : refused' = Counted(refused, r)
  BY <1>1, <1>3, SomeoneMoves
<1>5. handled[m] \in Nat /\ refused[m] \in Nat
  BY DEF TypeOK
<1>6. handled'[m] >= handled[m] /\ refused'[m] >= refused[m]
  BY <1>2, <1>4, <1>5
<1>7. handled'[m] \in Nat /\ refused'[m] \in Nat
  <2>0. handled \in [Messages -> Nat] /\ refused \in [Messages -> Nat]
    BY DEF TypeOK
  <2>1. \A r \in Readers : Counted(handled, r)[m] \in Nat /\ Counted(refused, r)[m] \in Nat
    BY <2>0, CountedIs
  <2> QED
    BY <1>4, <1>5, <2>1
<1> QED
  BY <1>4, <1>5, <1>6, <1>7 DEF Done, Unreadable

-----------------------------------------------------------------------------
(* kafka: nothing is passed over.                                          *)

\* A new entry, or none: the others are where they were.
LEMMA EntriesStay ==
  ASSUME TypeOK, NEW m \in Messages, log' = log \/ log' = Append(log, m)
  PROVE  /\ Len(log) \in Nat /\ Len(log') \in Nat /\ Len(log) <= Len(log')
         /\ \A i \in 1..Len(log) : log'[i] = log[i] /\ log[i] \in Messages
         /\ log' = Append(log, m) => Len(log') = Len(log) + 1 /\ log'[Len(log) + 1] = m
<1>1. log \in Seq(Messages)
  BY DEF TypeOK
<1> QED
  BY <1>1

LEMMA PublisherEffect ==
  ASSUME TypeOK, NEW m \in Messages, Sending(m)
  PROVE  /\ UNCHANGED <<site, reader, history, committed>>
         /\ log' = log \/ log' = Append(log, m)
         /\ \/ sent' = sent
            \/ sent' = sent \union {m} /\ site.relay = "kafka" /\ Accept(m)
            \/ sent' = sent \union {m} /\ site.relay # "kafka"
               /\ written' = written \union {m}
<1> USE DEF broker
<1>1. CASE Publish(m) \/ Interrupted(m)
  BY <1>1 DEF Publish, Interrupted
<1>2. CASE AttemptSucceeds(m)
  BY <1>2 DEF AttemptSucceeds, Outcome, Accept
<1>3. CASE AttemptFails(m)
  BY <1>3 DEF AttemptFails, Outcome, Accept
<1>4. CASE Arrive(m) \/ LoseFrames
  BY <1>4 DEF Arrive, LoseFrames, Accept, publisher
<1> QED
  BY <1>1, <1>2, <1>3, <1>4 DEF Sending, Attempt

LEMMA KafkaPassesPublisher ==
  ASSUME TypeOK, KafkaPasses, NEW m \in Messages, Sending(m)
  PROVE  KafkaPasses'
<1> SUFFICES ASSUME site.relay = "kafka", site' = site PROVE KafkaPasses'
  BY PublisherEffect DEF KafkaPasses
<1>1. /\ UNCHANGED <<attached, position, offset, pc, current, handled, refused, committed>>
      /\ log' = log \/ log' = Append(log, m)
      /\ sent' = sent \/ (sent' = sent \union {m} /\ Accept(m))
  BY PublisherEffect DEF reader, history
<1>2. /\ Len(log) \in Nat /\ Len(log') \in Nat /\ Len(log) <= Len(log')
      /\ \A i \in 1..Len(log) : log'[i] = log[i] /\ log[i] \in Messages
      /\ log' = Append(log, m) => Len(log') = Len(log) + 1 /\ log'[Len(log) + 1] = m
  BY <1>1, EntriesStay
<1>3. \A k : Done(k)' <=> Done(k)
  BY <1>1 DEF Done, Unreadable
<1>4. \A k \in sent' : \E i \in 1..Len(log') : log'[i] = k
  <2>1. \A k \in sent : \E i \in 1..Len(log) : log[i] = k
    BY DEF KafkaPasses
  <2>2. \A k \in sent : \E i \in 1..Len(log') : log'[i] = k
    BY <1>2, <2>1
  <2>3. Accept(m) => \E i \in 1..Len(log') : log'[i] = m
    BY <1>2 DEF Accept
  <2> QED
    BY <1>1, <2>2, <2>3
<1>5. committed' <= Len(log') /\ \A i \in 1..committed' : Done(log[i])' /\ log'[i] = log[i]
  <2>1. committed <= Len(log) /\ \A i \in 1..committed : Done(log[i])
    BY DEF KafkaPasses
  <2>2. committed \in Nat /\ committed' = committed
    BY <1>1 DEF TypeOK
  <2>3. \A i \in 1..committed : i \in 1..Len(log)
    BY <1>2, <2>1, <2>2
  <2>4. \A i \in 1..committed : Done(log[i])' /\ log'[i] = log[i]
    <3>1. ASSUME NEW i \in 1..committed PROVE log'[i] = log[i]
      BY <1>2, <2>3
    <3>2. ASSUME NEW i \in 1..committed PROVE Done(log[i])'
      BY <1>1, <2>1, <3>1 DEF Done, Unreadable
    <3> QED
      BY <3>1, <3>2
  <2> QED
    BY <1>2, <2>1, <2>2, <2>4
<1>6. ASSUME NEW r \in Readers PROVE Passes(r)'
  <2>1. Passes(r) /\ position[r] \in Nat /\ offset[r] \in Nat
    BY DEF KafkaPasses, TypeOK
  <2>2. attached'[r] =>
          /\ position'[r] <= Len(log')
          /\ \A i \in 1..position'[r] :
               (Done(log[i]) \/ (pc[r] # "idle" /\ i = offset[r])) /\ log'[i] = log[i]
    BY <1>1, <1>2, <2>1 DEF Passes
  <2>3. pc'[r] # "idle" =>
          /\ offset'[r] \in 1..Len(log') /\ log'[offset[r]] = log[offset[r]]
          /\ current[r] = {log[offset[r]]}
          /\ \A i \in 1..(offset[r] - 1) : Done(log[i]) /\ log'[i] = log[i]
    BY <1>1, <1>2, <2>1 DEF Passes
  <2>4. pc'[r] = "settle" => Done(log[offset[r]])
    BY <1>1, <2>1 DEF Passes
  <2> QED
    BY <1>1, <1>3, <2>2, <2>3, <2>4 DEF Passes
<1> QED
  BY <1>1, <1>3, <1>4, <1>5, <1>6 DEF KafkaPasses

LEMMA KafkaPassesReader ==
  ASSUME TypeOK, OneAtATime, KafkaPasses, NEW r \in Readers,
         Attach(r) \/ Detach(r) \/ Crash(r) \/ Consume(r)
  PROVE  KafkaPasses'
<1> SUFFICES ASSUME site.relay = "kafka", site' = site PROVE KafkaPasses'
  BY OthersStay DEF KafkaPasses
<1>0. /\ UNCHANGED <<sent, log>> /\ Len(log) \in Nat
      /\ \A i \in 1..Len(log) : log[i] \in Messages
      /\ position[r] \in Nat /\ offset[r] \in Nat /\ committed \in Nat
      /\ attached[r] \in BOOLEAN
  BY OthersStay DEF TypeOK
<1>1. \A m \in Messages : Done(m) => Done(m)'
  BY DoneStays DEF Next
<1>2. /\ \A m \in sent : \E i \in 1..Len(log) : log[i] = m
      /\ committed <= Len(log) /\ \A i \in 1..committed : Done(log[i])
      /\ \A s \in Readers : attached[s] /\ attached[r] => s = r
      /\ \A s \in Readers : Passes(s)
  BY DEF KafkaPasses
<1>3. ASSUME NEW s \in Readers \ {r}
      PROVE  Passes(s)'
  <2>1. /\ attached'[s] = attached[s] /\ position'[s] = position[s]
        /\ offset'[s] = offset[s] /\ pc'[s] = pc[s] /\ current'[s] = current[s]
        /\ position[s] \in Nat /\ offset[s] \in Nat
    BY OthersStay DEF TypeOK
  <2> QED
    BY <1>0, <1>1, <1>2, <2>1 DEF Passes
<1>4. Passes(r)' /\ committed' <= Len(log) /\ \A i \in 1..committed' : Done(log[i])'
  <2>1. CASE Attach(r)
    <3>1. position'[r] = committed /\ committed' = committed
      BY <2>1 DEF Attach, TypeOK, broker
    <3>2. pc'[r] = pc[r] /\ current'[r] = current[r] /\ offset'[r] = offset[r]
      BY <2>1, ReaderBecomes
    <3> QED
      BY <1>0, <1>1, <1>2, <3>1, <3>2 DEF Passes
  <2>2. CASE Detach(r)
    <3>1. committed' = committed
      BY <2>2 DEF Detach, Requeue
    <3>2. pc'[r] = pc[r] /\ current'[r] = current[r] /\ offset'[r] = offset[r]
          /\ ~attached'[r]
      BY <2>2, ReaderBecomes
    <3> QED
      BY <1>0, <1>1, <1>2, <3>1, <3>2 DEF Passes
  <2>3. CASE Crash(r)
    <3>1. committed' = committed
      BY <2>3 DEF Crash, Requeue
    <3>2. pc'[r] = "idle" /\ ~attached'[r]
      BY <2>3, ReaderBecomes
    <3> QED
      BY <1>0, <1>1, <1>2, <3>1, <3>2 DEF Passes
  <2>4. CASE Fetch(r)
    <3>1. committed' = committed
      BY <2>4 DEF Fetch, broker
    <3>2. /\ pc[r] = "idle" /\ pc'[r] = "handling"
          /\ attached[r] /\ attached'[r] /\ position[r] < Len(log)
          /\ position'[r] = position[r] + 1
          /\ offset'[r] = position[r] + 1
          /\ current'[r] = {log[position[r] + 1]}
      BY <2>4, ReaderBecomes
    <3>3. \A i \in 1..position[r] : Done(log[i])
      BY <1>2, <3>2 DEF Passes
    <3> QED
      BY <1>0, <1>1, <1>2, <3>1, <3>2, <3>3 DEF Passes
  <2>5. CASE HandlerSucceeds(r) \/ Unread(r)
    <3>1. committed' = committed
      BY <2>5 DEF HandlerSucceeds, Unread, broker
    <3>2. /\ pc[r] = "handling" /\ pc'[r] = "settle" /\ current'[r] = current[r]
          /\ attached'[r] = attached[r] /\ position'[r] = position[r]
          /\ offset'[r] = offset[r]
      BY <2>5, ReaderBecomes
    <3>3. /\ offset[r] \in 1..Len(log) /\ current[r] = {log[offset[r]]}
          /\ \A i \in 1..(offset[r] - 1) : Done(log[i])
      BY <1>2, <3>2 DEF Passes
    <3>4. Done(log[offset[r]])'
      <4>1. PICK m \in Messages : m = log[offset[r]] /\ m \in current[r]
        BY <1>0, <3>3
      <4>2. CASE HandlerSucceeds(r)
        <5>1. handled' = Counted(handled, r)
          BY <4>2 DEF HandlerSucceeds
        <5>2. Counted(handled, r)[m] = handled[m] + 1 /\ handled[m] \in Nat
          <6>1. handled \in [Messages -> Nat] /\ m \in current[r] \intersect Messages
            BY <4>1 DEF TypeOK
          <6> QED
            BY <6>1, CountedIs
        <5>3. Done(m)'
          BY <5>1, <5>2 DEF Done
        <5> QED
          BY <1>0, <3>2, <4>1, <5>3
      <4>3. CASE Unread(r)
        <5>1. m \in Unreadable
          BY <4>1, <4>3 DEF Unread
        <5>2. Done(m)
          BY <5>1 DEF Done
        <5>3. Done(m)'
          BY <1>1, <4>1, <5>2
        <5> QED
          BY <1>0, <3>2, <4>1, <5>3
      <4> QED
        BY <2>5, <4>2, <4>3
    <3> QED
      BY <1>0, <1>1, <1>2, <3>1, <3>2, <3>3, <3>4 DEF Passes
  <2>6. CASE HandlerFails(r)
    <3>1. committed' = committed
      BY <2>6 DEF HandlerFails, Requeue
    <3>2. /\ pc[r] # "idle" /\ pc'[r] = "idle" /\ attached'[r] = attached[r]
          /\ position'[r] = position[r] /\ offset'[r] = offset[r]
      BY <2>6, ReaderBecomes
    <3>3. offset[r] \in 1..Len(log) /\ current[r] = {log[offset[r]]}
      BY <1>2, <3>2 DEF Passes
    <3>4. Done(log[offset[r]])'
      <4>1. PICK m \in Messages : m = log[offset[r]] /\ m \in current[r]
        BY <1>0, <3>3
      <4>2. refused' = Counted(refused, r)
        BY <2>6 DEF HandlerFails
      <4>3. Counted(refused, r)[m] = refused[m] + 1 /\ refused[m] \in Nat
        <5>1. refused \in [Messages -> Nat] /\ m \in current[r] \intersect Messages
          BY <4>1 DEF TypeOK
        <5> QED
          BY <5>1, CountedIs
      <4>4. Done(m)'
        BY <4>2, <4>3 DEF Done
      <4> QED
        BY <1>0, <3>2, <4>1, <4>4
    <3> QED
      BY <1>0, <1>1, <1>2, <3>1, <3>2, <3>4 DEF Passes
  <2>7. CASE Commit(r) \/ CommitFails(r)
    <3>1. committed' \in {committed, offset[r]}
      BY <2>7 DEF Commit, CommitFails, broker
    <3>2. /\ pc[r] # "idle" /\ pc'[r] = "idle" /\ attached'[r] = attached[r]
          /\ position'[r] = position[r]
      BY <2>7, ReaderBecomes
    <3>3. pc[r] = "settle"
      BY <2>7 DEF Commit, CommitFails
    <3>4. /\ offset[r] \in 1..Len(log) /\ Done(log[offset[r]])
          /\ \A i \in 1..(offset[r] - 1) : Done(log[i])
      BY <1>2, <3>2, <3>3 DEF Passes
    <3>5. \A i \in 1..offset[r] : Done(log[i])
      BY <1>0, <3>4
    <3>6. attached[r] => position[r] <= Len(log) /\ \A i \in 1..position[r] : Done(log[i])
      BY <1>2, <3>4 DEF Passes
    <3>7. Passes(r)'
      BY <1>0, <1>1, <3>2, <3>6 DEF Passes
    <3>8. committed' <= Len(log) /\ \A i \in 1..committed' : Done(log[i])
      BY <1>2, <3>1, <3>4, <3>5
    <3>9. \A i \in 1..committed' : log[i] \in Messages
      BY <1>0, <3>1, <3>8
    <3>10. \A i \in 1..committed' : Done(log[i])'
      BY <1>0, <1>1, <3>8, <3>9
    <3> QED
      BY <3>7, <3>8, <3>10
  <2> QED
    BY <2>1, <2>2, <2>3, <2>4, <2>5, <2>6, <2>7 DEF Consume, Receive
<1>5. \A s, t \in Readers : attached'[s] /\ attached'[t] => s = t
  <2>1. \A s \in Readers \ {r} : attached'[s] = attached[s]
    BY OthersStay
  <2>2. CASE Attach(r)
    <3>1. \A s \in Readers : ~attached[s]
      BY <2>2 DEF Attach
    <3> QED
      BY <2>1, <3>1
  <2>3. attached'[r] => attached[r] \/ Attach(r)
    BY ReaderBecomes DEF Consume
  <2> QED
    BY <2>1, <2>2, <2>3 DEF KafkaPasses
<1> QED
  BY <1>0, <1>2, <1>3, <1>4, <1>5 DEF KafkaPasses

-----------------------------------------------------------------------------
(* rabbitmq: nothing is let go of.                                         *)

LEMMA RabbitHoldsPublisher ==
  ASSUME TypeOK, RabbitHolds, NEW m \in Messages, Sending(m)
  PROVE  RabbitHolds'
<1> SUFFICES ASSUME site.relay = "rabbitmq", site' = site PROVE RabbitHolds'
  BY PublisherEffect DEF RabbitHolds
<1>1. /\ UNCHANGED <<attached, pc, current, handled>>
      /\ sent' = sent \/ (sent' = sent \union {m} /\ written' = written \union {m})
  BY PublisherEffect DEF reader, history
<1>2. /\ Accept(m) \/ UNCHANGED <<ready, dropped>>
      /\ vanished \subseteq vanished'
      /\ \A k \in written : k \in written' \/ k \in vanished' \/ (k = m /\ Accept(m))
  <2>1. CASE Publish(m) \/ Interrupted(m)
    BY <2>1 DEF Publish, Interrupted, broker, wire
  <2>2. CASE AttemptSucceeds(m)
    BY <2>2 DEF AttemptSucceeds, broker
  <2>3. CASE AttemptFails(m)
    BY <2>3 DEF AttemptFails, broker, wire
  <2>4. CASE Arrive(m) \/ LoseFrames
    BY <2>4 DEF Arrive, LoseFrames, broker
  <2> QED
    BY <2>1, <2>2, <2>3, <2>4 DEF Sending, Attempt
<1>3. Accept(m) => \/ dropped' = dropped /\ ready' = [ready EXCEPT ![m] = @ + 1]
                   \/ dropped' = dropped \union {m} /\ ready' = ready
  BY DEF Accept
<1>4. \A k : Gone(k) => Gone(k)'
  BY <1>2, <1>3 DEF Gone
<1>5. \A k \in Messages : ready[k] > 0 => ready'[k] > 0
  BY <1>2, <1>3 DEF TypeOK
<1>6. Accept(m) => m \in dropped' \/ ready'[m] > 0
  <2>1. ready \in [Messages -> Nat] /\ ready[m] \in Nat
    BY DEF TypeOK
  <2> QED
    BY <1>3, <2>1
<1>7. \A k \in Messages : Held(k) => Held(k)' \/ Gone(k)'
  BY <1>1, <1>2, <1>5, <1>6 DEF Held, Gone
<1>8. sent \subseteq Messages
  BY DEF TypeOK
<1>9. ASSUME NEW k \in sent'
      PROVE  Gone(k)' \/ k \in Unreadable \/ handled[k] > 0 \/ Held(k)'
  <2>1. CASE k \in sent
    BY <1>4, <1>7, <1>8, <2>1 DEF RabbitHolds
  <2>2. CASE k \in written'
    BY <2>2 DEF Held
  <2> QED
    BY <1>1, <1>9, <2>1, <2>2
<1> QED
  BY <1>1, <1>9 DEF RabbitHolds, Unreadable

LEMMA RabbitHoldsReader ==
  ASSUME TypeOK, OneAtATime, RabbitHolds, NEW r \in Readers,
         Attach(r) \/ Detach(r) \/ Crash(r) \/ Consume(r)
  PROVE  RabbitHolds'
<1> SUFFICES ASSUME site.relay = "rabbitmq", site' = site PROVE RabbitHolds'
  BY OthersStay DEF RabbitHolds
<1> DEFINE Dealt(k) == Gone(k) \/ k \in Unreadable \/ handled[k] > 0
<1>0. /\ sent' = sent /\ written' = written /\ sent \subseteq Messages
      /\ \A s \in Readers \ {r} : attached'[s] = attached[s]
           /\ pc'[s] = pc[s] /\ current'[s] = current[s]
      /\ \A s \in Readers : current[s] \subseteq Messages
      /\ ready \in [Messages -> Nat] /\ handled \in [Messages -> Nat]
  BY OthersStay DEF TypeOK
<1>1. /\ \A k \in sent : Dealt(k) \/ Held(k)
      /\ \A s \in Readers : \A k \in current[s] :
           pc[s] = "settle" => k \in Unreadable \/ handled[k] > 0
  BY DEF RabbitHolds
<1>2. dropped' = dropped /\ vanished' = vanished
  BY OthersStay DEF Attach, Detach, Crash, Consume, Fetch, Receive, HandlerSucceeds,
     HandlerFails, Unread, Commit, CommitFails, Requeue, broker
<1>3. \A k \in Messages : handled[k] > 0 => handled'[k] > 0
  <2>1. handled' = handled \/ handled' = Counted(handled, r)
    BY DEF Attach, Detach, Crash, Consume, Fetch, Receive, HandlerSucceeds,
       HandlerFails, Unread, Commit, CommitFails, history
  <2>2. \A k \in Messages : Counted(handled, r)[k] >= handled[k]
    BY <1>0, CountedIs
  <2>3. Counted(handled, r) \in [Messages -> Nat]
    BY <1>0, CountedIs
  <2> QED
    BY <1>0, <2>1, <2>2, <2>3
<1>4. \A k \in Messages : Dealt(k) => Dealt(k)'
  BY <1>2, <1>3 DEF Gone, Unreadable
<1>5. \A k \in current[r] : Counted(ready, r)[k] > 0
  BY <1>0, CountedIs
<1>6. \A k \in Messages : ready[k] > 0 => Counted(ready, r)[k] > 0
  <2>1. \A k \in Messages : Counted(ready, r)[k] >= ready[k]
    BY <1>0, CountedIs
  <2>2. Counted(ready, r) \in [Messages -> Nat]
    BY <1>0, CountedIs
  <2> QED
    BY <1>0, <2>1, <2>2
<1>7. ASSUME NEW k \in Messages, Held(k)
      PROVE  Dealt(k)' \/ Held(k)'
  <2>1. CASE Attach(r)
    <3>1. ready' = ready
      BY <2>1 DEF Attach
    <3>2. current'[r] = current[r] /\ attached'[r]
      BY <2>1, ReaderBecomes
    <3> QED
      BY <1>0, <1>7, <3>1, <3>2 DEF Held
  <2>2. CASE Detach(r) \/ Crash(r) \/ HandlerFails(r)
    <3>1. IF attached[r] THEN ready' = Counted(ready, r) ELSE ready' = ready
      BY <2>2 DEF Detach, Crash, HandlerFails, Requeue
    <3>2. CASE ready[k] > 0
      BY <1>6, <3>1, <3>2 DEF Held
    <3>3. CASE attached[r] /\ k \in current[r]
      BY <1>5, <3>1, <3>3 DEF Held
    <3>4. CASE \E s \in Readers \ {r} : attached[s] /\ k \in current[s]
      BY <1>0, <3>4 DEF Held
    <3>5. CASE k \in written
      BY <1>0, <3>5 DEF Held
    <3> QED
      BY <1>7, <3>2, <3>3, <3>4, <3>5 DEF Held
  <2>3. CASE Receive(r)
    <3>1. PICK m \in Messages : /\ ready' = [ready EXCEPT ![m] = @ - 1]
                                /\ current' = [current EXCEPT ![r] = {m}]
      BY <2>3 DEF Receive
    <3>2. current'[r] = {m}
      BY <3>1 DEF TypeOK
    <3>3. pc[r] = "idle" /\ attached'[r]
      BY <2>3, ReaderBecomes
    <3>4. current[r] = {}
      BY <3>3 DEF OneAtATime
    <3>5. k # m => ready'[k] = ready[k]
      BY <1>0, <3>1
    <3> QED
      BY <1>0, <1>7, <3>2, <3>3, <3>4, <3>5 DEF Held
  <2>4. CASE HandlerSucceeds(r) \/ Unread(r)
    <3>1. ready' = ready
      BY <2>4 DEF HandlerSucceeds, Unread, broker
    <3>2. current'[r] = current[r] /\ attached'[r] = attached[r]
      BY <2>4, ReaderBecomes
    <3> QED
      BY <1>0, <1>7, <3>1, <3>2 DEF Held
  <2>5. CASE Commit(r)
    <3>1. ready' = ready /\ pc[r] = "settle"
      BY <2>5 DEF Commit
    <3>2. k \in current[r] => Dealt(k)
      BY <1>1, <3>1
    <3> QED
      BY <1>0, <1>4, <1>7, <3>1, <3>2 DEF Held
  <2> QED
    BY <2>1, <2>2, <2>3, <2>4, <2>5 DEF Consume, Fetch, CommitFails
<1>8. \A k \in sent' : Dealt(k)' \/ Held(k)'
  BY <1>0, <1>1, <1>4, <1>7
<1>9. ASSUME NEW k \in current'[r], pc'[r] = "settle"
      PROVE  k \in Unreadable \/ handled'[k] > 0
  <2>1. CASE HandlerSucceeds(r)
    <3>1. current'[r] = current[r] /\ handled' = Counted(handled, r)
      BY <2>1, ReaderBecomes DEF HandlerSucceeds
    <3>2. Counted(handled, r)[k] = handled[k] + 1 /\ handled[k] \in Nat
      <4>1. handled \in [Messages -> Nat] /\ k \in current[r] \intersect Messages
        BY <1>0, <1>9, <3>1
      <4> QED
        BY <4>1, CountedIs
    <3> QED
      BY <3>1, <3>2
  <2>2. CASE Unread(r)
    <3>1. current'[r] = current[r]
      BY <2>2, ReaderBecomes
    <3> QED
      BY <1>9, <2>2, <3>1 DEF Unread
  <2>3. CASE Attach(r) \/ Detach(r)
    <3>1. pc[r] = "settle" /\ current'[r] = current[r]
      BY <1>9, <2>3, ReaderBecomes
    <3> QED
      BY <1>0, <1>1, <1>3, <1>9, <3>1
  <2>4. CASE Crash(r) \/ Fetch(r) \/ Receive(r) \/ HandlerFails(r) \/ Commit(r) \/ CommitFails(r)
    BY <1>9, <2>4, ReaderBecomes
  <2> QED
    BY <2>1, <2>2, <2>3, <2>4 DEF Consume
<1>10. \A s \in Readers \ {r} : \A k \in current'[s] :
         pc'[s] = "settle" => k \in Unreadable \/ handled'[k] > 0
  BY <1>0, <1>1, <1>3
<1> QED
  BY <1>8, <1>9, <1>10 DEF RabbitHolds, Unreadable

-----------------------------------------------------------------------------
(* Counting: who has a message in hand, the entries of a message.          *)

LEMMA Times ==
  /\ \A e, t \in Nat : e * t \in Nat /\ e * (t + 1) = e * t + e
  /\ \A e, f, t \in Nat : e <= f => e * t <= f * t
<1>1. \A e, t \in Nat : e * t \in Nat /\ e * (t + 1) = e * t + e
  OBVIOUS
<1>2. ASSUME NEW e \in Nat, NEW f \in Nat, NEW t \in Nat, e <= f
      PROVE  e * t <= f * t
  <2>1. PICK d \in Nat : f = e + d
    <3>1. f - e \in Nat /\ f = e + (f - e)
      BY <1>2
    <3> QED
      BY <3>1
  <2>2. (e + d) * t = e * t + d * t /\ d * t \in Nat /\ e * t \in Nat
    OBVIOUS
  <2> QED
    BY <2>1, <2>2
<1> QED
  BY <1>1, <1>2

LEMMA UptoIs ==
  ASSUME NEW m, NEW n \in Nat
  PROVE  /\ IsFiniteSet(Upto(n, m)) /\ Cardinality(Upto(n, m)) \in Nat
         /\ n + 1 \notin Upto(n, m)
         /\ log[n + 1] = m =>
              Cardinality(Upto(n + 1, m)) = Cardinality(Upto(n, m)) + 1
         /\ log[n + 1] # m => Upto(n + 1, m) = Upto(n, m)
         /\ \A k \in Nat : k <= n => Cardinality(Upto(k, m)) <= Cardinality(Upto(n, m))
<1>1. IsFiniteSet(1..n)
  BY FS_Interval
<1>2. IsFiniteSet(Upto(n, m)) /\ Cardinality(Upto(n, m)) \in Nat
  <2>1. Upto(n, m) \subseteq 1..n
    BY DEF Upto
  <2> QED
    BY <1>1, <2>1, FS_Subset, FS_CardinalityType
<1>3. n + 1 \notin Upto(n, m)
  BY DEF Upto
<1>4. 1..(n + 1) = (1..n) \union {n + 1}
  OBVIOUS
<1>5. log[n + 1] = m => Upto(n + 1, m) = Upto(n, m) \union {n + 1}
  BY <1>4 DEF Upto
<1>6. log[n + 1] # m => Upto(n + 1, m) = Upto(n, m)
  BY <1>4 DEF Upto
<1>7. Cardinality(Upto(n, m) \union {n + 1}) = Cardinality(Upto(n, m)) + 1
  BY <1>2, <1>3, FS_AddElement
<1>8. ASSUME NEW k \in Nat, k <= n
      PROVE  Cardinality(Upto(k, m)) <= Cardinality(Upto(n, m))
  <2>1. Upto(k, m) \subseteq Upto(n, m)
    BY <1>8 DEF Upto
  <2> QED
    BY <1>2, <2>1, FS_Subset
<1> QED
  BY <1>2, <1>3, <1>5, <1>6, <1>7, <1>8

LEMMA HandlingIs ==
  ASSUME NEW m
  PROVE  IsFiniteSet(Handling(m)) /\ Cardinality(Handling(m)) \in Nat
<1>1. Handling(m) \subseteq Readers
  BY DEF Handling
<1> QED
  BY <1>1, ReadersAssumption, FS_Subset, FS_CardinalityType

\* What is handled or in hand: only taking a message adds to it.
Begun(m) == handled[m] + Cardinality(Handling(m))

LEMMA BegunIs ==
  ASSUME TypeOK, OneAtATime, NEW r \in Readers, NEW m \in Messages,
         Attach(r) \/ Detach(r) \/ Crash(r) \/ Consume(r)
  PROVE  /\ Begun(m) \in Nat /\ Begun(m)' \in Nat
         /\ Begun(m)' <= Begun(m) + 1
         /\ (~Fetch(r) /\ ~Receive(r)) \/ m \notin current'[r] => Begun(m)' <= Begun(m)
         /\ (Crash(r) \/ HandlerFails(r)) /\ pc[r] = "handling" /\ m \in current[r] =>
              Begun(m)' = Begun(m) - 1
<1> DEFINE Has == pc[r] = "handling" /\ m \in current[r]
           H == Cardinality(Handling(m))
<1>0. /\ IsFiniteSet(Handling(m)) /\ H \in Nat
      /\ IsFiniteSet(Handling(m)') /\ H' \in Nat
      /\ handled \in [Messages -> Nat]
  <2>1. IsFiniteSet(Handling(m)) /\ Cardinality(Handling(m)) \in Nat
    BY HandlingIs
  <2>2. Handling(m)' \subseteq Readers
    BY DEF Handling
  <2>3. IsFiniteSet(Handling(m)') /\ Cardinality(Handling(m)') \in Nat
    BY <2>2, ReadersAssumption, FS_Subset, FS_CardinalityType
  <2> QED
    BY <2>1, <2>3 DEF TypeOK
<1>1. /\ Has <=> r \in Handling(m)
      /\ Has' <=> r \in Handling(m)'
      /\ Handling(m)' \ {r} = Handling(m) \ {r}
  <2>1. \A s \in Readers \ {r} : pc'[s] = pc[s] /\ current'[s] = current[s]
    BY OthersStay
  <2> QED
    BY <2>1 DEF Handling
<1>2. (Has <=> Has') => H' = H
  <2>1. (Has <=> Has') => Handling(m)' = Handling(m)
    BY <1>1
  <2> QED
    BY <2>1
<1>3. Has /\ ~Has' => H' = H - 1
  <2>1. Has /\ ~Has' => Handling(m)' = Handling(m) \ {r} /\ r \in Handling(m)
    BY <1>1
  <2>2. r \in Handling(m) => Cardinality(Handling(m) \ {r}) = Cardinality(Handling(m)) - 1
    BY <1>0, FS_RemoveElement
  <2> QED
    BY <2>1, <2>2
<1>4. ~Has /\ Has' => H' = H + 1
  <2>1. ~Has /\ Has' => Handling(m)' = Handling(m) \union {r} /\ r \notin Handling(m)
    BY <1>1
  <2>2. r \notin Handling(m) => Cardinality(Handling(m) \union {r}) = Cardinality(Handling(m)) + 1
    BY <1>0, FS_AddElement
  <2> QED
    BY <2>1, <2>2
<1>5. CASE HandlerSucceeds(r)
  <2>1. handled' = Counted(handled, r)
    BY <1>5 DEF HandlerSucceeds
  <2>2. pc[r] = "handling" /\ pc'[r] = "settle"
    BY <1>5, ReaderBecomes
  <2>3. /\ m \in current[r] => handled'[m] = handled[m] + 1
        /\ m \notin current[r] => handled'[m] = handled[m]
    BY <1>0, <2>1, CountedIs
  <2>4. CASE m \in current[r]
    <3>1. H' = H - 1
      BY <1>3, <2>2, <2>4
    <3>2. handled[m] \in Nat /\ handled'[m] = handled[m] + 1
      BY <1>0, <2>3, <2>4
    <3>3. ~Fetch(r) /\ ~Receive(r) /\ ~Crash(r) /\ ~HandlerFails(r)
      BY <2>2, ReaderBecomes
    <3>4. Begun(m)' = handled'[m] + H' /\ Begun(m) = handled[m] + H
      BY DEF Begun
    <3> QED
      BY <1>0, <3>1, <3>2, <3>3, <3>4
  <2>5. CASE m \notin current[r]
    <3>1. H' = H
      BY <1>2, <2>2, <2>5
    <3>2. handled[m] \in Nat /\ handled'[m] = handled[m]
      BY <1>0, <2>3, <2>5
    <3>4. Begun(m)' = handled'[m] + H' /\ Begun(m) = handled[m] + H
      BY DEF Begun
    <3> QED
      BY <1>0, <2>5, <3>1, <3>2, <3>4
  <2> QED
    BY <2>4, <2>5
<1>6. CASE ~HandlerSucceeds(r)
  <2>1. handled'[m] = handled[m] /\ handled[m] \in Nat
    BY <1>0, <1>6 DEF Attach, Detach, Crash, Consume, Fetch, Receive, HandlerFails,
       Unread, Commit, CommitFails, history
  <2>2. ~Has /\ Has' => (Fetch(r) \/ Receive(r)) /\ m \in current'[r]
    BY <1>6, ReaderBecomes DEF Consume
  <2>3. Crash(r) \/ HandlerFails(r) => ~Has'
    BY ReaderBecomes
  <2>4. Begun(m)' = handled'[m] + H' /\ Begun(m) = handled[m] + H
    BY DEF Begun
  <2>5. CASE ~Has /\ Has'
    BY <1>0, <1>4, <2>1, <2>2, <2>3, <2>4, <2>5
  <2>6. CASE Has /\ ~Has'
    BY <1>0, <1>3, <2>1, <2>4, <2>6
  <2>7. CASE Has <=> Has'
    BY <1>0, <1>2, <2>1, <2>3, <2>4, <2>7
  <2> QED
    BY <2>5, <2>6, <2>7
<1> QED
  BY <1>5, <1>6

-----------------------------------------------------------------------------
(* kafka: each entry once between two troubles.                            *)

LEMMA EntriesIs ==
  ASSUME TypeOK, site.relay = "kafka", NEW m
  PROVE  /\ Entries(m) = Cardinality(Upto(Len(log), m)) /\ Entries(m) \in Nat
         /\ \A k \in Nat : k <= Len(log) => Cardinality(Upto(k, m)) <= Entries(m)
<1>1. DOMAIN log = 1..Len(log) /\ Len(log) \in Nat
  BY DEF TypeOK
<1>2. Entries(m) = Cardinality(Upto(Len(log), m))
  BY <1>1 DEF Entries, Upto
<1> QED
  BY <1>1, <1>2, UptoIs

LEMMA KafkaRepeatsPublisher ==
  ASSUME TypeOK, TypeOK', KafkaPasses, KafkaRepeats, NEW m \in Messages,
         Sending(m)
  PROVE  KafkaRepeats'
<1> SUFFICES ASSUME site.relay = "kafka", site' = site, NEW k \in Messages
             PROVE  /\ \A r \in Readers : attached'[r] =>
                         Begun(k)' <= Entries(k)' * troubles' + Cardinality(Upto(position[r], k))'
                    /\ (\A r \in Readers : ~attached'[r]) =>
                         Begun(k)' <= Entries(k)' * troubles'
  BY PublisherEffect DEF KafkaRepeats, Begun
<1>1. /\ UNCHANGED <<attached, position, pc, current, handled>>
      /\ log' = log \/ log' = Append(log, m)
  BY PublisherEffect DEF reader, history
<1>2. /\ Len(log) \in Nat /\ Len(log') \in Nat /\ Len(log) <= Len(log')
      /\ \A i \in 1..Len(log) : log'[i] = log[i]
  BY <1>1, EntriesStay
<1>3. \A n \in Nat : n <= Len(log) => Upto(n, k)' = Upto(n, k)
  BY <1>2 DEF Upto
<1>4. Entries(k) \in Nat /\ Entries(k)' \in Nat /\ Entries(k) <= Entries(k)'
  <2>1. Entries(k) \in Nat /\ Entries(k) = Cardinality(Upto(Len(log), k))
    BY EntriesIs
  <2>2. DOMAIN log' = 1..Len(log')
    BY DEF TypeOK
  <2>3. Entries(k)' = Cardinality(Upto(Len(log), k)')
    BY <2>2 DEF Entries, Upto
  <2>4. Upto(Len(log), k)' = {i \in 1..Len(log') : log'[i] = k}
    BY DEF Upto
  <2>5. Upto(Len(log), k) \subseteq Upto(Len(log), k)'
    BY <1>2, <2>4 DEF Upto
  <2>6. IsFiniteSet(Upto(Len(log), k)')
    <3>1. IsFiniteSet(1..Len(log'))
      BY <1>2, FS_Interval
    <3> QED
      BY <2>4, <3>1, FS_Subset
  <2> QED
    BY <2>1, <2>3, <2>5, <2>6, FS_Subset, FS_CardinalityType
<1>5. troubles' \in Nat /\ troubles \in Nat /\ troubles <= troubles'
  <2>1. troubles' = troubles \/ troubles' = troubles + 1
    BY DEF Sending, Publish, Attempt, AttemptSucceeds, AttemptFails, Interrupted,
       Arrive, LoseFrames, Trouble
  <2> QED
    BY <2>1 DEF TypeOK
<1>6. Entries(k) * troubles <= Entries(k)' * troubles'
  <2> DEFINE e == Entries(k)
             f == Entries(k)'
             t == troubles
             u == troubles'
  <2>1. e * t <= f * t /\ t * f <= u * f
    BY <1>4, <1>5, Times
  <2>2. t * f = f * t /\ u * f = f * u
    BY <1>4, <1>5
  <2>3. e * t \in Nat /\ f * t \in Nat /\ f * u \in Nat
    BY <1>4, <1>5, Times
  <2> HIDE DEF e, f, t, u
  <2>4. e * t <= f * u
    BY <2>1, <2>2, <2>3
  <2> QED
    BY <2>4 DEF e, f, t, u
<1>7. Begun(k)' = Begun(k)
  BY <1>1 DEF Begun, Handling
<1>8. Begun(k) \in Nat /\ Entries(k) * troubles \in Nat /\ Entries(k)' * troubles' \in Nat
  <2>1. handled[k] \in Nat
    BY DEF TypeOK
  <2>2. Cardinality(Handling(k)) \in Nat
    BY HandlingIs
  <2>3. Entries(k) * troubles \in Nat /\ Entries(k)' * troubles' \in Nat
    BY <1>4, <1>5, Times
  <2> QED
    BY <2>1, <2>2, <2>3 DEF Begun
<1>9. ASSUME NEW r \in Readers, attached'[r]
      PROVE  Begun(k)' <= Entries(k)' * troubles' + Cardinality(Upto(position[r], k))'
  <2>1. attached[r] /\ position[r] \in Nat /\ position'[r] = position[r]
    BY <1>1, <1>9 DEF TypeOK
  <2>2. position[r] <= Len(log)
    BY <2>1 DEF KafkaPasses, Passes
  <2>3. Upto(position[r], k)' = Upto(position[r], k)
    BY <1>1, <1>3, <2>1, <2>2 DEF Upto
  <2>4. Begun(k) <= Entries(k) * troubles + Cardinality(Upto(position[r], k))
    BY <2>1 DEF KafkaRepeats, Begun
  <2>5. Cardinality(Upto(position[r], k)) \in Nat
    BY <2>1, UptoIs
  <2> QED
    BY <1>6, <1>7, <1>8, <2>3, <2>4, <2>5
<1>10. ASSUME \A r \in Readers : ~attached'[r]
       PROVE  Begun(k)' <= Entries(k)' * troubles'
  <2>1. Begun(k) <= Entries(k) * troubles
    BY <1>1, <1>10 DEF KafkaRepeats, Begun
  <2> QED
    BY <1>6, <1>7, <1>8, <2>1
<1> QED
  BY <1>9, <1>10

LEMMA KafkaRepeatsReader ==
  ASSUME TypeOK, TypeOK', OneAtATime, KafkaPasses, KafkaRepeats, NEW r \in Readers,
         Attach(r) \/ Detach(r) \/ Crash(r) \/ Consume(r)
  PROVE  KafkaRepeats'
<1> SUFFICES ASSUME site.relay = "kafka", site' = site, NEW k \in Messages
             PROVE  /\ \A s \in Readers : attached'[s] =>
                         Begun(k)' <= Entries(k)' * troubles' + Cardinality(Upto(position[s], k))'
                    /\ (\A s \in Readers : ~attached'[s]) =>
                         Begun(k)' <= Entries(k)' * troubles'
  BY OthersStay DEF KafkaRepeats, Begun
<1> DEFINE b == Begun(k)
           c == Begun(k)'
           e == Entries(k)
           et == Entries(k) * troubles
           eu == Entries(k) * troubles'
<1>0. /\ log' = log /\ Len(log) \in Nat
      /\ \A s \in Readers \ {r} : attached'[s] = attached[s] /\ position'[s] = position[s]
      /\ attached \in [Readers -> BOOLEAN] /\ attached' \in [Readers -> BOOLEAN]
      /\ position \in [Readers -> Nat] /\ position' \in [Readers -> Nat]
      /\ troubles \in Nat /\ troubles' \in Nat
  <2>1. UNCHANGED <<site, sent, log>>
        /\ \A s \in Readers \ {r} : attached'[s] = attached[s] /\ position'[s] = position[s]
    BY OthersStay
  <2>2. Len(log) \in Nat
    BY DEF TypeOK
  <2>3. /\ attached \in [Readers -> BOOLEAN] /\ position \in [Readers -> Nat]
        /\ troubles \in Nat
    BY DEF TypeOK
  <2>4. /\ attached' \in [Readers -> BOOLEAN] /\ position' \in [Readers -> Nat]
        /\ troubles' \in Nat
    BY DEF TypeOK
  <2> QED
    BY <2>1, <2>2, <2>3, <2>4
<1>1. /\ e \in Nat /\ Entries(k)' = e
      /\ \A n : Upto(n, k)' = {i \in 1..n : log[i] = k}'
      /\ \A s \in Readers : Upto(position[s], k)' = Upto(position'[s], k)
  <2>1. e \in Nat
    BY EntriesIs
  <2>2. Entries(k)' = e
    BY <1>0 DEF Entries
  <2> QED
    BY <1>0, <2>1, <2>2 DEF Upto
<1>2. b \in Nat /\ c \in Nat /\ c <= b + 1
      /\ ((~Fetch(r) /\ ~Receive(r)) \/ k \notin current'[r] => c <= b)
  BY BegunIs
<1>3. \A n \in Nat : Cardinality(Upto(n, k)) \in Nat
                     /\ (n <= Len(log) => Cardinality(Upto(n, k)) <= e)
  BY EntriesIs, UptoIs
<1>4. troubles' = troubles \/ troubles' = troubles + 1
  BY DEF Attach, Detach, Crash, Consume, Fetch, Receive, HandlerSucceeds,
     HandlerFails, Unread, Commit, CommitFails, Trouble
<1>5. /\ et \in Nat /\ eu \in Nat /\ et <= eu
      /\ troubles' = troubles + 1 => eu = et + e
  <2>1. et \in Nat /\ eu \in Nat
    BY <1>0, <1>1, Times
  <2>2. troubles' = troubles + 1 => eu = et + e
    BY <1>0, <1>1, Times
  <2>3. troubles' = troubles => eu = et
    OBVIOUS
  <2> QED
    BY <1>1, <1>4, <2>1, <2>2, <2>3
<1>6. /\ \A s \in Readers : attached[s] => b <= et + Cardinality(Upto(position[s], k))
      /\ (\A s \in Readers : ~attached[s]) => b <= et
  BY DEF KafkaRepeats, Begun
<1>7. \A s, t \in Readers : attached[s] /\ attached[t] => s = t
  BY DEF KafkaPasses
<1>8. \A s \in Readers : attached[s] => position[s] <= Len(log)
  BY DEF KafkaPasses, Passes
<1>9. ~Receive(r)
  BY DEF Receive
<1>10. /\ \A s \in Readers : attached'[s] =>
            c <= eu + Cardinality(Upto(position'[s], k))
       /\ (\A s \in Readers : ~attached'[s]) => c <= eu
  <2>1. CASE Attach(r)
    <3>1. \A s \in Readers : ~attached[s]
      BY <2>1 DEF Attach
    <3>2. c <= b
      BY <1>2, <2>1, ReaderBecomes DEF Attach, Fetch
    <3>3. c <= eu
      BY <1>2, <1>5, <1>6, <3>1, <3>2
    <3>4. \A s \in Readers : Cardinality(Upto(position'[s], k)) \in Nat
      BY <1>0, <1>3
    <3> HIDE DEF c, eu
    <3> QED
      BY <1>2, <1>5, <3>3, <3>4
  <2>2. CASE Detach(r) \/ Crash(r)
    <3>1. c <= b
      <4>1. CASE Detach(r)
        BY <1>2, <1>9, <4>1, ReaderBecomes
      <4>2. CASE Crash(r)
        BY <1>2, <1>9, <4>2, ReaderBecomes
      <4> QED
        BY <2>2, <4>1, <4>2
    <3>2. eu = et + e
      BY <1>5, <2>2 DEF Detach, Crash, Trouble
    <3>3. ~attached'[r]
      BY <2>2, ReaderBecomes
    <3>4. c <= eu
      <4>1. CASE \E s \in Readers : attached[s]
        <5>1. PICK s \in Readers : attached[s]
          BY <4>1
        <5>2. b <= et + Cardinality(Upto(position[s], k))
          BY <1>6, <5>1
        <5>3. Cardinality(Upto(position[s], k)) \in Nat /\ Cardinality(Upto(position[s], k)) <= e
          BY <1>0, <1>3, <1>8, <5>1
        <5> HIDE DEF b, c, e, et, eu
        <5> QED
          BY <1>1, <1>2, <1>5, <3>1, <3>2, <5>2, <5>3
      <4>2. CASE \A s \in Readers : ~attached[s]
        BY <1>2, <1>5, <1>6, <3>1, <4>2
      <4> QED
        BY <4>1, <4>2
    <3>5. \A s \in Readers : Cardinality(Upto(position'[s], k)) \in Nat
      BY <1>0, <1>3
    <3> HIDE DEF c, eu
    <3> QED
      BY <1>2, <1>5, <3>4, <3>5
  <2>3. CASE Fetch(r)
    <3>1. /\ attached[r] /\ attached'[r] /\ position[r] < Len(log)
          /\ position'[r] = position[r] + 1
          /\ current'[r] = {log[position[r] + 1]}
      BY <2>3, ReaderBecomes
    <3>2. \A s \in Readers : attached'[s] => s = r
      BY <1>0, <1>7, <3>1
    <3>3. c <= et + Cardinality(Upto(position[r] + 1, k))
      <4>0. position[r] \in Nat
        BY <1>0
      <4>1. b <= et + Cardinality(Upto(position[r], k))
        BY <1>6, <3>1
      <4>2. Cardinality(Upto(position[r], k)) \in Nat
        BY <1>3, <4>0
      <4>3. CASE log[position[r] + 1] = k
        <5>1. Cardinality(Upto(position[r] + 1, k)) = Cardinality(Upto(position[r], k)) + 1
          BY <4>0, <4>3, UptoIs
        <5> HIDE DEF b, c, et
        <5> QED
          BY <1>2, <1>5, <4>1, <4>2, <5>1
      <4>4. CASE log[position[r] + 1] # k
        <5>1. Upto(position[r] + 1, k) = Upto(position[r], k)
          BY <4>0, <4>4, UptoIs
        <5>2. c <= b
          BY <1>2, <3>1, <4>4
        <5> HIDE DEF b, c, et
        <5> QED
          BY <1>2, <1>5, <4>1, <4>2, <5>1, <5>2
      <4> QED
        BY <4>3, <4>4
    <3>4. Cardinality(Upto(position[r] + 1, k)) \in Nat
      <4>1. position[r] + 1 \in Nat
        BY <1>0
      <4> HIDE DEF e
      <4> QED
        BY <1>3, <4>1
    <3>5. c <= eu + Cardinality(Upto(position'[r], k))
      <4> HIDE DEF c, et, eu
      <4> QED
        BY <1>2, <1>5, <3>1, <3>3, <3>4
    <3> QED
      BY <3>1, <3>2, <3>5
  <2>4. CASE HandlerSucceeds(r) \/ HandlerFails(r) \/ Unread(r) \/ Commit(r) \/ CommitFails(r)
    <3>1. attached'[r] = attached[r] /\ position'[r] = position[r] /\ pc[r] # "idle"
      BY <2>4, ReaderBecomes
    <3>2. c <= b
      BY <1>2, <1>9, <3>1 DEF Fetch
    <3>3. ASSUME NEW s \in Readers, attached'[s]
          PROVE  c <= eu + Cardinality(Upto(position'[s], k))
      <4>1. attached[s] /\ position'[s] = position[s]
        BY <1>0, <3>1, <3>3
      <4>2. b <= et + Cardinality(Upto(position[s], k)) /\ Cardinality(Upto(position[s], k)) \in Nat
        BY <1>0, <1>3, <1>6, <4>1
      <4> HIDE DEF b, c, et, eu
      <4> QED
        BY <1>2, <1>5, <3>2, <4>1, <4>2
    <3>4. ASSUME \A s \in Readers : ~attached'[s] PROVE c <= eu
      <4>1. \A s \in Readers : ~attached[s]
        BY <1>0, <3>1, <3>4
      <4> QED
        BY <1>2, <1>5, <1>6, <3>2, <4>1
    <3> QED
      BY <3>3, <3>4
  <2> QED
    BY <1>9, <2>1, <2>2, <2>3, <2>4 DEF Consume
<1>11. Entries(k)' * troubles' = eu
  BY <1>1
<1> QED
  BY <1>1, <1>10, <1>11

-----------------------------------------------------------------------------
(* rabbitmq: a copy is the published one or owed to a trouble.             *)

LEMMA RabbitRepeatsPublisher ==
  ASSUME TypeOK, TypeOK', RabbitRepeats, NEW m \in Messages, Sending(m)
  PROVE  RabbitRepeats'
<1> SUFFICES ASSUME site.relay = "rabbitmq", site' = site, NEW k \in Messages
             PROVE  Begun(k)' + Underway(k)' + ready'[k]
                      <= (IF k \in sent' THEN 1 ELSE 0) + troubles'
  <2>1. TypeOK' => \A k \in Messages :
          /\ handled'[k] \in Nat /\ ready'[k] \in Nat
          /\ Cardinality(Handling(k))' \in Nat /\ Underway(k)' \in Nat
    <3>1. \A k \in Messages : Handling(k)' \subseteq Readers
      BY DEF Handling
    <3>2. \A k \in Messages : Cardinality(Handling(k)') \in Nat
      BY <3>1, ReadersAssumption, FS_Subset, FS_CardinalityType
    <3> QED
      BY <3>2 DEF TypeOK, Underway
  <2> QED
    BY <2>1, PublisherEffect DEF RabbitRepeats, Begun
<1>1. UNCHANGED <<attached, pc, current, handled>>
  BY PublisherEffect DEF reader, history
<1>2. Begun(k)' = Begun(k)
  BY <1>1 DEF Begun, Handling
<1>3. Begun(k) \in Nat /\ ready[k] \in Nat /\ ready'[k] \in Nat
      /\ troubles \in Nat /\ troubles' \in Nat
  <2>1. handled[k] \in Nat /\ ready[k] \in Nat /\ troubles \in Nat
    BY DEF TypeOK
  <2>2. ready'[k] \in Nat /\ troubles' \in Nat
    BY DEF TypeOK
  <2>3. Cardinality(Handling(k)) \in Nat
    BY HandlingIs
  <2> QED
    BY <2>1, <2>2, <2>3 DEF Begun
<1>4. Begun(k) + Underway(k) + ready[k] <= (IF k \in sent THEN 1 ELSE 0) + troubles
  <2>1. handled[k] + Underway(k) + ready[k] + Cardinality(Handling(k))
          <= (IF k \in sent THEN 1 ELSE 0) + troubles
    BY DEF RabbitRepeats
  <2>2. handled[k] \in Nat /\ Cardinality(Handling(k)) \in Nat /\ Underway(k) \in Nat
    BY HandlingIs DEF TypeOK, Underway
  <2> QED
    BY <1>3, <2>1, <2>2 DEF Begun
<1>5. Accept(m) => ready'[k] <= ready[k] + 1 /\ (k # m => ready'[k] = ready[k])
  <2>1. Accept(m) => ready' = ready \/ ready' = [ready EXCEPT ![m] = @ + 1]
    BY DEF Accept
  <2>2. ready \in [Messages -> Nat]
    BY DEF TypeOK
  <2> QED
    BY <1>3, <2>1, <2>2
<1>6. CASE Publish(m) \/ Interrupted(m)
  <2>1. ready' = ready /\ sent' = sent /\ written' = written /\ troubles' = troubles
    BY <1>6 DEF Publish, Interrupted, broker, wire
  <2> QED
    BY <1>2, <1>4, <2>1 DEF Underway
<1>7. CASE AttemptSucceeds(m)
  <2>1. /\ ready' = ready /\ sent' = sent \union {m} /\ troubles' = troubles
        /\ written' = written \union {m}
    BY <1>7 DEF AttemptSucceeds, Outcome, broker
  <2>2. m \notin sent /\ m \notin written
    BY <1>7 DEF AttemptSucceeds, TypeOK
  <2> QED
    BY <1>2, <1>3, <1>4, <2>1, <2>2 DEF Underway
<1>8. CASE AttemptFails(m)
  <2>1. /\ Accept(m) \/ ready' = ready
        /\ sent' = sent /\ written' = written /\ troubles' = troubles + 1
    BY <1>8 DEF AttemptFails, Outcome, Trouble, broker, wire
  <2>2. ready'[k] <= ready[k] + 1
    BY <1>3, <1>5, <2>1
  <2>3. Underway(k)' = Underway(k) /\ Underway(k) \in Nat
    BY <2>1 DEF Underway
  <2> QED
    BY <1>2, <1>3, <1>4, <2>1, <2>2, <2>3
<1>9. CASE Arrive(m)
  <2>1. /\ Accept(m) /\ sent' = sent /\ troubles' = troubles
        /\ m \in written /\ written' = written \ {m}
    BY <1>9 DEF Arrive, publisher
  <2>2. CASE k = m
    <3>1. Underway(k) = 1 /\ Underway(k)' = 0
      BY <2>1, <2>2 DEF Underway
    <3> QED
      BY <1>2, <1>3, <1>4, <1>5, <2>1, <3>1
  <2>3. CASE k # m
    <3>1. Underway(k)' = Underway(k) /\ ready'[k] = ready[k]
      BY <1>5, <2>1, <2>3 DEF Underway
    <3> QED
      BY <1>2, <1>4, <2>1, <3>1
  <2> QED
    BY <2>2, <2>3
<1>10. CASE LoseFrames
  <2>1. ready' = ready /\ sent' = sent /\ written' = {} /\ troubles' = troubles + 1
    BY <1>10 DEF LoseFrames, Trouble, publisher, broker
  <2> QED
    BY <1>2, <1>3, <1>4, <2>1 DEF Underway
<1> QED
  BY <1>6, <1>7, <1>8, <1>9, <1>10 DEF Sending, Attempt

LEMMA RabbitRepeatsReader ==
  ASSUME TypeOK, TypeOK', OneAtATime, RabbitRepeats, NEW r \in Readers,
         Attach(r) \/ Detach(r) \/ Crash(r) \/ Consume(r)
  PROVE  RabbitRepeats'
<1> SUFFICES ASSUME site.relay = "rabbitmq", site' = site, NEW k \in Messages
             PROVE  Begun(k)' + Underway(k)' + ready'[k] <= (IF k \in sent' THEN 1 ELSE 0) + troubles'
  <2>1. TypeOK' => \A k \in Messages :
          /\ handled'[k] \in Nat /\ ready'[k] \in Nat
          /\ Cardinality(Handling(k))' \in Nat /\ Underway(k)' \in Nat
    <3>1. \A k \in Messages : Handling(k)' \subseteq Readers
      BY DEF Handling
    <3>2. \A k \in Messages : Cardinality(Handling(k)') \in Nat
      BY <3>1, ReadersAssumption, FS_Subset, FS_CardinalityType
    <3> QED
      BY <3>2 DEF TypeOK, Underway
  <2> QED
    BY <2>1, OthersStay DEF RabbitRepeats, Begun
<1> DEFINE b == Begun(k)
           c == Begun(k)'
           o == (IF k \in sent THEN 1 ELSE 0) - Underway(k)
<1>1. /\ sent' = sent /\ written' = written
      /\ troubles' = troubles \/ troubles' = troubles + 1
  BY OthersStay DEF Attach, Detach, Crash, Consume, Fetch, Receive, HandlerSucceeds,
     HandlerFails, Unread, Commit, CommitFails, Trouble
<1>2. /\ b \in Nat /\ c \in Nat /\ c <= b + 1
      /\ ((~Fetch(r) /\ ~Receive(r)) \/ k \notin current'[r]) => c <= b
      /\ ((Crash(r) \/ HandlerFails(r)) /\ pc[r] = "handling" /\ k \in current[r] => c = b - 1)
  BY BegunIs
<1>3. ready[k] \in Nat /\ ready'[k] \in Nat /\ troubles \in Nat /\ troubles' \in Nat
  <2>1. ready[k] \in Nat /\ troubles \in Nat
    BY DEF TypeOK
  <2>2. ready'[k] \in Nat /\ troubles' \in Nat
    BY DEF TypeOK
  <2> QED
    BY <2>1, <2>2
<1>4. b + ready[k] <= o + troubles
  <2>1. handled[k] + Underway(k) + ready[k] + Cardinality(Handling(k))
          <= (IF k \in sent THEN 1 ELSE 0) + troubles
    BY DEF RabbitRepeats
  <2>2. handled[k] \in Nat /\ Cardinality(Handling(k)) \in Nat /\ Underway(k) \in Nat
    BY HandlingIs DEF TypeOK, Underway
  <2> QED
    BY <1>3, <2>1, <2>2 DEF Begun
<1>5. /\ k \in current[r] => Counted(ready, r)[k] = ready[k] + 1
      /\ k \notin current[r] => Counted(ready, r)[k] = ready[k]
  <2>1. ready \in [Messages -> Nat]
    BY DEF TypeOK
  <2> QED
    BY <2>1, CountedIs
<1>6. o \in Int
  BY DEF Underway
<1>7. c + ready'[k] <= o + troubles'
  <2>1. CASE Detach(r) \/ Crash(r)
    <3>1. ~Fetch(r) /\ ~Receive(r)
      BY <2>1 DEF Detach, Crash, Fetch, Receive, Trouble, TypeOK
    <3>2. ready'[k] <= ready[k] + 1
      <4>1. ready' = ready \/ ready' = Counted(ready, r)
        BY <2>1 DEF Detach, Crash, Requeue
      <4> QED
        BY <1>3, <1>5, <4>1
    <3>3. troubles' = troubles + 1
      BY <2>1 DEF Detach, Crash, Trouble
    <3> HIDE DEF b, c, o
    <3> QED
      BY <1>2, <1>3, <1>4, <1>6, <3>1, <3>2, <3>3
  <2>2. CASE HandlerFails(r)
    <3>1. pc[r] = "handling" /\ troubles' = troubles
      BY <2>2 DEF HandlerFails
    <3>2. ~Fetch(r) /\ ~Receive(r)
      BY <3>1 DEF Fetch, Receive
    <3>3. ready' = ready \/ ready' = Counted(ready, r)
      BY <2>2 DEF HandlerFails, Requeue
    <3>4. CASE k \in current[r]
      <4>1. c = b - 1
        BY <1>2, <2>2, <3>1, <3>4
      <4>2. ready'[k] <= ready[k] + 1
        BY <1>3, <1>5, <3>3, <3>4
      <4> HIDE DEF b, c, o
      <4> QED
        BY <1>2, <1>3, <1>4, <1>6, <3>1, <4>1, <4>2
    <3>5. CASE k \notin current[r]
      <4>1. ready'[k] = ready[k]
        BY <1>5, <3>3, <3>5
      <4> HIDE DEF b, c, o
      <4> QED
        BY <1>2, <1>3, <1>4, <1>6, <3>1, <3>2, <4>1
    <3> QED
      BY <3>4, <3>5
  <2>3. CASE Receive(r)
    <3>1. PICK m \in Messages : /\ ready[m] > 0
                                /\ ready' = [ready EXCEPT ![m] = @ - 1]
                                /\ current' = [current EXCEPT ![r] = {m}]
      BY <2>3 DEF Receive
    <3>2. troubles' = troubles /\ current'[r] = {m}
      BY <2>3, <3>1 DEF Receive, TypeOK
    <3>3. CASE k = m
      <4>1. ready'[k] = ready[k] - 1
        BY <3>1, <3>3 DEF TypeOK
      <4> HIDE DEF b, c, o
      <4> QED
        BY <1>2, <1>3, <1>4, <1>6, <3>2, <4>1
    <3>4. CASE k # m
      <4>1. ready'[k] = ready[k]
        BY <3>1, <3>4 DEF TypeOK
      <4>2. c <= b
        BY <1>2, <3>2, <3>4
      <4> HIDE DEF b, c, o
      <4> QED
        BY <1>2, <1>3, <1>4, <1>6, <3>2, <4>1, <4>2
    <3> QED
      BY <3>3, <3>4
  <2>4. CASE Attach(r) \/ HandlerSucceeds(r) \/ Unread(r) \/ Commit(r)
    <3>1. ready' = ready /\ troubles' = troubles
      BY <2>4 DEF Attach, HandlerSucceeds, Unread, Commit, broker
    <3>2. ~Fetch(r) /\ (Receive(r) => Attach(r))
      BY <2>4, ReaderBecomes DEF Fetch
    <3>3. ~Receive(r)
      BY <3>2, ReaderBecomes
    <3> HIDE DEF b, c, o
    <3> QED
      BY <1>2, <1>3, <1>4, <1>6, <3>1, <3>2, <3>3
  <2> QED
    BY <2>1, <2>2, <2>3, <2>4 DEF Consume, Fetch, CommitFails
<1>8. Underway(k)' = Underway(k) /\ Underway(k) \in Nat /\ ready'[k] \in Nat /\ c \in Nat
  BY <1>1, <1>2, <1>3 DEF Underway
<1> HIDE DEF c
<1> QED
  BY <1>1, <1>3, <1>7, <1>8 DEF c

-----------------------------------------------------------------------------
(* The specification.                                                      *)

LEMMA RelaysInitially == Init => RelaysInv
<1> SUFFICES ASSUME Init PROVE RelaysInv
  OBVIOUS
<1>1. TypeOK /\ OneAtATime
  BY TypeInitially
<1>2. Len(log) = 0
  BY DEF Init
<1>3. KafkaPasses
  BY <1>2 DEF Init, KafkaPasses, Passes
<1>4. RabbitHolds
  BY DEF Init, RabbitHolds
<1>5. \A m \in Messages : Handling(m) = {} /\ handled[m] = 0 /\ ready[m] = 0
  BY DEF Init, Handling
<1>6. Cardinality({}) = 0
  BY FS_EmptySet
<1>7. \A m \in Messages : Cardinality(Handling(m)) = 0
  BY <1>5, <1>6
<1>8. troubles = 0 /\ \A r \in Readers : ~attached[r]
  BY DEF Init
<1>9. KafkaRepeats
  <2>1. site.relay = "kafka" => \A m \in Messages : Entries(m) * 0 = 0
    BY <1>1, EntriesIs
  <2> QED
    BY <1>5, <1>7, <1>8, <2>1 DEF KafkaRepeats
<1>10. RabbitRepeats
  <2>1. \A m \in Messages : Underway(m) = 0
    BY DEF Init, Underway
  <2> QED
    BY <1>5, <1>7, <1>8, <2>1 DEF RabbitRepeats
<1> QED
  BY <1>1, <1>3, <1>4, <1>9, <1>10 DEF RelaysInv

LEMMA RelaysStep == RelaysInv /\ [Next]_vars => RelaysInv'
<1> SUFFICES ASSUME RelaysInv, [Next]_vars PROVE RelaysInv'
  OBVIOUS
<1> USE DEF RelaysInv
<1>1. CASE \E m \in Messages : Sending(m)
  <2>1. PICK m \in Messages : Sending(m)
    BY <1>1
  <2>2. TypeOK'
    BY <2>1, PublisherType
  <2>3. OneAtATime'
    <3>1. pc' = pc /\ current' = current
      BY <2>1, PublisherEffect DEF reader
    <3> QED
      BY <3>1 DEF OneAtATime
  <2>4. KafkaPasses' /\ RabbitHolds'
    BY <2>1, KafkaPassesPublisher, RabbitHoldsPublisher
  <2>5. KafkaRepeats' /\ RabbitRepeats'
    BY <2>1, <2>2, KafkaRepeatsPublisher, RabbitRepeatsPublisher
  <2> QED
    BY <2>2, <2>3, <2>4, <2>5
<1>2. CASE \E r \in Readers : Attach(r) \/ Detach(r) \/ Crash(r) \/ Consume(r)
  <2>1. PICK r \in Readers : Attach(r) \/ Detach(r) \/ Crash(r) \/ Consume(r)
    BY <1>2
  <2>2. TypeOK' /\ OneAtATime'
    BY <2>1, ReaderType, OneStep
  <2>3. KafkaPasses' /\ RabbitHolds'
    BY <2>1, KafkaPassesReader, RabbitHoldsReader
  <2>4. KafkaRepeats' /\ RabbitRepeats'
    BY <2>1, <2>2, KafkaRepeatsReader, RabbitRepeatsReader
  <2> QED
    BY <2>2, <2>3, <2>4
<1>3. CASE UNCHANGED vars
  <2> USE <1>3 DEF vars, publisher, wire, broker, reader, history
  <2>1. TypeOK'
    BY DEF TypeOK
  <2>2. OneAtATime'
    BY DEF OneAtATime
  <2>3. KafkaPasses'
    BY DEF KafkaPasses, Passes, Done, Unreadable
  <2>4. RabbitHolds'
    BY DEF RabbitHolds, Held, Gone, Unreadable
  <2>5. KafkaRepeats'
    BY DEF KafkaRepeats, Handling, Upto, Entries
  <2>6. RabbitRepeats'
    BY DEF RabbitRepeats, Underway, Handling
  <2> QED
    BY <2>1, <2>2, <2>3, <2>4, <2>5, <2>6
<1> QED
  BY <1>1, <1>2, <1>3, SomeoneMoves

LEMMA OnlyWhatIsOwed == RelaysInv => AtLeastOnce
<1> SUFFICES ASSUME RelaysInv, NEW m \in Messages
             PROVE  /\ Lost(m) => m \in dropped \union vanished \/ (site.relay = "kafka" /\ refused[m] > 0)
                    /\ handled[m] <= Entries(m) * (1 + troubles)
  BY DEF AtLeastOnce
<1>0. TypeOK /\ OneAtATime /\ KafkaPasses /\ RabbitHolds /\ KafkaRepeats /\ RabbitRepeats
  BY DEF RelaysInv
<1>1. /\ handled[m] \in Nat /\ refused[m] \in Nat /\ ready[m] \in Nat /\ troubles \in Nat
      /\ Len(log) \in Nat /\ committed \in Nat /\ position \in [Readers -> Nat]
  BY <1>0 DEF TypeOK
<1>2. Cardinality(Handling(m)) \in Nat
  BY HandlingIs
<1>3. CASE site.relay = "kafka"
  <2>1. ASSUME Lost(m) PROVE refused[m] > 0
    <3>1. m \in sent /\ m \notin Unreadable /\ handled[m] = 0 /\ ~InTransit(m)
      BY <2>1 DEF Lost
    <3>2. PICK i \in 1..Len(log) : log[i] = m
      BY <1>0, <1>3, <3>1 DEF KafkaPasses
    <3>3. i \in 1..committed
      BY <1>1, <3>1, <3>2 DEF InTransit
    <3>4. Done(m)
      BY <1>0, <1>3, <3>2, <3>3 DEF KafkaPasses
    <3> QED
      BY <1>1, <3>1, <3>4 DEF Done
  <2>2. Entries(m) \in Nat /\ \A n \in Nat : n <= Len(log) => Cardinality(Upto(n, m)) <= Entries(m)
    BY <1>0, <1>3, EntriesIs
  <2>3. /\ Entries(m) * troubles \in Nat
        /\ Entries(m) * (troubles + 1) = Entries(m) * troubles + Entries(m)
    BY <1>1, <2>2, Times
  <2>4. handled[m] <= Entries(m) * troubles + Entries(m)
    <3>1. CASE \E r \in Readers : attached[r]
      <4>1. PICK r \in Readers : attached[r]
        BY <3>1
      <4>2. handled[m] + Cardinality(Handling(m))
              <= Entries(m) * troubles + Cardinality(Upto(position[r], m))
        BY <1>0, <1>3, <4>1 DEF KafkaRepeats
      <4>3. position[r] \in Nat /\ position[r] <= Len(log)
        BY <1>0, <1>1, <1>3, <4>1 DEF KafkaPasses, Passes
      <4>4. /\ Cardinality(Upto(position[r], m)) \in Nat
            /\ Cardinality(Upto(position[r], m)) <= Entries(m)
        BY <2>2, <4>3, UptoIs
      <4> QED
        BY <1>1, <1>2, <2>2, <2>3, <4>2, <4>4
    <3>2. CASE \A r \in Readers : ~attached[r]
      <4>1. handled[m] + Cardinality(Handling(m)) <= Entries(m) * troubles
        BY <1>0, <1>3, <3>2 DEF KafkaRepeats
      <4> QED
        BY <1>1, <1>2, <2>2, <2>3, <4>1
    <3> QED
      BY <3>1, <3>2
  <2>5. 1 + troubles = troubles + 1
    BY <1>1
  <2> QED
    BY <1>3, <2>1, <2>3, <2>4, <2>5
<1>4. CASE site.relay = "rabbitmq"
  <2>1. ASSUME Lost(m) PROVE m \in dropped \union vanished
    <3>1. m \in sent /\ m \notin Unreadable /\ handled[m] = 0 /\ ~InTransit(m)
      BY <2>1 DEF Lost
    <3>2. Gone(m) \/ Held(m)
      BY <1>0, <1>4, <3>1 DEF RabbitHolds
    <3>3. ~Held(m)
      BY <1>4, <3>1 DEF Held, InTransit
    <3> QED
      BY <3>2, <3>3 DEF Gone
  <2>2. handled[m] + Underway(m) + ready[m] + Cardinality(Handling(m))
          <= (IF m \in sent THEN 1 ELSE 0) + troubles
    BY <1>0, <1>4 DEF RabbitRepeats
  <2>3. handled[m] <= 1 + troubles
    <3>1. Underway(m) \in Nat
      BY DEF Underway
    <3> QED
      BY <1>1, <1>2, <2>2, <3>1
  <2>4. Entries(m) * (1 + troubles) = 1 + troubles
    BY <1>1, <1>4 DEF Entries
  <2> QED
    BY <2>1, <2>3, <2>4
<1> QED
  BY <1>0, <1>3, <1>4, SiteIs DEF TypeOK

\* What either relay published is handled, still under way or with the broker, or
\* was refused (kafka), dropped for want of a queue or lost with the connection
\* before the broker had it (rabbitmq, which confirms nothing); and each delivery beyond the
\* first is owed to something that went wrong, kafka owing one per entry: the
\* consumer groups of kafka.go and rabbitmq.go deliver at least once.
THEOREM DeliveredOrOwed == Spec => []AtLeastOnce
<1>1. Spec => []RelaysInv
  BY RelaysInitially, RelaysStep, PTL DEF Spec
<1> QED
  BY <1>1, OnlyWhatIsOwed, PTL
=============================================================================
