-------------------------- MODULE EventChainProofs --------------------------
(***************************************************************************)
(* From the outbox to the effect, for any number of messages, attempts and *)
(* troubles.  The guard's keys are in the memory of a worker, one key for  *)
(* all the consumers of a message: what that costs is in the hypotheses,   *)
(* a single worker, at most one consumer, each only where it is needed.    *)
(***************************************************************************)
EXTENDS EventChain, TLAPS

OneWorker == \A v, w \in Workers : v = w
OneConsumer == NConsumers <= 1

Steps == {"idle", "reserve", "handle", "complete", "returned", "record"}
KeyStates == {"free", "held", "done"}

ChainTypes ==
  /\ fate \in [Messages -> {"absent", "pending", "done", "failed"}]
  /\ published \in [Messages -> Nat] /\ missed \in [Messages -> Nat]
  /\ pc \in [Workers -> Steps]
  /\ msg \in [Workers -> SUBSET Messages]
  /\ turn \in [Workers -> Nat]
  /\ failed \in [Workers -> BOOLEAN]
  /\ key \in [Workers -> [Messages -> KeyStates]]
  /\ effects \in [Messages -> [Consumers -> Nat]]
  /\ refusals \in [Messages -> Nat]
  /\ panics \in Nat /\ crashes \in Nat /\ expiries \in Nat /\ lost \in Nat

\* A worker that delivers has one message, and a consumer whose turn it is.
Delivering ==
  \A w \in Workers :
    /\ pc[w] = "idle" => msg[w] = {}
    /\ pc[w] # "idle" => \E m \in Messages : msg[w] = {m}
    /\ pc[w] \in {"reserve", "handle", "complete"} => turn[w] \in Consumers

ChainInv == ChainTypes /\ Delivering

\* A key that is free has seen no more effects than there were losses of keys;
\* one that is lost under the handler has seen one fewer.
EffectsArePaid ==
  \A w \in Workers, m \in Messages, i \in Consumers :
    /\ effects[m][i] <= 1 + crashes + expiries
    /\ key[w][m] = "free" => effects[m][i] <= crashes + expiries
    /\ pc[w] = "handle" /\ m \in msg[w] =>
         /\ effects[m][i] <= crashes + expiries
         /\ key[w][m] = "free" => effects[m][i] < crashes + expiries

\* Whoever says that a message is handled is right.
SayingSo ==
  \A m \in Messages, i \in Consumers :
    \/ effects[m][i] > 0
    \/ /\ fate[m] # "done" /\ published[m] = 0
       /\ \A w \in Workers :
            /\ key[w][m] # "done"
            /\ m \in msg[w] =>
                 /\ pc[w] # "complete"
                 /\ pc[w] \in {"returned", "record"} => failed[w]

\* While nothing has blurred the picture, a key says where the worker stands.
Blurred == panics + crashes + expiries > 0

KeyTells ==
  \A w \in Workers, m \in Messages :
    /\ key[w][m] = "held" <=> m \in msg[w] /\ pc[w] \in {"handle", "complete"}
    /\ m \in msg[w] /\ pc[w] \in {"reserve", "handle", "complete"} => ~failed[w]
    /\ m \in msg[w] /\ pc[w] \in {"returned", "record"} /\ failed[w] =>
         key[w][m] = "free"
    /\ missed[m] <= refusals[m]
    /\ m \in msg[w] /\ pc[w] = "returned" /\ failed[w] => missed[m] < refusals[m]
    /\ m \in msg[w] => fate[m] = "pending"
    /\ \A i \in Consumers : effects[m][i] > 0 =>
         key[w][m] = "done" \/ (m \in msg[w] /\ pc[w] = "complete")

Unblurred == ~Blurred => KeyTells /\ GivenUpIsDeserved

\* What every step keeps; each hypothesis only where it is needed.
FullInv ==
  /\ ChainInv
  /\ OneWorker => EffectsArePaid
  /\ OneConsumer => SayingSo
  /\ OneWorker /\ OneConsumer => Unblurred

-----------------------------------------------------------------------------
LEMMA ChainInitially == Init => FullInv
<1> SUFFICES ASSUME Init PROVE FullInv
  OBVIOUS
<1> USE DEF Init, Outbox!Init
<1>1. ChainTypes
  BY DEF ChainTypes, Steps, KeyStates
<1>2. Delivering
  BY DEF Delivering
<1>3. EffectsArePaid
  BY DEF EffectsArePaid
<1>4. SayingSo
  BY DEF SayingSo
<1>5. Unblurred
  BY DEF Unblurred, KeyTells, GivenUpIsDeserved
<1> QED
  BY <1>1, <1>2, <1>3, <1>4, <1>5 DEF FullInv, ChainInv

\* A worker that delivers has its message and that message's key.
LEMMA HasMessage ==
  ASSUME ChainInv, NEW w \in Workers, pc[w] # "idle"
  PROVE  \E m \in Messages :
           msg[w] = {m} /\ KeyOf(w) = key[w][m] /\ key[w][m] \in KeyStates
<1>1. PICK m \in Messages : msg[w] = {m}
  BY DEF ChainInv, Delivering
<1>2. key[w][m] \in KeyStates
  BY DEF ChainInv, ChainTypes
<1>3. \A s : (\E n \in msg[w] : key[w][n] = s) <=> s = key[w][m]
  BY <1>1
<1>4. KeyOf(w) = key[w][m]
  BY <1>2, <1>3 DEF KeyOf, KeyStates
<1> QED
  BY <1>1, <1>2, <1>4

\* The other workers stand still.
OthersStill(w) ==
  \A v \in Workers : v # w =>
    /\ pc'[v] = pc[v] /\ msg'[v] = msg[v] /\ turn'[v] = turn[v]
    /\ failed'[v] = failed[v]
    /\ \A n \in Messages : key'[v][n] = key[v][n]

\* One key of one worker changes.
KeyBecomes(w, m, state) ==
  /\ key' \in [Workers -> [Messages -> KeyStates]]
  /\ key'[w][m] = state
  /\ \A v \in Workers, n \in Messages : v # w \/ n # m => key'[v][n] = key[v][n]

LEMMA SettingKey ==
  ASSUME ChainInv, NEW w \in Workers, NEW m \in Messages, msg[w] = {m},
         NEW state \in KeyStates, SetKey(w, state)
  PROVE  KeyBecomes(w, m, state)
<1>1. key' = [key EXCEPT ![w] = [n \in Messages |-> IF n = m THEN state ELSE key[w][n]]]
  BY DEF SetKey
<1>2. [n \in Messages |-> IF n = m THEN state ELSE key[w][n]] \in [Messages -> KeyStates]
  BY DEF ChainInv, ChainTypes
<1> QED
  BY <1>1, <1>2 DEF ChainInv, ChainTypes, KeyBecomes

\* A consumer has returned: the next one's turn, or the dispatcher's.
LEMMA HasConsumed ==
  ASSUME ChainInv, NEW w \in Workers, turn[w] \in Consumers,
         NEW error \in BOOLEAN, Consumed(w, error)
  PROVE  /\ pc' \in [Workers -> Steps] /\ turn' \in [Workers -> Nat]
         /\ failed' \in [Workers -> BOOLEAN] /\ msg' = msg
         /\ \A v \in Workers : v # w =>
              pc'[v] = pc[v] /\ turn'[v] = turn[v] /\ failed'[v] = failed[v]
         /\ pc'[w] = "returned" \/ (pc'[w] = "reserve" /\ turn'[w] \in Consumers)
         /\ OneConsumer => pc'[w] = "returned"
         /\ failed'[w] <=> failed[w] \/ error
<1>t. /\ pc \in [Workers -> Steps] /\ turn \in [Workers -> Nat]
      /\ failed \in [Workers -> BOOLEAN]
  BY DEF ChainInv, ChainTypes
<1>n. NConsumers \in Nat /\ turn[w] >= 1 /\ turn[w] <= NConsumers
  BY ConsumersAssumption DEF Consumers
<1>1. /\ turn' \in [Workers -> Nat] /\ turn'[w] = turn[w] + 1
      /\ \A v \in Workers : v # w => turn'[v] = turn[v]
  BY <1>t DEF Consumed
<1>2. /\ pc' \in [Workers -> Steps]
      /\ pc'[w] = (IF turn[w] < NConsumers THEN "reserve" ELSE "returned")
      /\ \A v \in Workers : v # w => pc'[v] = pc[v]
  BY <1>t DEF Consumed, Goto, Steps
<1>3. /\ failed' \in [Workers -> BOOLEAN]
      /\ failed'[w] <=> failed[w] \/ error
      /\ \A v \in Workers : v # w => failed'[v] = failed[v]
  <2>1. failed[w] \/ error \in BOOLEAN
    OBVIOUS
  <2>2. failed' = [failed EXCEPT ![w] = failed[w] \/ error]
    BY DEF Consumed
  <2> QED
    BY <1>t, <2>1, <2>2
<1>4. turn[w] < NConsumers => turn'[w] \in Consumers
  BY <1>n, <1>1 DEF Consumers
<1>5. OneConsumer => ~(turn[w] < NConsumers)
  BY <1>t, <1>n DEF OneConsumer
<1>6. msg' = msg
  BY DEF Consumed
<1> QED
  BY <1>1, <1>2, <1>3, <1>4, <1>5, <1>6

-----------------------------------------------------------------------------
LEMMA EnqueuePreserves ==
  ASSUME FullInv, NEW m \in Messages, Enqueue(m)
  PROVE  FullInv'
<1>t. ChainInv
  BY DEF FullInv
<1>0. /\ UNCHANGED <<pc, msg, turn, failed, key, effects, refusals, panics,
                     crashes, expiries, lost, published, missed>>
      /\ fate[m] = "absent" /\ fate' = [fate EXCEPT ![m] = "pending"]
  BY DEF Enqueue, Outbox!Accept, delivery, deeds, troubles
<1>1. /\ fate' \in [Messages -> {"absent", "pending", "done", "failed"}]
      /\ fate'[m] = "pending" /\ \A n \in Messages : n # m => fate'[n] = fate[n]
  BY <1>t, <1>0 DEF ChainInv, ChainTypes
<1>2. ChainInv'
  BY <1>t, <1>0, <1>1 DEF ChainInv, ChainTypes, Delivering
<1>3. EffectsArePaid => EffectsArePaid'
  BY <1>0 DEF EffectsArePaid
<1>4. SayingSo => SayingSo'
  BY <1>0, <1>1 DEF SayingSo
<1>5. Unblurred => Unblurred'
  BY <1>0, <1>1 DEF Unblurred, Blurred, KeyTells, GivenUpIsDeserved
<1> QED
  BY <1>2, <1>3, <1>4, <1>5 DEF FullInv, OneWorker, OneConsumer

LEMMA DeliverPreserves ==
  ASSUME FullInv, NEW w \in Workers, NEW m \in Messages, Deliver(w, m)
  PROVE  FullInv'
<1>t. ChainInv
  BY DEF FullInv
<1>0. /\ UNCHANGED <<fate, published, missed, key, effects, refusals, panics,
                     crashes, expiries, lost>>
      /\ pc[w] = "idle" /\ fate[m] = "pending" /\ msg[w] = {}
  BY <1>t DEF Deliver, outbox, deeds, troubles, ChainInv, Delivering
<1>1. /\ pc' \in [Workers -> Steps] /\ turn' \in [Workers -> Nat]
      /\ failed' \in [Workers -> BOOLEAN] /\ msg' \in [Workers -> SUBSET Messages]
      /\ pc'[w] = (IF NConsumers = 0 THEN "returned" ELSE "reserve")
      /\ turn'[w] = 1 /\ failed'[w] = FALSE /\ msg'[w] = {m}
      /\ \A v \in Workers : v # w =>
           pc'[v] = pc[v] /\ turn'[v] = turn[v] /\ failed'[v] = failed[v] /\ msg'[v] = msg[v]
  BY <1>t DEF ChainInv, ChainTypes, Deliver, Goto, Steps
<1>2. ChainInv'
  <2>1. ChainTypes'
    BY <1>t, <1>0, <1>1 DEF ChainInv, ChainTypes
  <2>2. NConsumers # 0 => 1 \in Consumers
    BY ConsumersAssumption DEF Consumers
  <2>3. Delivering'
    BY <1>t, <1>1, <2>2 DEF ChainInv, Delivering
  <2> QED
    BY <2>1, <2>3 DEF ChainInv
<1>3. EffectsArePaid => EffectsArePaid'
  BY <1>0, <1>1 DEF EffectsArePaid
<1>4. SayingSo => SayingSo'
  <2>1. \A i \in Consumers : NConsumers # 0
    BY ConsumersAssumption DEF Consumers
  <2> QED
    BY <1>0, <1>1, <2>1 DEF SayingSo
<1>5. ASSUME OneWorker, Unblurred, ~Blurred PROVE KeyTells' /\ GivenUpIsDeserved'
  <2>1. KeyTells /\ GivenUpIsDeserved /\ \A v \in Workers : v = w
    BY <1>5 DEF Unblurred, OneWorker
  <2>2. GivenUpIsDeserved'
    BY <1>0, <2>1 DEF GivenUpIsDeserved
  <2>3. KeyTells'
    BY <1>0, <1>1, <2>1 DEF KeyTells
  <2> QED
    BY <2>2, <2>3
<1>6. Blurred' <=> Blurred
  BY <1>0 DEF Blurred
<1> QED
  BY <1>2, <1>3, <1>4, <1>5, <1>6 DEF FullInv, OneWorker, OneConsumer, Unblurred

LEMMA ReservePreserves ==
  ASSUME FullInv, NEW w \in Workers, Reserve(w)
  PROVE  FullInv'
<1>t. ChainInv
  BY DEF FullInv
<1>m. PICK m \in Messages : msg[w] = {m} /\ KeyOf(w) = key[w][m]
  BY <1>t, HasMessage DEF Reserve
<1>0. /\ UNCHANGED <<fate, published, missed, effects, refusals, panics,
                     crashes, expiries, lost, msg, turn, failed>>
      /\ pc[w] = "reserve" /\ key[w][m] = "free"
  BY <1>m DEF Reserve, outbox, delivery, deeds, troubles
<1>k. KeyBecomes(w, m, "held")
  BY <1>t, <1>m, SettingKey DEF Reserve, KeyStates
<1>1. /\ pc' \in [Workers -> Steps] /\ pc'[w] = "handle"
      /\ \A v \in Workers : v # w => pc'[v] = pc[v]
  BY <1>t DEF ChainInv, ChainTypes, Reserve, Goto, Steps
<1>2. ChainInv'
  BY <1>t, <1>0, <1>1, <1>k DEF ChainInv, ChainTypes, Delivering, KeyBecomes
<1>3. OneWorker /\ EffectsArePaid => EffectsArePaid'
  BY <1>0, <1>1, <1>k, <1>m DEF EffectsArePaid, OneWorker, KeyBecomes
<1>4. SayingSo => SayingSo'
  BY <1>0, <1>1, <1>k DEF SayingSo, KeyBecomes
<1>5. ASSUME OneWorker, Unblurred, ~Blurred PROVE KeyTells' /\ GivenUpIsDeserved'
  <2>1. KeyTells /\ GivenUpIsDeserved /\ \A v \in Workers : v = w
    BY <1>5 DEF Unblurred, OneWorker
  <2>2. GivenUpIsDeserved'
    BY <1>0, <2>1 DEF GivenUpIsDeserved
  <2>3. KeyTells'
    BY <1>0, <1>1, <1>k, <1>m, <2>1 DEF KeyTells, KeyBecomes
  <2> QED
    BY <2>2, <2>3
<1>6. Blurred' <=> Blurred
  BY <1>0 DEF Blurred
<1> QED
  BY <1>2, <1>3, <1>4, <1>5, <1>6 DEF FullInv, OneWorker, OneConsumer, Unblurred

\* Once acknowledges what is done, and refuses what is in flight.
LEMMA ReplayPreserves ==
  ASSUME FullInv, NEW w \in Workers, Replay(w) \/ InFlight(w)
  PROVE  FullInv'
<1>t. ChainInv
  BY DEF FullInv
<1>m. PICK m \in Messages : msg[w] = {m} /\ KeyOf(w) = key[w][m]
  BY <1>t, HasMessage DEF Replay, InFlight
<1>0. /\ UNCHANGED <<fate, published, missed, effects, refusals, panics,
                     crashes, expiries, lost, key>>
      /\ pc[w] = "reserve"
  BY DEF Replay, InFlight, outbox, deeds, troubles
<1>c. PICK error \in BOOLEAN :
        /\ Consumed(w, error)
        /\ key[w][m] = IF error THEN "held" ELSE "done"
  BY <1>m DEF Replay, InFlight
<1>n. turn[w] \in Consumers
  BY <1>t, <1>0 DEF ChainInv, Delivering
<1>1. /\ pc' \in [Workers -> Steps] /\ turn' \in [Workers -> Nat]
      /\ failed' \in [Workers -> BOOLEAN] /\ msg' = msg
      /\ \A v \in Workers : v # w =>
           pc'[v] = pc[v] /\ turn'[v] = turn[v] /\ failed'[v] = failed[v]
      /\ pc'[w] = "returned" \/ (pc'[w] = "reserve" /\ turn'[w] \in Consumers)
      /\ OneConsumer => pc'[w] = "returned"
      /\ failed'[w] <=> failed[w] \/ error
  BY <1>t, <1>n, <1>c, HasConsumed
<1>2. ChainInv'
  <2>1. ChainTypes'
    BY <1>t, <1>0, <1>1 DEF ChainInv, ChainTypes
  <2>2. Delivering'
    BY <1>t, <1>0, <1>1 DEF ChainInv, Delivering
  <2> QED
    BY <2>1, <2>2 DEF ChainInv
<1>3. EffectsArePaid => EffectsArePaid'
  BY <1>0, <1>1 DEF EffectsArePaid
<1>4. SayingSo => SayingSo'
  BY <1>0, <1>1, <1>c, <1>m DEF SayingSo
<1>5. ASSUME OneWorker, OneConsumer, Unblurred, ~Blurred
      PROVE KeyTells' /\ GivenUpIsDeserved'
  <2>1. KeyTells /\ GivenUpIsDeserved /\ \A v \in Workers : v = w
    BY <1>5 DEF Unblurred, OneWorker
  <2>2. GivenUpIsDeserved'
    BY <1>0, <2>1 DEF GivenUpIsDeserved
  <2>3. key[w][m] = "done" /\ ~failed'[w] /\ pc'[w] = "returned"
    BY <1>0, <1>1, <1>c, <1>m, <1>5, <2>1 DEF KeyTells
  <2>4. KeyTells'
    BY <1>0, <1>1, <1>m, <2>1, <2>3 DEF KeyTells
  <2> QED
    BY <2>2, <2>4
<1>6. Blurred' <=> Blurred
  BY <1>0 DEF Blurred
<1> QED
  BY <1>2, <1>3, <1>4, <1>5, <1>6 DEF FullInv, OneWorker, OneConsumer, Unblurred

-----------------------------------------------------------------------------
\* The handler had its effect, or not.
LEMMA OneMoreEffect ==
  ASSUME ChainInv, NEW w \in Workers, NEW m \in Messages, msg[w] = {m},
         turn[w] \in Consumers, HasEffect(w)
  PROVE  /\ effects' \in [Messages -> [Consumers -> Nat]]
         /\ effects'[m][turn[w]] = effects[m][turn[w]] + 1
         /\ \A n \in Messages, i \in Consumers :
              n # m \/ i # turn[w] => effects'[n][i] = effects[n][i]
<1>1. effects \in [Messages -> [Consumers -> Nat]]
  BY DEF ChainInv, ChainTypes
<1>2. \A n \in Messages : effects'[n] = IF n = m THEN [effects[n] EXCEPT ![turn[w]] = @ + 1]
                                       ELSE effects[n]
  BY DEF HasEffect
<1>3. effects' \in [Messages -> [Consumers -> Nat]]
  BY <1>1 DEF HasEffect
<1> QED
  BY <1>1, <1>2, <1>3

LEMMA SucceedsPreserves ==
  ASSUME FullInv, NEW w \in Workers, HandlerSucceeds(w)
  PROVE  FullInv'
<1>t. ChainInv
  BY DEF FullInv
<1>m. PICK m \in Messages : msg[w] = {m}
  BY <1>t, HasMessage DEF HandlerSucceeds
<1>0. /\ UNCHANGED <<fate, published, missed, refusals, panics,
                     crashes, expiries, lost, key, msg, turn, failed>>
      /\ pc[w] = "handle" /\ turn[w] \in Consumers
  BY <1>t DEF HandlerSucceeds, outbox, delivery, troubles, ChainInv, Delivering
<1>e. /\ effects' \in [Messages -> [Consumers -> Nat]]
      /\ effects'[m][turn[w]] = effects[m][turn[w]] + 1
      /\ \A n \in Messages, i \in Consumers :
           n # m \/ i # turn[w] => effects'[n][i] = effects[n][i]
  BY <1>t, <1>m, <1>0, OneMoreEffect DEF HandlerSucceeds
<1>n. /\ effects \in [Messages -> [Consumers -> Nat]]
      /\ crashes \in Nat /\ expiries \in Nat
  BY <1>t DEF ChainInv, ChainTypes
<1>1. /\ pc' \in [Workers -> Steps] /\ pc'[w] = "complete"
      /\ \A v \in Workers : v # w => pc'[v] = pc[v]
  BY <1>t DEF ChainInv, ChainTypes, HandlerSucceeds, Goto, Steps
<1>2. ChainInv'
  <2>1. ChainTypes'
    BY <1>t, <1>0, <1>1, <1>e DEF ChainInv, ChainTypes
  <2>2. Delivering'
    BY <1>t, <1>0, <1>1 DEF ChainInv, Delivering
  <2> QED
    BY <2>1, <2>2 DEF ChainInv
<1>3. ASSUME OneWorker, EffectsArePaid PROVE EffectsArePaid'
  <2> SUFFICES ASSUME NEW v \in Workers, NEW n \in Messages, NEW i \in Consumers
               PROVE  /\ effects'[n][i] <= 1 + crashes' + expiries'
                      /\ key'[v][n] = "free" => effects'[n][i] <= crashes' + expiries'
                      /\ pc'[v] = "handle" /\ n \in msg'[v] =>
                           /\ effects'[n][i] <= crashes' + expiries'
                           /\ key'[v][n] = "free" => effects'[n][i] < crashes' + expiries'
    BY DEF EffectsArePaid
  <2>1. v = w /\ pc'[v] # "handle"
    BY <1>3, <1>1 DEF OneWorker
  <2>2. CASE n = m /\ i = turn[w]
    <3>1. /\ effects[m][i] \in Nat /\ effects[m][i] <= crashes + expiries
          /\ key[w][m] = "free" => effects[m][i] < crashes + expiries
      BY <1>3, <1>0, <1>m, <1>n, <2>2 DEF EffectsArePaid
    <3> QED
      BY <1>0, <1>e, <1>n, <2>1, <2>2, <3>1
  <2>3. CASE n # m \/ i # turn[w]
    BY <1>3, <1>0, <1>e, <2>1, <2>3 DEF EffectsArePaid
  <2> QED
    BY <2>2, <2>3
<1>4. ASSUME OneConsumer, SayingSo PROVE SayingSo'
  <2>1. \A i \in Consumers : i = turn[w]
    BY <1>4, <1>0, ConsumersAssumption DEF OneConsumer, Consumers
  <2>2. \A n \in Messages, i \in Consumers : effects'[n][i] > 0 \/ (n # m /\ effects'[n][i] = effects[n][i])
    BY <1>e, <1>n, <2>1
  <2>3. \A n \in Messages : n # m => n \notin msg[w]
    BY <1>m
  <2> QED
    BY <1>4, <1>0, <1>1, <2>2, <2>3 DEF SayingSo
<1>5. ASSUME OneWorker, Unblurred, ~Blurred
      PROVE KeyTells' /\ GivenUpIsDeserved'
  <2>1. KeyTells /\ GivenUpIsDeserved /\ \A v \in Workers : v = w
    BY <1>5 DEF Unblurred, OneWorker
  <2>2. fate[m] = "pending"
    BY <1>m, <2>1 DEF KeyTells
  <2>3. GivenUpIsDeserved'
    BY <1>0, <1>e, <2>1, <2>2 DEF GivenUpIsDeserved
  <2>4. KeyTells'
    BY <1>0, <1>1, <1>e, <1>m, <2>1 DEF KeyTells
  <2> QED
    BY <2>3, <2>4
<1>6. Blurred' <=> Blurred
  BY <1>0 DEF Blurred
<1> QED
  BY <1>2, <1>3, <1>4, <1>5, <1>6 DEF FullInv, OneWorker, OneConsumer, Unblurred

LEMMA FailsPreserves ==
  ASSUME FullInv, NEW w \in Workers, HandlerFails(w)
  PROVE  FullInv'
<1>t. ChainInv
  BY DEF FullInv
<1>m. PICK m \in Messages : msg[w] = {m}
  BY <1>t, HasMessage DEF HandlerFails
<1>0. /\ UNCHANGED <<fate, published, missed, effects, panics,
                     crashes, expiries, lost>>
      /\ pc[w] = "handle" /\ turn[w] \in Consumers
  BY <1>t DEF HandlerFails, outbox, troubles, ChainInv, Delivering
<1>r. /\ refusals' \in [Messages -> Nat] /\ refusals'[m] = refusals[m] + 1
      /\ \A n \in Messages : n # m => refusals'[n] = refusals[n]
  BY <1>t, <1>m DEF HandlerFails, ChainInv, ChainTypes
<1>k. KeyBecomes(w, m, "free")
  BY <1>t, <1>m, SettingKey DEF HandlerFails, KeyStates
<1>1. /\ pc' \in [Workers -> Steps] /\ turn' \in [Workers -> Nat]
      /\ failed' \in [Workers -> BOOLEAN] /\ msg' = msg
      /\ \A v \in Workers : v # w =>
           pc'[v] = pc[v] /\ turn'[v] = turn[v] /\ failed'[v] = failed[v]
      /\ pc'[w] = "returned" \/ (pc'[w] = "reserve" /\ turn'[w] \in Consumers)
      /\ OneConsumer => pc'[w] = "returned"
      /\ failed'[w]
  <2>1. Consumed(w, TRUE)
    BY DEF HandlerFails
  <2> QED
    BY <1>t, <1>0, <2>1, HasConsumed
<1>n. /\ missed \in [Messages -> Nat] /\ refusals \in [Messages -> Nat]
  BY <1>t DEF ChainInv, ChainTypes
<1>2. ChainInv'
  <2>1. ChainTypes'
    BY <1>t, <1>0, <1>1, <1>r, <1>k DEF ChainInv, ChainTypes, KeyBecomes
  <2>2. Delivering'
    BY <1>t, <1>0, <1>1 DEF ChainInv, Delivering
  <2> QED
    BY <2>1, <2>2 DEF ChainInv
<1>3. ASSUME OneWorker, EffectsArePaid PROVE EffectsArePaid'
  <2>1. pc'[w] # "handle" /\ \A v \in Workers : v = w
    BY <1>3, <1>1 DEF OneWorker
  <2>2. \A i \in Consumers : effects[m][i] <= crashes + expiries
    BY <1>3, <1>0, <1>m DEF EffectsArePaid
  <2> QED
    BY <1>3, <1>0, <1>k, <2>1, <2>2 DEF EffectsArePaid, KeyBecomes
<1>4. SayingSo => SayingSo'
  BY <1>0, <1>1, <1>k DEF SayingSo, KeyBecomes
<1>5. ASSUME OneWorker, OneConsumer, Unblurred, ~Blurred
      PROVE KeyTells' /\ GivenUpIsDeserved'
  <2>1. KeyTells /\ GivenUpIsDeserved /\ \A v \in Workers : v = w
    BY <1>5 DEF Unblurred, OneWorker
  <2>2. fate[m] = "pending" /\ pc'[w] = "returned"
    BY <1>1, <1>5, <1>m, <2>1 DEF KeyTells
  <2>3. GivenUpIsDeserved'
    BY <1>0, <1>r, <2>1, <2>2 DEF GivenUpIsDeserved
  <2>4. \A i \in Consumers : ~(effects[m][i] > 0)
    BY <1>0, <1>m, <2>1 DEF KeyTells
  <2>5. KeyTells'
    BY <1>0, <1>1, <1>k, <1>m, <1>n, <1>r, <2>1, <2>2, <2>4 DEF KeyTells, KeyBecomes
  <2> QED
    BY <2>3, <2>5
<1>6. Blurred' <=> Blurred
  BY <1>0 DEF Blurred
<1> QED
  BY <1>2, <1>3, <1>4, <1>5, <1>6 DEF FullInv, OneWorker, OneConsumer, Unblurred

LEMMA PanicsPreserves ==
  ASSUME FullInv, NEW w \in Workers, HandlerPanics(w)
  PROVE  FullInv'
<1>t. ChainInv
  BY DEF FullInv
<1>m. PICK m \in Messages : msg[w] = {m}
  BY <1>t, HasMessage DEF HandlerPanics
<1>0. /\ UNCHANGED <<fate, published, missed, refusals,
                     crashes, expiries, lost, key, msg, turn>>
      /\ pc[w] = "handle" /\ turn[w] \in Consumers /\ panics' = panics + 1
  BY <1>t DEF HandlerPanics, outbox, ChainInv, Delivering
<1>n. /\ effects \in [Messages -> [Consumers -> Nat]]
      /\ panics \in Nat /\ crashes \in Nat /\ expiries \in Nat
  BY <1>t DEF ChainInv, ChainTypes
<1>e. /\ effects' \in [Messages -> [Consumers -> Nat]]
      /\ \A n \in Messages, i \in Consumers :
           \/ effects'[n][i] = effects[n][i]
           \/ n = m /\ effects'[n][i] = effects[n][i] + 1
  <2>1. CASE effects' = effects
    BY <1>n, <2>1
  <2>2. CASE HasEffect(w)
    BY <1>t, <1>m, <1>0, <2>2, OneMoreEffect
  <2> QED
    BY <2>1, <2>2 DEF HandlerPanics
<1>1. /\ pc' \in [Workers -> Steps] /\ failed' \in [Workers -> BOOLEAN]
      /\ pc'[w] = "returned" /\ failed'[w] = TRUE
      /\ \A v \in Workers : v # w => pc'[v] = pc[v] /\ failed'[v] = failed[v]
  BY <1>t DEF ChainInv, ChainTypes, HandlerPanics, Goto, Steps
<1>2. ChainInv'
  <2>1. panics' \in Nat
    BY <1>0, <1>n
  <2>2. ChainTypes'
    BY <1>t, <1>0, <1>1, <1>e, <2>1 DEF ChainInv, ChainTypes
  <2>3. Delivering'
    BY <1>t, <1>0, <1>1 DEF ChainInv, Delivering
  <2> QED
    BY <2>2, <2>3 DEF ChainInv
<1>3. ASSUME OneWorker, EffectsArePaid PROVE EffectsArePaid'
  <2> SUFFICES ASSUME NEW v \in Workers, NEW n \in Messages, NEW i \in Consumers
               PROVE  /\ effects'[n][i] <= 1 + crashes' + expiries'
                      /\ key'[v][n] = "free" => effects'[n][i] <= crashes' + expiries'
                      /\ pc'[v] = "handle" /\ n \in msg'[v] =>
                           /\ effects'[n][i] <= crashes' + expiries'
                           /\ key'[v][n] = "free" => effects'[n][i] < crashes' + expiries'
    BY DEF EffectsArePaid
  <2>1. v = w /\ pc'[v] # "handle"
    BY <1>3, <1>1 DEF OneWorker
  <2>2. CASE n = m
    <3>1. /\ effects[m][i] \in Nat /\ effects[m][i] <= crashes + expiries
          /\ key[w][m] = "free" => effects[m][i] < crashes + expiries
      BY <1>3, <1>0, <1>m, <1>n DEF EffectsArePaid
    <3>2. effects'[m][i] = effects[m][i] \/ effects'[m][i] = effects[m][i] + 1
      BY <1>e
    <3> QED
      BY <1>0, <1>n, <2>1, <2>2, <3>1, <3>2
  <2>3. CASE n # m
    BY <1>3, <1>0, <1>e, <2>1, <2>3 DEF EffectsArePaid
  <2> QED
    BY <2>2, <2>3
<1>4. SayingSo => SayingSo'
  <2>1. \A n \in Messages, i \in Consumers : effects[n][i] > 0 => effects'[n][i] > 0
    BY <1>e, <1>n
  <2> QED
    BY <1>0, <1>1, <2>1 DEF SayingSo
<1>5. Blurred'
  BY <1>0, <1>n DEF Blurred
<1> QED
  BY <1>2, <1>3, <1>4, <1>5 DEF FullInv, OneWorker, OneConsumer, Unblurred

LEMMA CompletePreserves ==
  ASSUME FullInv, NEW w \in Workers, Complete(w)
  PROVE  FullInv'
<1>t. ChainInv
  BY DEF FullInv
<1>m. PICK m \in Messages :
        msg[w] = {m} /\ KeyOf(w) = key[w][m] /\ key[w][m] \in KeyStates
  BY <1>t, HasMessage DEF Complete
<1>0. /\ UNCHANGED <<fate, published, missed, effects, refusals, panics,
                     crashes, expiries, lost>>
      /\ pc[w] = "complete" /\ turn[w] \in Consumers
  BY <1>t DEF Complete, outbox, deeds, troubles, ChainInv, Delivering
<1>k. KeyBecomes(w, m, IF key[w][m] = "free" THEN "free" ELSE "done")
  <2>1. CASE key[w][m] = "free"
    <3>1. key' = key
      BY <1>m, <2>1 DEF Complete
    <3> QED
      BY <1>t, <2>1, <3>1 DEF KeyBecomes, ChainInv, ChainTypes
  <2>2. CASE key[w][m] # "free"
    <3>1. SetKey(w, "done") /\ "done" \in KeyStates
      BY <1>m, <2>2 DEF Complete, KeyStates
    <3> QED
      BY <1>t, <1>m, <2>2, <3>1, SettingKey
  <2> QED
    BY <2>1, <2>2
<1>c. PICK error \in BOOLEAN : Consumed(w, error) /\ (error <=> key[w][m] = "free")
  BY <1>m DEF Complete
<1>1. /\ pc' \in [Workers -> Steps] /\ turn' \in [Workers -> Nat]
      /\ failed' \in [Workers -> BOOLEAN] /\ msg' = msg
      /\ \A v \in Workers : v # w =>
           pc'[v] = pc[v] /\ turn'[v] = turn[v] /\ failed'[v] = failed[v]
      /\ pc'[w] = "returned" \/ (pc'[w] = "reserve" /\ turn'[w] \in Consumers)
      /\ OneConsumer => pc'[w] = "returned"
      /\ failed'[w] <=> failed[w] \/ error
  BY <1>t, <1>0, <1>c, HasConsumed
<1>2. ChainInv'
  <2>1. ChainTypes'
    BY <1>t, <1>0, <1>1, <1>k DEF ChainInv, ChainTypes, KeyBecomes
  <2>2. Delivering'
    BY <1>t, <1>0, <1>1 DEF ChainInv, Delivering
  <2> QED
    BY <2>1, <2>2 DEF ChainInv
<1>3. ASSUME OneWorker, EffectsArePaid PROVE EffectsArePaid'
  <2>1. pc'[w] # "handle" /\ \A v \in Workers : v = w
    BY <1>3, <1>1 DEF OneWorker
  <2>2. \A n \in Messages : key'[w][n] = "free" => key[w][n] = "free"
    BY <1>k DEF KeyBecomes
  <2> QED
    BY <1>3, <1>0, <2>1, <2>2 DEF EffectsArePaid
<1>4. ASSUME OneConsumer, SayingSo PROVE SayingSo'
  <2>1. \A i \in Consumers : effects[m][i] > 0
    BY <1>4, <1>0, <1>m DEF SayingSo
  <2>2. \A n \in Messages : n # m => n \notin msg[w]
    BY <1>m
  <2> QED
    BY <1>4, <1>0, <1>1, <1>k, <2>1, <2>2 DEF SayingSo, KeyBecomes
<1>5. ASSUME OneWorker, OneConsumer, Unblurred, ~Blurred
      PROVE KeyTells' /\ GivenUpIsDeserved'
  <2>1. KeyTells /\ GivenUpIsDeserved /\ \A v \in Workers : v = w
    BY <1>5 DEF Unblurred, OneWorker
  <2>2. GivenUpIsDeserved'
    BY <1>0, <2>1 DEF GivenUpIsDeserved
  <2>3. /\ key[w][m] = "held" /\ ~failed'[w] /\ pc'[w] = "returned"
        /\ fate[m] = "pending" /\ missed[m] <= refusals[m]
    BY <1>0, <1>1, <1>5, <1>c, <1>m, <2>1 DEF KeyTells
  <2>4. key'[w][m] = "done"
    BY <1>k, <2>3 DEF KeyBecomes
  <2>5. KeyTells'
    <3> SUFFICES ASSUME NEW n \in Messages
                 PROVE
           /\ key'[w][n] = "held" <=> n \in msg'[w] /\ pc'[w] \in {"handle", "complete"}
           /\ n \in msg'[w] /\ pc'[w] \in {"reserve", "handle", "complete"} => ~failed'[w]
           /\ n \in msg'[w] /\ pc'[w] \in {"returned", "record"} /\ failed'[w] =>
                key'[w][n] = "free"
           /\ missed'[n] <= refusals'[n]
           /\ n \in msg'[w] /\ pc'[w] = "returned" /\ failed'[w] => missed'[n] < refusals'[n]
           /\ n \in msg'[w] => fate'[n] = "pending"
           /\ \A i \in Consumers : effects'[n][i] > 0 =>
                key'[w][n] = "done" \/ (n \in msg'[w] /\ pc'[w] = "complete")
      BY <2>1 DEF KeyTells
    <3>1. CASE n = m
      BY <1>0, <1>1, <2>3, <2>4, <3>1
    <3>2. CASE n # m
      <4>1. n \notin msg[w] /\ key'[w][n] = key[w][n]
        BY <1>m, <1>k, <3>2 DEF KeyBecomes
      <4> QED
        BY <1>0, <1>1, <2>1, <4>1 DEF KeyTells
    <3> QED
      BY <3>1, <3>2
  <2> QED
    BY <2>2, <2>5
<1>6. Blurred' <=> Blurred
  BY <1>0 DEF Blurred
<1> QED
  BY <1>2, <1>3, <1>4, <1>5, <1>6 DEF FullInv, OneWorker, OneConsumer, Unblurred
-----------------------------------------------------------------------------
\* The outbox counts what the bus returned.
LEMMA ReturnPreserves ==
  ASSUME FullInv, NEW w \in Workers, Return(w)
  PROVE  FullInv'
<1>t. ChainInv
  BY DEF FullInv
<1>m. PICK m \in Messages : msg[w] = {m}
  BY <1>t, HasMessage DEF Return
<1>0. /\ UNCHANGED <<effects, refusals, panics, crashes, expiries, lost, key,
                     msg, turn, failed>>
      /\ pc[w] = "returned"
  BY DEF Return, delivery, deeds, troubles
<1>n. /\ missed \in [Messages -> Nat] /\ refusals \in [Messages -> Nat]
      /\ published \in [Messages -> Nat]
  BY <1>t DEF ChainInv, ChainTypes
<1>o. /\ fate' = fate
      /\ published' \in [Messages -> Nat] /\ missed' \in [Messages -> Nat]
      /\ \A n \in Messages : n # m => published'[n] = published[n] /\ missed'[n] = missed[n]
      /\ failed[w] => published'[m] = published[m] /\ missed'[m] = missed[m] + 1
      /\ ~failed[w] => missed'[m] = missed[m]
  <2>1. IF failed[w] THEN Outbox!Miss(m) ELSE Outbox!Succeed(m)
    BY <1>m DEF Return
  <2> QED
    BY <1>n, <2>1 DEF Outbox!Miss, Outbox!Succeed
<1>1. /\ pc' \in [Workers -> Steps] /\ pc'[w] = "record"
      /\ \A v \in Workers : v # w => pc'[v] = pc[v]
  BY <1>t DEF ChainInv, ChainTypes, Return, Goto, Steps
<1>2. ChainInv'
  <2>1. ChainTypes'
    BY <1>t, <1>0, <1>1, <1>o DEF ChainInv, ChainTypes
  <2>2. Delivering'
    BY <1>t, <1>0, <1>1 DEF ChainInv, Delivering
  <2> QED
    BY <2>1, <2>2 DEF ChainInv
<1>3. EffectsArePaid => EffectsArePaid'
  BY <1>0, <1>1 DEF EffectsArePaid
<1>4. ASSUME SayingSo PROVE SayingSo'
  <2>1. \A i \in Consumers : effects[m][i] > 0 \/ failed[w]
    BY <1>4, <1>0, <1>m DEF SayingSo
  <2>2. \A n \in Messages, i \in Consumers :
          effects[n][i] > 0 \/ published'[n] = published[n]
    BY <1>o, <2>1
  <2> QED
    BY <1>4, <1>0, <1>1, <1>o, <2>2 DEF SayingSo
<1>5. ASSUME OneWorker, Unblurred, ~Blurred PROVE KeyTells' /\ GivenUpIsDeserved'
  <2>1. KeyTells /\ GivenUpIsDeserved /\ \A v \in Workers : v = w
    BY <1>5 DEF Unblurred, OneWorker
  <2>2. GivenUpIsDeserved'
    BY <1>0, <1>o, <2>1 DEF GivenUpIsDeserved
  <2>3. missed'[m] <= refusals'[m]
    <3>1. missed[m] <= refusals[m] /\ (failed[w] => missed[m] < refusals[m])
      BY <1>0, <1>m, <2>1 DEF KeyTells
    <3> QED
      BY <1>0, <1>n, <1>o, <3>1
  <2>4. \A n \in Messages : missed'[n] <= refusals'[n]
    BY <1>0, <1>o, <2>1, <2>3 DEF KeyTells
  <2>5. KeyTells'
    BY <1>0, <1>1, <1>o, <1>m, <2>1, <2>4 DEF KeyTells
  <2> QED
    BY <2>2, <2>5
<1>6. Blurred' <=> Blurred
  BY <1>0 DEF Blurred
<1> QED
  BY <1>2, <1>3, <1>4, <1>5, <1>6 DEF FullInv, OneWorker, OneConsumer, Unblurred

\* The worker has nothing to deliver any more.
LEMMA HasLeft ==
  ASSUME ChainInv, NEW w \in Workers, Leave(w), Goto(w, "idle")
  PROVE  /\ pc' \in [Workers -> Steps] /\ msg' \in [Workers -> SUBSET Messages]
         /\ turn' \in [Workers -> Nat] /\ failed' \in [Workers -> BOOLEAN]
         /\ pc'[w] = "idle" /\ msg'[w] = {}
         /\ \A v \in Workers : v # w =>
              /\ pc'[v] = pc[v] /\ msg'[v] = msg[v] /\ turn'[v] = turn[v]
              /\ failed'[v] = failed[v]
  BY DEF ChainInv, ChainTypes, Leave, Goto, Steps

\* The verdict is recorded, or put off until the next attempt.
LEMMA RecordPreserves ==
  ASSUME FullInv, NEW w \in Workers, Record(w)
  PROVE  FullInv'
<1>t. ChainInv
  BY DEF FullInv
<1>m. PICK m \in Messages : msg[w] = {m}
  BY <1>t, HasMessage DEF Record
<1>0. /\ UNCHANGED <<effects, refusals, panics, crashes, expiries, lost, key>>
      /\ pc[w] = "record"
  BY DEF Record, deeds, troubles
<1>n. /\ missed \in [Messages -> Nat] /\ refusals \in [Messages -> Nat]
  BY <1>t DEF ChainInv, ChainTypes
<1>o. /\ UNCHANGED <<published, missed>>
      /\ fate' \in [Messages -> {"absent", "pending", "done", "failed"}]
      /\ \A n \in Messages : n # m => fate'[n] = fate[n]
      /\ \/ fate'[m] = fate[m]
         \/ fate'[m] = "done" /\ published[m] > 0
         \/ fate'[m] = "failed" /\ failed[w] /\ missed[m] >= MaxAttempts
  <2>1. \/ Outbox!Settle(m)
        \/ failed[w] /\ Outbox!GiveUp(m)
        \/ UNCHANGED outbox
    BY <1>m DEF Record
  <2>2. fate \in [Messages -> {"absent", "pending", "done", "failed"}]
    BY <1>t DEF ChainInv, ChainTypes
  <2>3. CASE Outbox!Settle(m)
    BY <2>2, <2>3 DEF Outbox!Settle
  <2>4. CASE failed[w] /\ Outbox!GiveUp(m)
    BY <2>2, <2>4 DEF Outbox!GiveUp
  <2>5. CASE UNCHANGED outbox
    BY <2>2, <2>5 DEF outbox
  <2> QED
    BY <2>1, <2>3, <2>4, <2>5
<1>1. /\ pc' \in [Workers -> Steps] /\ msg' \in [Workers -> SUBSET Messages]
      /\ turn' \in [Workers -> Nat] /\ failed' \in [Workers -> BOOLEAN]
      /\ pc'[w] = "idle" /\ msg'[w] = {}
      /\ \A v \in Workers : v # w =>
           /\ pc'[v] = pc[v] /\ msg'[v] = msg[v] /\ turn'[v] = turn[v]
           /\ failed'[v] = failed[v]
  <2>1. Leave(w) /\ Goto(w, "idle")
    BY DEF Record
  <2> QED
    BY <1>t, <2>1, HasLeft
<1>2. ChainInv'
  <2>1. ChainTypes'
    BY <1>t, <1>0, <1>1, <1>o DEF ChainInv, ChainTypes
  <2>2. Delivering'
    BY <1>t, <1>1 DEF ChainInv, Delivering
  <2> QED
    BY <2>1, <2>2 DEF ChainInv
<1>3. EffectsArePaid => EffectsArePaid'
  BY <1>0, <1>1 DEF EffectsArePaid
<1>4. ASSUME SayingSo PROVE SayingSo'
  <2>1. \A i \in Consumers : effects[m][i] > 0 \/ ~(published[m] > 0)
    BY <1>4 DEF SayingSo
  <2>2. \A n \in Messages, i \in Consumers :
          effects[n][i] > 0 \/ fate[n] = "done" \/ fate'[n] # "done"
    BY <1>o, <2>1
  <2> QED
    BY <1>4, <1>0, <1>1, <1>o, <2>2 DEF SayingSo
<1>5. ASSUME OneWorker, Unblurred, ~Blurred PROVE KeyTells' /\ GivenUpIsDeserved'
  <2>1. KeyTells /\ GivenUpIsDeserved /\ \A v \in Workers : v = w
    BY <1>5 DEF Unblurred, OneWorker
  <2>2. /\ missed[m] <= refusals[m] /\ key[w][m] # "held" /\ fate[m] = "pending"
        /\ failed[w] => key[w][m] = "free"
        /\ \A i \in Consumers : effects[m][i] > 0 => key[w][m] = "done"
    BY <1>0, <1>m, <2>1 DEF KeyTells
  <2>3. ASSUME fate'[m] = "failed"
        PROVE  refusals[m] >= MaxAttempts /\ \A i \in Consumers : effects[m][i] = 0
    <3>1. failed[w] /\ missed[m] >= MaxAttempts
      BY <1>o, <2>2, <2>3
    <3>2. \A i \in Consumers : effects[m][i] \in Nat
      BY <1>t DEF ChainInv, ChainTypes
    <3>3. \A i \in Consumers : effects[m][i] = 0
      BY <2>2, <3>1, <3>2
    <3>4. refusals[m] >= MaxAttempts
      BY <1>n, <2>2, <3>1, PolicyAssumption
    <3> QED
      BY <3>3, <3>4
  <2>4. GivenUpIsDeserved'
    BY <1>0, <1>o, <2>1, <2>3 DEF GivenUpIsDeserved
  <2>5. KeyTells'
    BY <1>0, <1>1, <1>o, <1>m, <2>1, <2>2 DEF KeyTells
  <2> QED
    BY <2>4, <2>5
<1>6. Blurred' <=> Blurred
  BY <1>0 DEF Blurred
<1> QED
  BY <1>2, <1>3, <1>4, <1>5, <1>6 DEF FullInv, OneWorker, OneConsumer, Unblurred

LEMMA RecordIsLostPreserves ==
  ASSUME FullInv, NEW w \in Workers, RecordIsLost(w)
  PROVE  FullInv'
<1>t. ChainInv
  BY DEF FullInv
<1>m. PICK m \in Messages : msg[w] = {m}
  BY <1>t, HasMessage DEF RecordIsLost
<1>0. /\ UNCHANGED <<fate, published, missed, effects, refusals, panics,
                     crashes, expiries, key>>
      /\ pc[w] = "record" /\ lost' = lost + 1
  BY DEF RecordIsLost, deeds, outbox
<1>1. /\ pc' \in [Workers -> Steps] /\ msg' \in [Workers -> SUBSET Messages]
      /\ turn' \in [Workers -> Nat] /\ failed' \in [Workers -> BOOLEAN]
      /\ pc'[w] = "idle" /\ msg'[w] = {}
      /\ \A v \in Workers : v # w =>
           /\ pc'[v] = pc[v] /\ msg'[v] = msg[v] /\ turn'[v] = turn[v]
           /\ failed'[v] = failed[v]
  <2>1. Leave(w) /\ Goto(w, "idle")
    BY DEF RecordIsLost
  <2> QED
    BY <1>t, <2>1, HasLeft
<1>2. ChainInv'
  <2>1. lost' \in Nat
    BY <1>t, <1>0 DEF ChainInv, ChainTypes
  <2>2. ChainTypes'
    BY <1>t, <1>0, <1>1, <2>1 DEF ChainInv, ChainTypes
  <2>3. Delivering'
    BY <1>t, <1>1 DEF ChainInv, Delivering
  <2> QED
    BY <2>2, <2>3 DEF ChainInv
<1>3. EffectsArePaid => EffectsArePaid'
  BY <1>0, <1>1 DEF EffectsArePaid
<1>4. SayingSo => SayingSo'
  BY <1>0, <1>1 DEF SayingSo
<1>5. ASSUME OneWorker, Unblurred, ~Blurred PROVE KeyTells' /\ GivenUpIsDeserved'
  <2>1. KeyTells /\ GivenUpIsDeserved /\ \A v \in Workers : v = w
    BY <1>5 DEF Unblurred, OneWorker
  <2>2. GivenUpIsDeserved'
    BY <1>0, <2>1 DEF GivenUpIsDeserved
  <2>3. KeyTells'
    BY <1>0, <1>1, <1>m, <2>1 DEF KeyTells
  <2> QED
    BY <2>2, <2>3
<1>6. Blurred' <=> Blurred
  BY <1>0 DEF Blurred
<1> QED
  BY <1>2, <1>3, <1>4, <1>5, <1>6 DEF FullInv, OneWorker, OneConsumer, Unblurred

\* The keys of a process go with it: every effect may be had once more.
LEMMA CrashPreserves ==
  ASSUME FullInv, NEW w \in Workers, Crash(w)
  PROVE  FullInv'
<1>t. ChainInv
  BY DEF FullInv
<1>n. /\ effects \in [Messages -> [Consumers -> Nat]]
      /\ panics \in Nat /\ crashes \in Nat /\ expiries \in Nat
  BY <1>t DEF ChainInv, ChainTypes
<1>0. /\ UNCHANGED <<fate, published, missed, effects, refusals, panics,
                     expiries, lost>>
      /\ crashes' = crashes + 1
  BY DEF Crash, deeds, outbox
<1>k. /\ key' \in [Workers -> [Messages -> KeyStates]]
      /\ \A n \in Messages : key'[w][n] = "free"
      /\ \A v \in Workers : v # w => key'[v] = key[v]
  BY <1>t DEF Crash, ChainInv, ChainTypes, KeyStates
<1>1. /\ pc' \in [Workers -> Steps] /\ msg' \in [Workers -> SUBSET Messages]
      /\ turn' \in [Workers -> Nat] /\ failed' \in [Workers -> BOOLEAN]
      /\ pc'[w] = "idle" /\ msg'[w] = {}
      /\ \A v \in Workers : v # w =>
           /\ pc'[v] = pc[v] /\ msg'[v] = msg[v] /\ turn'[v] = turn[v]
           /\ failed'[v] = failed[v]
  <2>1. Leave(w) /\ Goto(w, "idle")
    BY DEF Crash
  <2> QED
    BY <1>t, <2>1, HasLeft
<1>2. ChainInv'
  <2>1. crashes' \in Nat
    BY <1>n, <1>0
  <2>2. ChainTypes'
    BY <1>t, <1>0, <1>1, <1>k, <2>1 DEF ChainInv, ChainTypes
  <2>3. Delivering'
    BY <1>t, <1>1 DEF ChainInv, Delivering
  <2> QED
    BY <2>2, <2>3 DEF ChainInv
<1>3. ASSUME OneWorker, EffectsArePaid PROVE EffectsArePaid'
  <2>1. \A v \in Workers : v = w
    BY <1>3 DEF OneWorker
  <2>2. \A n \in Messages, i \in Consumers :
          effects'[n][i] <= crashes' + expiries' /\ effects'[n][i] <= 1 + crashes' + expiries'
    BY <1>3, <1>0, <1>n DEF EffectsArePaid
  <2> QED
    BY <1>1, <2>1, <2>2 DEF EffectsArePaid
<1>4. SayingSo => SayingSo'
  BY <1>0, <1>1, <1>k DEF SayingSo
<1>5. Blurred'
  BY <1>0, <1>n DEF Blurred
<1> QED
  BY <1>2, <1>3, <1>4, <1>5 DEF FullInv, OneWorker, OneConsumer, Unblurred

LEMMA ExpirePreserves ==
  ASSUME FullInv, NEW w \in Workers, NEW m \in Messages, Expire(w, m)
  PROVE  FullInv'
<1>t. ChainInv
  BY DEF FullInv
<1>n. /\ effects \in [Messages -> [Consumers -> Nat]]
      /\ panics \in Nat /\ crashes \in Nat /\ expiries \in Nat
  BY <1>t DEF ChainInv, ChainTypes
<1>0. /\ UNCHANGED <<fate, published, missed, effects, refusals, panics,
                     crashes, lost, pc, msg, turn, failed>>
      /\ expiries' = expiries + 1
  BY DEF Expire, deeds, outbox, delivery
<1>k. KeyBecomes(w, m, "free")
  BY <1>t DEF Expire, ChainInv, ChainTypes, KeyStates, KeyBecomes
<1>2. ChainInv'
  <2>1. expiries' \in Nat
    BY <1>n, <1>0
  <2>2. ChainTypes'
    BY <1>t, <1>0, <1>k, <2>1 DEF ChainInv, ChainTypes, KeyBecomes
  <2>3. Delivering'
    BY <1>t, <1>0 DEF ChainInv, Delivering
  <2> QED
    BY <2>2, <2>3 DEF ChainInv
<1>3. ASSUME EffectsArePaid PROVE EffectsArePaid'
  <2> SUFFICES ASSUME NEW v \in Workers, NEW n \in Messages, NEW i \in Consumers
               PROVE  /\ effects'[n][i] <= 1 + crashes' + expiries'
                      /\ key'[v][n] = "free" => effects'[n][i] <= crashes' + expiries'
                      /\ pc'[v] = "handle" /\ n \in msg'[v] =>
                           /\ effects'[n][i] <= crashes' + expiries'
                           /\ key'[v][n] = "free" => effects'[n][i] < crashes' + expiries'
    BY DEF EffectsArePaid
  <2>1. /\ effects[n][i] \in Nat /\ effects[n][i] <= 1 + crashes + expiries
        /\ pc[v] = "handle" /\ n \in msg[v] => effects[n][i] <= crashes + expiries
    BY <1>3, <1>n DEF EffectsArePaid
  <2> QED
    BY <1>0, <1>n, <2>1
<1>4. SayingSo => SayingSo'
  BY <1>0, <1>k DEF SayingSo, KeyBecomes
<1>5. Blurred'
  BY <1>0, <1>n DEF Blurred
<1> QED
  BY <1>2, <1>3, <1>4, <1>5 DEF FullInv, OneWorker, OneConsumer, Unblurred

-----------------------------------------------------------------------------
LEMMA ChainStep == FullInv /\ [Next]_vars => FullInv'
<1> SUFFICES ASSUME FullInv, [Next]_vars PROVE FullInv'
  OBVIOUS
<1>1. ASSUME NEW m \in Messages, Enqueue(m) PROVE FullInv'
  BY <1>1, EnqueuePreserves
<1>2. ASSUME NEW w \in Workers, NEW m \in Messages, Deliver(w, m) PROVE FullInv'
  BY <1>2, DeliverPreserves
<1>3. ASSUME NEW w \in Workers, NEW m \in Messages, Expire(w, m) PROVE FullInv'
  BY <1>3, ExpirePreserves
<1>4. ASSUME NEW w \in Workers, Reserve(w) PROVE FullInv'
  BY <1>4, ReservePreserves
<1>5. ASSUME NEW w \in Workers, Replay(w) \/ InFlight(w) PROVE FullInv'
  BY <1>5, ReplayPreserves
<1>6. ASSUME NEW w \in Workers, HandlerSucceeds(w) PROVE FullInv'
  BY <1>6, SucceedsPreserves
<1>7. ASSUME NEW w \in Workers, HandlerFails(w) PROVE FullInv'
  BY <1>7, FailsPreserves
<1>8. ASSUME NEW w \in Workers, HandlerPanics(w) PROVE FullInv'
  BY <1>8, PanicsPreserves
<1>9. ASSUME NEW w \in Workers, Complete(w) PROVE FullInv'
  BY <1>9, CompletePreserves
<1>10. ASSUME NEW w \in Workers, Return(w) PROVE FullInv'
  BY <1>10, ReturnPreserves
<1>11. ASSUME NEW w \in Workers, Record(w) PROVE FullInv'
  BY <1>11, RecordPreserves
<1>12. ASSUME NEW w \in Workers, RecordIsLost(w) PROVE FullInv'
  BY <1>12, RecordIsLostPreserves
<1>13. ASSUME NEW w \in Workers, Crash(w) PROVE FullInv'
  BY <1>13, CrashPreserves
<1>14. ASSUME UNCHANGED vars PROVE FullInv'
  <2>1. UNCHANGED <<fate, published, missed, pc, msg, turn, failed, key, effects,
                    refusals, panics, crashes, expiries, lost>>
    BY <1>14 DEF vars, outbox, delivery, deeds, troubles
  <2>2. ChainInv => ChainInv'
    BY <2>1 DEF ChainInv, ChainTypes, Delivering
  <2>3. EffectsArePaid => EffectsArePaid'
    BY <2>1 DEF EffectsArePaid
  <2>4. SayingSo => SayingSo'
    BY <2>1 DEF SayingSo
  <2>5. Unblurred => Unblurred'
    BY <2>1 DEF Unblurred, Blurred, KeyTells, GivenUpIsDeserved
  <2> QED
    BY <2>2, <2>3, <2>4, <2>5 DEF FullInv, OneWorker, OneConsumer
<1> QED
  BY <1>1, <1>2, <1>3, <1>4, <1>5, <1>6, <1>7, <1>8, <1>9, <1>10, <1>11, <1>12,
     <1>13, <1>14 DEF Next

LEMMA ChainInvariant == Spec => []FullInv
  BY ChainInitially, ChainStep, PTL DEF Spec

-----------------------------------------------------------------------------
\* Whatever is refused, panics, crashes, expires or fails to be recorded, and
\* with any number of workers: a message that MarkDone recorded has had its
\* effect (publisher.go, once.go).  With at most one consumer: the key of the
\* first would be taken for the second's.
THEOREM DoneMeansDone ==
  ASSUME OneConsumer
  PROVE  Spec => []DoneHasEffect
<1>1. FullInv => DoneHasEffect
  BY OneConsumer DEF FullInv, SayingSo, DoneHasEffect
<1> QED
  BY <1>1, ChainInvariant, PTL

\* With one worker, once.go keeps its word: an effect is only repeated when a
\* key was lost, by a crash or at the end of its TTL, and once for each loss;
\* refusals, panics and lost verdicts repeat nothing.
THEOREM EffectsAreNotRepeated ==
  ASSUME NEW worker, Workers = {worker}
  PROVE  Spec => []EffectOnce
<1>1. FullInv => EffectOnce
  BY Workers = {worker} DEF FullInv, OneWorker, EffectsArePaid, EffectOnce
<1> QED
  BY <1>1, ChainInvariant, PTL

\* One worker, at most one consumer, no panic, crash or expiry: MarkFailed only
\* gives up a message whose consumer refused it MaxAttempts times, and which
\* had no effect.
THEOREM GivingUpIsRight ==
  ASSUME OneWorker, OneConsumer
  PROVE  Spec => []GivenUpIsDeserved
<1>1. FullInv => GivenUpIsDeserved
  BY OneWorker, OneConsumer
     DEF FullInv, ChainInv, ChainTypes, Unblurred, Blurred, GivenUpIsDeserved
<1> QED
  BY <1>1, ChainInvariant, PTL
=============================================================================
