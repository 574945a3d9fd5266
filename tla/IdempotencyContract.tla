------------------------ MODULE IdempotencyContract ------------------------
(***************************************************************************)
(* What the idempotency ports promise about one key, whatever the driver:  *)
(* at most one call holds it, only that call memorises a response or gives *)
(* the key back, and from then on only expiry frees it.                    *)
(***************************************************************************)
CONSTANT Callers

VARIABLES
  holder,  \* the call the key is granted to
  memo     \* the call whose response is memorised

key == <<holder, memo>>

Init == holder = {} /\ memo = {}

Grant(c) ==
  /\ holder = {} /\ memo = {}
  /\ holder' = {c}
  /\ UNCHANGED memo

Memorise(c) ==
  /\ holder = {c}
  /\ holder' = {}
  /\ memo' = {c}

GiveBack(c) ==
  /\ holder = {c}
  /\ holder' = {}
  /\ UNCHANGED memo

Expire == holder' = {} /\ memo' = {}

Next == Expire \/ \E c \in Callers : Grant(c) \/ Memorise(c) \/ GiveBack(c)

Spec == Init /\ [][Next]_key
=============================================================================
