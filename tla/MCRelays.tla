------------------------------ MODULE MCRelays ------------------------------
(* Relays on small deployments.                                            *)
EXTENDS Relays

CONSTANTS c1, c2

Site(d, q, u, n, k) ==
  [relay |-> d, queue |-> q, unreadable |-> u, maxRefusals |-> n,
   maxTroubles |-> k]

\* Each relay with a refusal, with an envelope nobody can read, and rabbitmq on
\* its very first start.
AllSites ==
  {Site("kafka", FALSE, {}, 1, 3), Site("kafka", FALSE, {1}, 1, 2),
   Site("rabbitmq", TRUE, {2}, 1, 3), Site("rabbitmq", FALSE, {}, 0, 1)}

\* kafka, where nothing goes wrong but one refusal.
OneRefusal == {Site("kafka", FALSE, {}, 1, 0)}

\* rabbitmq, where nothing goes wrong but one lost connection.
OneTrouble == {Site("rabbitmq", TRUE, {}, 0, 1)}
=============================================================================
