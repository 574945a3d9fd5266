------------------------------ MODULE MCOutbox ------------------------------
(* Outbox on small instances.                                              *)
EXTENDS Outbox

CONSTANTS m1, m2, w1, w2

Site(d, t, l) == [driver |-> d, team |-> t, load |-> l]

\* The two drivers, one dispatcher and two.
AllSites ==
  {Site("memory", {w1}, {m1, m2}), Site("memory", {w1, w2}, {m1, m2}),
   Site("postgres", {w1}, {m1, m2}), Site("postgres", {w1, w2}, {m1})}

\* Two worker processes on one database.
SharedDatabase == {Site("postgres", {w1, w2}, {m1})}
=============================================================================
