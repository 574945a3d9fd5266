---------------------------- MODULE MCScheduler ----------------------------
(* Scheduler on small deployments.                                         *)
EXTENDS Scheduler

CONSTANTS r1, r2, t1, t2, loop, external

Site(d, R, n, m) == [driver |-> d, runs |-> R, pool |-> n, maxTroubles |-> m]

\* Two replicas and two tasks in trouble; the loop and an external trigger of
\* one task; a pool that the running tasks use up; the in-process elector.
AllSites ==
  {Site("advisory-lock", {r1, r2} \X {t1, t2} \X {loop} \ {<<r2, t2, loop>>}, 2, 1),
   Site("advisory-lock", {r1, r2} \X {t1} \X {loop, external} \ {<<r2, t1, external>>}, 2, 2),
   Site("advisory-lock", {r1} \X {t1, t2} \X {loop}, 1, 2),
   Site("cron-inproc", {r1} \X {t1, t2} \X {loop, external}, 1, 1)}
=============================================================================
