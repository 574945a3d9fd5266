--------------------------- MODULE MCWorkerLoops ---------------------------
(* WorkerLoops alone, for the instance nothing is subscribed to.           *)
EXTENDS WorkerLoops
=============================================================================
