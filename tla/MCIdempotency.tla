--------------------------- MODULE MCIdempotency ---------------------------
(* Idempotency on a small instance.                                        *)
EXTENDS Idempotency

\* The three drivers, with operations that keep to their TTL and that do not.
AllSites ==
  [driver : {"memory", "postgres", "redis"}, overrun : BOOLEAN]
=============================================================================
