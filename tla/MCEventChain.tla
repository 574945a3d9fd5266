---------------------------- MODULE MCEventChain ----------------------------
(* EventChain on small instances; the constants are given in the cfg files. *)
EXTENDS EventChain, TLC

\* Messages and workers are interchangeable.
Symmetric == Permutations(Messages) \union Permutations(Workers)
=============================================================================
