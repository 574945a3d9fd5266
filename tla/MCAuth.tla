------------------------------- MODULE MCAuth -------------------------------
(* Auth on small instances; the constants are given in the cfg files.      *)
EXTENDS Auth, TLC

\* A role is defined empty, with the right to close accounts, or with all.
Sets == {{}, {"auth.identity.close"}}

\* Connections are interchangeable.
Symmetric == Permutations(Callers)
=============================================================================
