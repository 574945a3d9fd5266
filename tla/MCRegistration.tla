--------------------------- MODULE MCRegistration ---------------------------
(* Registration alone, for the instance whose event is refused.            *)
EXTENDS Registration, TLC

\* Requests are interchangeable.
Symmetric == Permutations(Calls)
=============================================================================
