----------------------------- MODULE MCDynConf -----------------------------
(* DynConf on a small instance.                                            *)
EXTENDS DynConf

CONSTANTS r1, r2

\* Two goroutines of one replica, and one in another.
TwoAndOne == {<<r1, 1>>, <<r1, 2>>, <<r2, 1>>}

\* One replica with both its goroutines; the two replicas.
TwoByTwo == {{<<r1, 1>>, <<r1, 2>>}, {<<r1, 1>>, <<r2, 1>>}}
=============================================================================
