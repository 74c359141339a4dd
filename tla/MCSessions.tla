----------------------------- MODULE MCSessions -----------------------------
(* Small instances of Sessions for TLC.                                    *)
EXTENDS Sessions, TLC

CONSTANTS u1, u2, t1, t2

Symmetry == Permutations(Threads) \cup Permutations(Persons)
=============================================================================
