---------------------------- MODULE MCToluaRefs ----------------------------
(* ToluaRefs with two plain values, one metatable and four free slots.     *)
EXTENDS ToluaRefs, TLC

CONSTANTS f1, f2, m1

MCValues     == {f1, f2, m1}
MCMetaTables == {m1}
Symmetry     == Permutations({f1, f2})
=============================================================================
