------------------------------ MODULE MCNavLock ------------------------------
(* Small instances of NavLock. *)
EXTENDS NavLock, TLC

CONSTANTS p1, p2, m1, m2, e1, l1, l2, u1, u2

RequestSymmetry == Permutations({l1, l2}) \cup Permutations({m1, m2})
=============================================================================
