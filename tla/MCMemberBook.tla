---------------------------- MODULE MCMemberBook ----------------------------
(* Small instances of MemberBook. *)
EXTENDS MemberBook, TLC

CONSTANTS ana, ben, orgA, orgB, orgC, inv, r1, r2
Symmetry == Permutations(Users) \cup Permutations(Orgs) \cup Permutations(Requests)
=============================================================================
