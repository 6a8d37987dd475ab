------------------------------ MODULE MCFlagJob ------------------------------
(* Small instances of FlagJob. *)
EXTENDS FlagJob, TLC

CONSTANTS c1, c2, short, j1, j2, j3
=============================================================================
