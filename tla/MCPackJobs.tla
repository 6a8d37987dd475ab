----------------------------- MODULE MCPackJobs -----------------------------
(* A small instance of PackJobs. *)
EXTENDS PackJobs

CONSTANTS q1, a, b
=============================================================================
