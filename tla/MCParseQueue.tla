---------------------------- MODULE MCParseQueue ----------------------------
(* Small instances of ParseQueue. *)
EXTENDS ParseQueue, TLC

CONSTANTS good, bad
=============================================================================
