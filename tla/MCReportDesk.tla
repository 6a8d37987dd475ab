---------------------------- MODULE MCReportDesk ----------------------------
(* A small instance of ReportDesk: a sheet of figures and a transcript. *)
EXTENDS ReportDesk, TLC

CONSTANTS mis, call, i1, q1, q2, a
Kind == mis :> "pdf" @@ call :> "transcript"
Symmetry == Permutations(Requests)
=============================================================================
