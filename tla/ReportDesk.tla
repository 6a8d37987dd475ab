----------------------------- MODULE ReportDesk -----------------------------
(***************************************************************************)
(* What reports say: they are drafted from the book and its commentary and *)
(* edited on their pages.  Of a company's page the two lanes are kept;     *)
(* title and cover note are saved the way lanes are.  The job that renders *)
(* a pack's file (module PackJobs) writes other columns of the row.        *)
(***************************************************************************)
EXTENDS CommentaryLanes

CONSTANTS
  Reports,
  Kinds \* report kinds that occur

Columns == [Lanes -> SUBSET Texts]
Report == [kind : Kinds, period : Periods \cup {Null}, pages : Columns, rows : Columns \cup {Null}]

ASSUME ReportDeskAssumption ==
  /\ Kinds \subseteq {"one_pager", "portfolio", "monthly_pack"}
  /\ Null \notin Report

VARIABLES
  report,  \* rows of table reports: [kind, period, pages, rows], or Null
  saved,   \* (history) the lanes that the edits, one after another, give
  overlaps \* (history) reports with an edit that another edit ran over

deskVars == <<report, saved, overlaps>>
vars == <<laneVars, deskVars>>

Init ==
  /\ LaneInit
  /\ report = [r \in Reports |-> Null]
  /\ saved = [r \in Reports |-> Null]
  /\ overlaps = {}
-----------------------------------------------------------------------------
(* The notes of a period, or all of them, by lane.                         *)
NotesOf(period) ==
  [lane \in Lanes |-> {n.text : n \in {m \in notes : m.lane = lane /\ (period = Null \/ m.period = period)}}]

(* POST /api/reports and draftMonthlyPackForOrg: the sheet of a monthly    *)
(* pack has rows of its own, with the same commentary.                     *)
DraftReport(r, kind, period) ==
  /\ report[r] = Null
  /\ report' = [report EXCEPT ![r] =
       [kind |-> kind, period |-> period, pages |-> NotesOf(period),
        rows |-> IF kind = "monthly_pack" THEN NotesOf(period) ELSE Null]]
  /\ saved' = [saved EXCEPT ![r] = NotesOf(period)]
  /\ UNCHANGED <<laneVars, overlaps>>
-----------------------------------------------------------------------------
(* PATCH /api/reports/:id: the row is read, ...                            *)
PatchRead(q, r, edited) ==
  /\ req[q] = Null
  /\ report[r] # Null
  /\ Go(q, [at |-> "patch", report |-> r, read |-> report[r].pages, edited |-> edited])
  /\ UNCHANGED <<lanes, deskVars>>

(* Mutant: lanes that are not in the patch are emptied. *)
MergeWhole(pages, edited, text) == [lane \in Lanes |-> IF lane \in edited THEN {text} ELSE {}]

(* The lanes that the patch has, and of the others those that were read.   *)
Merge(pages, edited, text) == [lane \in Lanes |-> IF lane \in edited THEN {text} ELSE pages[lane]]

(* ... merged with the lanes the patch has, and its body written whole;    *)
(* the rows of the sheet stay as they were drafted.                        *)
PatchWrite(q) ==
  LET r == req[q].report IN
  /\ At(q, "patch")
  /\ report' = [report EXCEPT ![r].pages = Merge(req[q].read, req[q].edited, q)]
  /\ saved' = [saved EXCEPT ![r] = [lane \in Lanes |-> IF lane \in req[q].edited THEN {q} ELSE @[lane]]]
  /\ overlaps' = IF req[q].read = report[r].pages THEN overlaps ELSE overlaps \cup {r}
  /\ End(q)
  /\ UNCHANGED lanes
-----------------------------------------------------------------------------
Next ==
  \/ LaneStep /\ UNCHANGED deskVars
  \/ \E r \in Reports, kind \in Kinds, p \in Periods \cup {Null} : DraftReport(r, kind, p)
  \/ \E q \in Requests, r \in Reports, edited \in (SUBSET Lanes) \ {{}} : PatchRead(q, r, edited)
  \/ \E q \in Requests : PatchWrite(q)

Spec == Init /\ [][Next]_vars
-----------------------------------------------------------------------------
(* Types of the state. *)
TypeOK ==
  /\ item \in [Items -> Item \cup {Null}]
  /\ notes \subseteq Note /\ twice \subseteq Items
  /\ report \in [Reports -> Report \cup {Null}]
  /\ saved \in [Reports -> Columns \cup {Null}]
  /\ overlaps \subseteq Reports

Live == {r \in Reports : report[r] # Null}

(* reports-export.ts, report-job.ts, "lanes not blended": a text that came *)
(* through the inbox is in the judgement column, of a page or of the sheet,*)
(* only if it was confirmed as judgement and cites no management figures;  *)
(* and in both columns only if two confirmations overlapped.               *)
ColumnsHoldTheirLane ==
  \A r \in Live : \A c \in {report[r].pages, report[r].rows} \ {Null} :
    /\ \A lane \in Lanes : \A i \in c[lane] \cap Items :
         /\ \E n \in notes : n.text = i /\ n.lane = lane
         /\ ~(lane = "subjective" /\ SourceOf(item[i].doc) = "mis")
    /\ c["objective"] \cap c["subjective"] \cap Items \subseteq twice

(* routes.ts:1956: the body is written whole, so an edit is lost when      *)
(* another was between reading and writing; only then, and to no render,   *)
(* draft or enqueue.                                                       *)
EditsLostOnlyByOverlap == \A r \in Live \ overlaps : report[r].pages = saved[r]
=============================================================================
