--------------------------- MODULE CommentaryLanes ---------------------------
(***************************************************************************)
(* Commentary: drafts of the language model and notes of Granola wait in   *)
(* the inbox until somebody confirms them into one of two lanes; people    *)
(* also write notes directly.  Judgement (the subjective lane) must not be *)
(* drafted from management figures.  Confirming reads the item and writes  *)
(* the note in one transaction, without a lock: two may overlap.           *)
(***************************************************************************)
EXTENDS Integers, FiniteSetsExt

CONSTANTS
  Documents,
  DocumentKind, \* documents.kind of each
  Granola,      \* the documents that the Granola sync will bring
  Items, Requests, Periods, Null,
  MaxNotes      \* bound: rows of commentary

Lanes == {"objective", "subjective"}

(* A text is named by the item it was proposed in or by the request that   *)
(* typed it.                                                               *)
Texts == Items \cup Requests
Note == [text : Texts, lane : Lanes, period : Periods]
Item == [lane : Lanes, doc : Documents \cup {Null}, status : {"pending", "confirmed", "rejected"}]

ASSUME CommentaryLanesAssumption ==
  /\ DocumentKind \in [Documents -> STRING]
  /\ Granola \subseteq {d \in Documents : DocumentKind[d] = "transcript"}
  /\ Null \notin Documents \cup Items \cup Requests \cup Item
  /\ Items \cap Requests = {}
  /\ MaxNotes \in Nat

VARIABLES
  item,  \* inbox items of kind commentary: [lane, doc, status], or Null
  notes, \* rows of table commentary: [text, lane, period]
  req,   \* what each request is in the middle of, or Null
  twice  \* (history) items that were decided again after a confirmation
         \* had read them as pending

lanes == <<item, notes, twice>>
laneVars == <<lanes, req>>

documentKindToCommentarySource(kind) ==
  CASE kind \in {"granola", "transcript", "call"} -> "transcript"
    [] kind \in {"mis", "xlsx", "xls", "csv", "pdf", "financials"} -> "mis"
    [] OTHER -> "human"

(* An item without a document counts as human. *)
SourceOf(doc) == IF doc = Null THEN "human" ELSE documentKindToCommentarySource(DocumentKind[doc])

(* Mutant: the gate looks at the lane alone. *)
gateForgotten(lane, source) == lane \in Lanes

assertCommentaryLane(lane, source) == ~(lane = "subjective" /\ source = "mis")

LaneInit ==
  /\ item = [i \in Items |-> Null]
  /\ notes = {} /\ twice = {}
  /\ req = [q \in Requests |-> Null]
-----------------------------------------------------------------------------
At(q, place) == req[q] # Null /\ req[q].at = place
Go(q, step) == req' = [req EXCEPT ![q] = step]
End(q) == Go(q, Null)

Propose(i, lane, doc) ==
  /\ item[i] = Null
  /\ item' = [item EXCEPT ![i] = [lane |-> lane, doc |-> doc, status |-> "pending"]]
  /\ UNCHANGED <<notes, twice, req>>

(* A document of the Granola sync is there once its item is.               *)
Stored(d) == d \in Granola => \E i \in Items : item[i] # Null /\ item[i].doc = d

(* POST /api/commentary/draft: facts of the book for the objective lane,   *)
(* whatever document the client names; any stored document, taken for a    *)
(* transcript, for the subjective lane.                                    *)
Draft(i, lane, doc) ==
  /\ doc = Null \/ (doc \in Documents /\ Stored(doc))
  /\ lane = "subjective" => doc # Null
  /\ assertCommentaryLane(lane, IF lane = "objective" THEN "mis" ELSE "transcript")
  /\ Propose(i, lane, doc)

(* The Granola sync: once for each note. *)
IngestNote(i, d) ==
  /\ d \in Granola
  /\ ~Stored(d)
  /\ Propose(i, "subjective", d)

(* POST /api/inbox/:id/confirm, the commentary branch, up to its checks:   *)
(* the person confirming may change the lane and the period.               *)
ConfirmRead(q, i, lane, period) ==
  /\ req[q] = Null
  /\ item[i] # Null /\ item[i].status = "pending"
  /\ assertCommentaryLane(lane, SourceOf(item[i].doc))
  /\ Go(q, [at |-> "confirm", item |-> i, lane |-> lane, period |-> period])
  /\ UNCHANGED lanes

(* Its INSERT, its UPDATE by id, and the commit. *)
ConfirmWrite(q) ==
  /\ At(q, "confirm")
  /\ Cardinality(notes) < MaxNotes
  /\ LET i == req[q].item IN
       /\ notes' = notes \cup {[text |-> i, lane |-> req[q].lane, period |-> req[q].period]}
       /\ twice' = IF item[i].status = "pending" THEN twice ELSE twice \cup {i}
       /\ item' = [item EXCEPT ![i].status = "confirmed"]
  /\ End(q)

(* POST /api/inbox/:id/reject asks nothing of the item.                    *)
RejectItem(i) ==
  /\ item[i] # Null
  /\ item' = [item EXCEPT ![i].status = "rejected"]
  /\ UNCHANGED <<notes, twice, req>>

(* POST /api/commentary: the client says what its source is.               *)
WriteNote(q, lane, period, sourceKind) ==
  /\ req[q] = Null
  /\ Cardinality(notes) < MaxNotes
  /\ assertCommentaryLane(lane, sourceKind)
  /\ notes' = notes \cup {[text |-> q, lane |-> lane, period |-> period]}
  /\ UNCHANGED <<item, twice, req>>

LaneStep ==
  \/ \E i \in Items, lane \in Lanes, d \in Documents \cup {Null} : Draft(i, lane, d)
  \/ \E i \in Items, d \in Documents : IngestNote(i, d)
  \/ \E q \in Requests, i \in Items, lane \in Lanes, p \in Periods : ConfirmRead(q, i, lane, p)
  \/ \E q \in Requests : ConfirmWrite(q)
  \/ \E i \in Items : RejectItem(i)
  \/ \E q \in Requests, lane \in Lanes, p \in Periods, kind \in {"mis", "human"} : WriteNote(q, lane, p, kind)
=============================================================================
