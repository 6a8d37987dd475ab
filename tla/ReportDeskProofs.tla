-------------------------- MODULE ReportDeskProofs --------------------------
(***************************************************************************)
(* Proofs about ReportDesk and CommentaryLanes for any items, documents,   *)
(* requests and reports.                                                   *)
(***************************************************************************)
EXTENDS ReportDesk, TLAPS

Confirming == [at : {"confirm"}, item : Items, lane : Lanes, period : Periods]
Patching == [at : {"patch"}, report : Reports, read : Columns, edited : SUBSET Lanes]

(* What a request has read is typed like the rows it was read from.        *)
ReqOK == req \in [Requests -> Confirming \cup Patching \cup {Null}]

(* What may stand in a lane that an item was confirmed into. *)
Admitted(i, lane) == item[i] # Null /\ ~(lane = "subjective" /\ SourceOf(item[i].doc) = "mis")

(* A note of an item is of one that was decided and that its lane admits.  *)
NotesOK ==
  \A n \in notes : n.text \in Items => Admitted(n.text, n.lane) /\ item[n.text].status # "pending"

(* Notes of one item in two lanes are of two confirmations. *)
OneLaneOrTwice ==
  \A n, m \in notes : n.text \in Items /\ n.text = m.text /\ n.lane # m.lane => n.text \in twice

(* A confirmation that is about to write was checked against its item,     *)
(* whose document never changes.                                           *)
ConfirmsOK == \A q \in Requests : At(q, "confirm") => Admitted(req[q].item, req[q].lane)

(* The items in columns have notes of their lanes, also those of a body    *)
(* that was read to be patched.                                            *)
Noted(c) == \A lane \in Lanes : \A i \in c[lane] \cap Items : \E n \in notes : n.text = i /\ n.lane = lane
ReportsOK ==
  \A r \in Live :
    /\ saved[r] \in Columns
    /\ Noted(report[r].pages) /\ (report[r].rows # Null => Noted(report[r].rows))
PatchesOK ==
  \A q \in Requests : At(q, "patch") => report[req[q].report] # Null /\ Noted(req[q].read)

Inv ==
  /\ TypeOK /\ ReqOK
  /\ NotesOK /\ OneLaneOrTwice /\ ConfirmsOK
  /\ ReportsOK /\ PatchesOK
  /\ EditsLostOnlyByOverlap
-----------------------------------------------------------------------------
(* The columns of a report follow from the notes of their items. *)
LEMMA ColumnsFollow ==
  ASSUME Inv PROVE ColumnsHoldTheirLane
<1> SUFFICES ASSUME NEW r \in Live, NEW c \in {report[r].pages, report[r].rows} \ {Null}
             PROVE  /\ \A lane \in Lanes : \A i \in c[lane] \cap Items :
                         /\ \E n \in notes : n.text = i /\ n.lane = lane
                         /\ ~(lane = "subjective" /\ SourceOf(item[i].doc) = "mis")
                    /\ c["objective"] \cap c["subjective"] \cap Items \subseteq twice
  BY DEF ColumnsHoldTheirLane
<1>1. Noted(c)
  BY DEF Inv, ReportsOK
<1>2. ASSUME NEW lane \in Lanes, NEW i \in c[lane] \cap Items
      PROVE  /\ \E n \in notes : n.text = i /\ n.lane = lane
             /\ ~(lane = "subjective" /\ SourceOf(item[i].doc) = "mis")
  <2>1. PICK n \in notes : n.text = i /\ n.lane = lane
    BY <1>1 DEF Noted
  <2> QED
    BY <2>1 DEF Inv, NotesOK, Admitted
<1>3. ASSUME NEW i \in c["objective"] \cap c["subjective"] \cap Items PROVE i \in twice
  <2>1. PICK n \in notes : n.text = i /\ n.lane = "objective"
    BY <1>1 DEF Noted, Lanes
  <2>2. PICK m \in notes : m.text = i /\ m.lane = "subjective"
    BY <1>1 DEF Noted, Lanes
  <2> QED
    BY <2>1, <2>2 DEF Inv, OneLaneOrTwice
<1> QED
  BY <1>2, <1>3

(* The notes of a period have notes. *)
LEMMA NotesAreNoted ==
  ASSUME Inv, NEW period PROVE NotesOf(period) \in Columns /\ Noted(NotesOf(period))
<1>1. \A n \in notes : n.text \in Texts
  BY DEF Inv, TypeOK, Note
<1>2. NotesOf(period) \in Columns
  BY <1>1 DEF NotesOf, Columns
<1>3. Noted(NotesOf(period))
  BY DEF Noted, NotesOf
<1> QED
  BY <1>2, <1>3

(* The null value is neither of an item nor of a report. *)
LEMMA Nulls ==
  /\ Null \notin Item /\ Null \notin Report
  /\ \A q \in Requests : q \in Texts /\ q \notin Items
BY CommentaryLanesAssumption, ReportDeskAssumption DEF Texts

LEMMA Initially ==
  ASSUME Init PROVE Inv
<1> USE DEF Init, LaneInit
<1>1. TypeOK /\ ReqOK
  BY DEF TypeOK, ReqOK
<1>2. NotesOK /\ OneLaneOrTwice /\ ConfirmsOK /\ PatchesOK
  BY DEF NotesOK, OneLaneOrTwice, ConfirmsOK, PatchesOK, At
<1>3. ReportsOK /\ EditsLostOnlyByOverlap
  BY DEF ReportsOK, EditsLostOnlyByOverlap, Live
<1> QED
  BY <1>1, <1>2, <1>3 DEF Inv
-----------------------------------------------------------------------------
(* A step of the inbox that adds notes at most and keeps the documents of  *)
(* its items.                                                              *)
LEMMA DeskKeeps ==
  ASSUME Inv, UNCHANGED deskVars, notes \subseteq notes',
         \A q \in Requests : req'[q] = req[q] \/ ~At(q, "patch")'
  PROVE  ReportsOK' /\ PatchesOK' /\ EditsLostOnlyByOverlap'
<1>1. \A c : Noted(c) => Noted(c)'
  BY DEF Noted
<1>2. report' = report /\ Live' = Live
  BY DEF deskVars, Live
<1>3. ReportsOK'
  BY <1>1, <1>2 DEF Inv, ReportsOK, deskVars
<1>4. PatchesOK'
  BY <1>1, <1>2 DEF Inv, PatchesOK, At
<1>5. EditsLostOnlyByOverlap'
  BY <1>2 DEF Inv, EditsLostOnlyByOverlap, deskVars
<1> QED
  BY <1>3, <1>4, <1>5

LEMMA ProposeOK ==
  ASSUME Inv, NEW i \in Items, NEW lane \in Lanes, NEW d \in Documents \cup {Null},
         Propose(i, lane, d), UNCHANGED deskVars
  PROVE  Inv'
<1> DEFINE new == [lane |-> lane, doc |-> d, status |-> "pending"]
<1>1. /\ item[i] = Null /\ item' = [item EXCEPT ![i] = new]
      /\ UNCHANGED <<notes, twice, req>>
  BY DEF Propose
<1>2. new \in Item
  BY DEF Item
<1>3. TypeOK' /\ ReqOK'
  BY <1>1, <1>2 DEF Inv, TypeOK, ReqOK, deskVars
<1>4. \A c \in Items : item[c] # Null => item'[c] = item[c]
  BY <1>1 DEF Inv, TypeOK
<1>5. NotesOK' /\ OneLaneOrTwice'
  BY <1>1, <1>4 DEF Inv, NotesOK, OneLaneOrTwice, Admitted
<1>6. ConfirmsOK'
  <2> SUFFICES ASSUME NEW q \in Requests, At(q, "confirm") PROVE Admitted(req[q].item, req[q].lane)'
    BY <1>1 DEF ConfirmsOK, At
  <2>1. req[q].item \in Items /\ Admitted(req[q].item, req[q].lane)
    BY DEF Inv, ReqOK, ConfirmsOK, At, Confirming, Patching
  <2> QED
    BY <1>1, <1>4, <2>1 DEF Admitted
<1>7. ReportsOK' /\ PatchesOK' /\ EditsLostOnlyByOverlap'
  BY <1>1, DeskKeeps DEF At
<1> QED
  BY <1>3, <1>5, <1>6, <1>7 DEF Inv

LEMMA ConfirmReadOK ==
  ASSUME Inv, NEW q \in Requests, NEW i \in Items, NEW lane \in Lanes, NEW p \in Periods,
         ConfirmRead(q, i, lane, p), UNCHANGED deskVars
  PROVE  Inv'
<1> DEFINE new == [at |-> "confirm", item |-> i, lane |-> lane, period |-> p]
<1>1. /\ req' = [req EXCEPT ![q] = new]
      /\ UNCHANGED <<item, notes, twice>>
      /\ Admitted(i, lane)
  BY DEF ConfirmRead, Go, lanes, assertCommentaryLane, Admitted
<1>2. new \in Confirming
  BY DEF Confirming
<1>3. TypeOK' /\ ReqOK'
  BY <1>1, <1>2 DEF Inv, TypeOK, ReqOK, deskVars
<1>4. NotesOK' /\ OneLaneOrTwice'
  BY <1>1 DEF Inv, NotesOK, OneLaneOrTwice, Admitted
<1>5. ConfirmsOK'
  <2> SUFFICES ASSUME NEW r \in Requests, At(r, "confirm")' PROVE Admitted(req[r].item, req[r].lane)'
    BY DEF ConfirmsOK
  <2>1. CASE r = q
    <3>1. req'[r] = new
      BY <1>1, <2>1 DEF Inv, ReqOK
    <3> QED
      BY <1>1, <3>1 DEF Admitted
  <2>2. CASE r # q
    <3>1. req'[r] = req[r]
      BY <1>1, <2>2 DEF Inv, ReqOK
    <3> QED
      BY <1>1, <3>1 DEF Inv, ConfirmsOK, At, Admitted
  <2> QED
    BY <2>1, <2>2
<1>6. \A r \in Requests : req'[r] = req[r] \/ ~At(r, "patch")'
  BY <1>1 DEF Inv, ReqOK, At
<1>7. ReportsOK' /\ PatchesOK' /\ EditsLostOnlyByOverlap'
  BY <1>1, <1>6, DeskKeeps
<1> QED
  BY <1>3, <1>4, <1>5, <1>7 DEF Inv

(* The step that matters: an item that has a note already is not pending,  *)
(* so a second confirmation of it is noticed.                              *)
LEMMA ConfirmWriteOK ==
  ASSUME Inv, NEW q \in Requests, ConfirmWrite(q), UNCHANGED deskVars
  PROVE  Inv'
<1> DEFINE i == req[q].item
           new == [text |-> i, lane |-> req[q].lane, period |-> req[q].period]
<1>1. /\ At(q, "confirm")
      /\ notes' = notes \cup {new}
      /\ twice' = IF item[i].status = "pending" THEN twice ELSE twice \cup {i}
      /\ item' = [item EXCEPT ![i].status = "confirmed"]
      /\ req' = [req EXCEPT ![q] = Null]
  BY DEF ConfirmWrite, End, Go
<1>2. req[q] \in Confirming /\ i \in Items /\ Admitted(i, req[q].lane)
  BY <1>1 DEF Inv, ReqOK, ConfirmsOK, At, Confirming, Patching
<1>3. item[i] \in Item
  BY <1>2 DEF Inv, TypeOK, Admitted
<1>4. /\ item'[i].doc = item[i].doc /\ item'[i].status = "confirmed"
      /\ item'[i] \in Item /\ item'[i] # Null
      /\ \A c \in Items \ {i} : item'[c] = item[c]
  <2>1. item'[i] = [item[i] EXCEPT !.status = "confirmed"]
    BY <1>1, <1>2 DEF Inv, TypeOK
  <2>2. item'[i].doc = item[i].doc /\ item'[i].status = "confirmed" /\ item'[i] \in Item
    BY <1>3, <2>1 DEF Item
  <2> QED
    BY <1>1, <1>2, <2>2, Nulls DEF Inv, TypeOK
<1>5. new \in Note
  BY <1>2 DEF Confirming, Note, Texts
<1>6. TypeOK' /\ ReqOK'
  <2>1. item' \in [Items -> Item \cup {Null}]
    BY <1>1, <1>2, <1>4 DEF Inv, TypeOK
  <2>2. notes' \subseteq Note /\ twice' \subseteq Items
    BY <1>1, <1>2, <1>5 DEF Inv, TypeOK
  <2>3. TypeOK'
    BY <2>1, <2>2 DEF Inv, TypeOK, deskVars
  <2>4. ReqOK'
    BY <1>1 DEF Inv, ReqOK
  <2> QED
    BY <2>3, <2>4
<1>7. \A c \in Items : \A lane : Admitted(c, lane) => Admitted(c, lane)'
  BY <1>4 DEF Admitted
<1>8. NotesOK'
  BY <1>1, <1>2, <1>4, <1>7 DEF Inv, NotesOK
<1>9. OneLaneOrTwice'
  <2> SUFFICES ASSUME NEW n \in notes', NEW m \in notes', n.text \in Items, n.text = m.text, n.lane # m.lane
               PROVE  n.text \in twice'
    BY DEF OneLaneOrTwice
  <2>1. CASE n \in notes /\ m \in notes
    BY <1>1, <2>1 DEF Inv, OneLaneOrTwice
  <2>2. CASE n = new /\ m \in notes
    BY <1>1, <2>2 DEF Inv, NotesOK
  <2>3. CASE n \in notes /\ m = new
    BY <1>1, <2>3 DEF Inv, NotesOK
  <2> QED
    BY <1>1, <2>1, <2>2, <2>3
<1>10. ConfirmsOK'
  <2> SUFFICES ASSUME NEW r \in Requests, At(r, "confirm")' PROVE Admitted(req[r].item, req[r].lane)'
    BY DEF ConfirmsOK
  <2>1. req'[r] = req[r]
    BY <1>1 DEF Inv, ReqOK, At
  <2>2. At(r, "confirm") /\ req[r].item \in Items
    BY <2>1 DEF Inv, ReqOK, At, Confirming, Patching
  <2> QED
    BY <1>7, <2>1, <2>2 DEF Inv, ConfirmsOK
<1>11. \A r \in Requests : req'[r] = req[r] \/ ~At(r, "patch")'
  BY <1>1 DEF Inv, ReqOK, At
<1>12. ReportsOK' /\ PatchesOK' /\ EditsLostOnlyByOverlap'
  BY <1>1, <1>11, DeskKeeps
<1> QED
  BY <1>6, <1>8, <1>9, <1>10, <1>12 DEF Inv

LEMMA RejectItemOK ==
  ASSUME Inv, NEW i \in Items, RejectItem(i), UNCHANGED deskVars
  PROVE  Inv'
<1>1. /\ item[i] # Null
      /\ item' = [item EXCEPT ![i].status = "rejected"]
      /\ UNCHANGED <<notes, twice, req>>
  BY DEF RejectItem
<1>2. item[i] \in Item
  BY <1>1 DEF Inv, TypeOK
<1>3. item'[i] = [item[i] EXCEPT !.status = "rejected"] /\ \A c \in Items \ {i} : item'[c] = item[c]
  BY <1>1 DEF Inv, TypeOK
<1>4. item'[i].doc = item[i].doc /\ item'[i].status = "rejected" /\ item'[i] \in Item
  BY <1>2, <1>3 DEF Item
<1>5. item'[i] # Null
  BY <1>4, Nulls
<1>6. TypeOK' /\ ReqOK'
  BY <1>1, <1>3, <1>4 DEF Inv, TypeOK, ReqOK, deskVars
<1>7. \A c \in Items : \A lane : Admitted(c, lane) => Admitted(c, lane)'
  BY <1>3, <1>4, <1>5 DEF Admitted
<1>8. NotesOK' /\ OneLaneOrTwice'
  BY <1>1, <1>3, <1>4, <1>7 DEF Inv, NotesOK, OneLaneOrTwice
<1>9. ConfirmsOK'
  <2> SUFFICES ASSUME NEW r \in Requests, At(r, "confirm") PROVE Admitted(req[r].item, req[r].lane)'
    BY <1>1 DEF ConfirmsOK, At
  <2>1. req[r].item \in Items /\ Admitted(req[r].item, req[r].lane)
    BY DEF Inv, ReqOK, ConfirmsOK, At, Confirming, Patching
  <2> QED
    BY <1>1, <1>7, <2>1 DEF Admitted
<1>10. ReportsOK' /\ PatchesOK' /\ EditsLostOnlyByOverlap'
  BY <1>1, DeskKeeps
<1> QED
  BY <1>6, <1>8, <1>9, <1>10 DEF Inv

LEMMA WriteNoteOK ==
  ASSUME Inv, NEW q \in Requests, NEW lane \in Lanes, NEW p \in Periods, NEW kind,
         WriteNote(q, lane, p, kind), UNCHANGED deskVars
  PROVE  Inv'
<1> DEFINE new == [text |-> q, lane |-> lane, period |-> p]
<1>1. notes' = notes \cup {new} /\ UNCHANGED <<item, twice, req>>
  BY DEF WriteNote
<1>2. new \in Note
  BY Nulls DEF Note
<1>3. TypeOK' /\ ReqOK'
  BY <1>1, <1>2 DEF Inv, TypeOK, ReqOK, deskVars
<1>4. new.text \notin Items
  BY Nulls
<1>5. NotesOK' /\ OneLaneOrTwice'
  BY <1>1, <1>4 DEF Inv, NotesOK, OneLaneOrTwice, Admitted
<1>6. ConfirmsOK'
  BY <1>1 DEF Inv, ConfirmsOK, At, Admitted
<1>7. ReportsOK' /\ PatchesOK' /\ EditsLostOnlyByOverlap'
  BY <1>1, DeskKeeps
<1> QED
  BY <1>3, <1>5, <1>6, <1>7 DEF Inv
-----------------------------------------------------------------------------
(* The desk leaves the inbox and its notes alone.                          *)
LEMMA LanesKeep ==
  ASSUME Inv, UNCHANGED lanes,
         \A q \in Requests : req'[q] = req[q] \/ ~At(q, "confirm")'
  PROVE  /\ NotesOK' /\ OneLaneOrTwice' /\ ConfirmsOK'
         /\ \A c : Noted(c) => Noted(c)'
BY DEF lanes, Inv, NotesOK, OneLaneOrTwice, ConfirmsOK, Admitted, At, Noted

LEMMA DraftReportOK ==
  ASSUME Inv, NEW r \in Reports, NEW kind \in Kinds, NEW p \in Periods \cup {Null}, DraftReport(r, kind, p)
  PROVE  Inv'
<1> DEFINE new == [kind |-> kind, period |-> p, pages |-> NotesOf(p),
                   rows |-> IF kind = "monthly_pack" THEN NotesOf(p) ELSE Null]
<1>1. /\ report[r] = Null
      /\ report' = [report EXCEPT ![r] = new]
      /\ saved' = [saved EXCEPT ![r] = NotesOf(p)]
      /\ UNCHANGED <<item, notes, twice, req, overlaps>>
  BY DEF DraftReport, laneVars, lanes
<1>2. NotesOf(p) \in Columns /\ Noted(NotesOf(p))
  BY NotesAreNoted
<1>3. new \in Report
  BY <1>2 DEF Report
<1>4. TypeOK' /\ ReqOK'
  BY <1>1, <1>2, <1>3 DEF Inv, TypeOK, ReqOK
<1>5. NotesOK' /\ OneLaneOrTwice' /\ ConfirmsOK' /\ \A c : Noted(c) => Noted(c)'
  BY <1>1, LanesKeep DEF lanes
<1>6. report'[r] = new /\ \A s \in Reports \ {r} : report'[s] = report[s]
  BY <1>1 DEF Inv, TypeOK
<1>7. ReportsOK'
  <2> SUFFICES ASSUME NEW s \in Reports, report'[s] # Null
               PROVE  /\ saved'[s] \in Columns
                      /\ Noted(report[s].pages)' /\ ((report[s].rows # Null)' => Noted(report[s].rows)')
    BY DEF ReportsOK, Live
  <2>1. CASE s = r
    <3>1. saved'[s] \in Columns
      BY <1>1, <1>2, <2>1 DEF Inv, TypeOK
    <3>2. Noted(report[s].pages)' /\ ((report[s].rows # Null)' => Noted(report[s].rows)')
      BY <1>2, <1>5, <1>6, <2>1
    <3> QED
      BY <3>1, <3>2
  <2>2. CASE s # r
    <3>1. report'[s] = report[s] /\ saved'[s] = saved[s]
      BY <1>1, <1>6, <2>2 DEF Inv, TypeOK
    <3> QED
      BY <1>5, <3>1 DEF Inv, ReportsOK, Live
  <2> QED
    BY <2>1, <2>2
<1>8. PatchesOK'
  <2> SUFFICES ASSUME NEW q \in Requests, At(q, "patch")
               PROVE  report'[req[q].report] # Null /\ Noted(req[q].read)'
    BY <1>1 DEF PatchesOK, At
  <2>1. req[q].report \in Reports /\ report[req[q].report] # Null /\ Noted(req[q].read)
    BY DEF Inv, PatchesOK, ReqOK, At, Confirming, Patching
  <2>2. Noted(req[q].read)'
    BY <1>1, <2>1 DEF Noted
  <2> QED
    BY <1>1, <1>6, <2>1, <2>2
<1>9. EditsLostOnlyByOverlap'
  BY <1>1, <1>6 DEF Inv, TypeOK, EditsLostOnlyByOverlap, Live
<1> QED
  BY <1>4, <1>5, <1>7, <1>8, <1>9 DEF Inv

LEMMA PatchReadOK ==
  ASSUME Inv, NEW q \in Requests, NEW r \in Reports, NEW edited \in SUBSET Lanes, PatchRead(q, r, edited)
  PROVE  Inv'
<1> DEFINE new == [at |-> "patch", report |-> r, read |-> report[r].pages, edited |-> edited]
<1>1. /\ report[r] # Null
      /\ req' = [req EXCEPT ![q] = new]
      /\ UNCHANGED <<item, notes, twice, report, saved, overlaps>>
  BY DEF PatchRead, Go, lanes, deskVars
<1>2. report[r] \in Report
  BY <1>1 DEF Inv, TypeOK
<1>3. new \in Patching /\ new.at = "patch"
  BY <1>2 DEF Patching, Report
<1>4. TypeOK' /\ ReqOK'
  BY <1>1, <1>3 DEF Inv, TypeOK, ReqOK
<1>5. req'[q] = new /\ \A s \in Requests \ {q} : req'[s] = req[s]
  BY <1>1 DEF Inv, ReqOK
<1>6. NotesOK' /\ OneLaneOrTwice' /\ ConfirmsOK' /\ \A c : Noted(c) => Noted(c)'
  BY <1>1, <1>5, LanesKeep DEF lanes, At
<1>7. ReportsOK' /\ EditsLostOnlyByOverlap'
  BY <1>1 DEF Inv, ReportsOK, Noted, Live, EditsLostOnlyByOverlap
<1>8. PatchesOK'
  <2> SUFFICES ASSUME NEW s \in Requests, At(s, "patch")'
               PROVE  (report[req[s].report] # Null)' /\ Noted(req[s].read)'
    BY DEF PatchesOK
  <2>1. CASE s = q
    <3>1. Noted(report[r].pages)
      BY <1>1 DEF Inv, ReportsOK, Live
    <3> QED
      BY <1>1, <1>5, <2>1, <3>1 DEF Noted
  <2>2. CASE s # q
    <3>1. req'[s] = req[s] /\ At(s, "patch")
      BY <1>5, <2>2 DEF At
    <3> QED
      BY <1>1, <3>1 DEF Inv, PatchesOK, Noted
  <2> QED
    BY <2>1, <2>2
<1> QED
  BY <1>4, <1>6, <1>7, <1>8 DEF Inv

(* The body that is written is the one that was read with the patch over   *)
(* it; it is what the edits give unless the row is another by now.         *)
LEMMA PatchWriteOK ==
  ASSUME Inv, NEW q \in Requests, PatchWrite(q)
  PROVE  Inv'
<1> DEFINE r == req[q].report
           merged == Merge(req[q].read, req[q].edited, q)
           edits == [lane \in Lanes |-> IF lane \in req[q].edited THEN {q} ELSE saved[r][lane]]
<1>1. /\ At(q, "patch")
      /\ report' = [report EXCEPT ![r].pages = merged]
      /\ overlaps' = IF req[q].read = report[r].pages THEN overlaps ELSE overlaps \cup {r}
      /\ req' = [req EXCEPT ![q] = Null]
      /\ UNCHANGED <<item, notes, twice>>
  BY DEF PatchWrite, End, Go, lanes
<1>2. saved' = [saved EXCEPT ![r] = edits]
  BY DEF PatchWrite
<1>3. /\ req[q] \in Patching /\ r \in Reports /\ req[q].read \in Columns /\ req[q].edited \subseteq Lanes
      /\ report[r] # Null /\ Noted(req[q].read)
  BY <1>1 DEF Inv, ReqOK, PatchesOK, At, Confirming, Patching
<1>4. report[r] \in Report
  BY <1>3 DEF Inv, TypeOK
<1>5. merged \in Columns
  BY <1>3, Nulls DEF Merge, Columns
<1>6. Noted(merged)
  BY <1>3, Nulls DEF Merge, Noted
<1>7. /\ report'[r] = [report[r] EXCEPT !.pages = merged]
      /\ \A s \in Reports \ {r} : report'[s] = report[s]
  BY <1>1, <1>3 DEF Inv, TypeOK
<1>8. report'[r] \in Report /\ report'[r].pages = merged /\ report'[r].rows = report[r].rows
  <2> HIDE DEF merged
  <2> QED
    BY <1>4, <1>5, <1>7 DEF Report
<1>9. report'[r] # Null
  BY <1>8, Nulls
<1>10. saved[r] \in Columns /\ edits \in Columns
  <2>1. saved[r] \in Columns
    BY <1>3 DEF Inv, ReportsOK, Live
  <2> QED
    BY <1>3, <2>1, Nulls DEF Columns
<1>11. saved'[r] = edits /\ \A s \in Reports \ {r} : saved'[s] = saved[s]
  <2> HIDE DEF edits
  <2> QED
    BY <1>2, <1>3 DEF Inv, TypeOK
<1>12. TypeOK' /\ ReqOK'
  <2>1. report' \in [Reports -> Report \cup {Null}]
    BY <1>1, <1>3, <1>7, <1>8 DEF Inv, TypeOK
  <2>2. saved' \in [Reports -> Columns \cup {Null}]
    BY <1>2, <1>3, <1>10, <1>11 DEF Inv, TypeOK
  <2>3. TypeOK'
    BY <1>1, <1>3, <2>1, <2>2 DEF Inv, TypeOK
  <2>4. ReqOK'
    BY <1>1 DEF Inv, ReqOK
  <2> QED
    BY <2>3, <2>4
<1>13. \A s \in Requests : req'[s] = req[s] \/ req'[s] = Null
  BY <1>1 DEF Inv, ReqOK
<1>14. NotesOK' /\ OneLaneOrTwice' /\ ConfirmsOK' /\ \A c : Noted(c) => Noted(c)'
  BY <1>1, <1>13, LanesKeep DEF lanes, At
<1>15. ReportsOK'
  <2> SUFFICES ASSUME NEW s \in Reports, report'[s] # Null
               PROVE  /\ saved'[s] \in Columns
                      /\ Noted(report[s].pages)' /\ ((report[s].rows # Null)' => Noted(report[s].rows)')
    BY DEF ReportsOK, Live
  <2>1. CASE s = r
    <3> HIDE DEF merged, edits
    <3>1. Noted(report[s].pages)'
      BY <1>6, <1>8, <1>14, <2>1
    <3>2. report[s].rows # Null => Noted(report[s].rows)
      BY <1>3, <2>1 DEF Inv, ReportsOK, Live
    <3>3. (report[s].rows # Null)' => Noted(report[s].rows)'
      BY <1>8, <1>14, <2>1, <3>2
    <3>4. saved'[s] \in Columns
      BY <1>10, <1>11, <2>1
    <3> QED
      BY <3>1, <3>3, <3>4
  <2>2. CASE s # r
    <3>1. report'[s] = report[s] /\ saved'[s] = saved[s]
      BY <1>7, <1>11, <2>2
    <3> QED
      BY <1>14, <3>1 DEF Inv, ReportsOK, Live
  <2> QED
    BY <2>1, <2>2
<1>16. PatchesOK'
  <2> SUFFICES ASSUME NEW s \in Requests, At(s, "patch")'
               PROVE  (report[req[s].report] # Null)' /\ Noted(req[s].read)'
    BY DEF PatchesOK
  <2>1. req'[s] = req[s] /\ At(s, "patch")
    BY <1>13 DEF At
  <2>2. req[s].report \in Reports /\ report[req[s].report] # Null /\ Noted(req[s].read)
    BY <2>1 DEF Inv, PatchesOK, ReqOK, At, Confirming, Patching
  <2>3. report'[req[s].report] # Null
    BY <1>7, <1>9, <2>2
  <2> QED
    BY <1>1, <2>1, <2>2, <2>3 DEF Noted
<1>17. EditsLostOnlyByOverlap'
  <2> SUFFICES ASSUME NEW s \in Reports, report'[s] # Null, s \notin overlaps'
               PROVE  report'[s].pages = saved'[s]
    BY DEF EditsLostOnlyByOverlap, Live
  <2>1. s \notin overlaps
    BY <1>1
  <2>2. CASE s = r
    <3>1. req[q].read = report[r].pages
      BY <1>1, <2>2
    <3>2. report[r].pages = saved[r]
      BY <1>3, <2>1, <2>2 DEF Inv, EditsLostOnlyByOverlap, Live
    <3>3. merged = edits
      BY <3>1, <3>2 DEF Merge
    <3> QED
      BY <1>8, <1>11, <2>2, <3>3
  <2>3. CASE s # r
    <3>1. report'[s] = report[s] /\ saved'[s] = saved[s]
      BY <1>7, <1>11, <2>3
    <3> QED
      BY <2>1, <3>1 DEF Inv, EditsLostOnlyByOverlap, Live
  <2> QED
    BY <2>2, <2>3
<1> QED
  BY <1>12, <1>14, <1>15, <1>16, <1>17 DEF Inv
-----------------------------------------------------------------------------
(* Every step keeps the invariant. *)
LEMMA Inductive ==
  ASSUME Inv, [Next]_vars PROVE Inv'
<1>1. CASE UNCHANGED vars
  <2>1. UNCHANGED <<item, notes, twice, req, report, saved, overlaps>>
    BY <1>1 DEF vars, laneVars, lanes, deskVars
  <2>2. TypeOK' /\ ReqOK' /\ NotesOK' /\ OneLaneOrTwice' /\ ConfirmsOK'
    BY <2>1 DEF Inv, TypeOK, ReqOK, NotesOK, OneLaneOrTwice, ConfirmsOK, Admitted, At
  <2>3. ReportsOK' /\ PatchesOK' /\ EditsLostOnlyByOverlap'
    BY <2>1, DeskKeeps DEF deskVars
  <2> QED
    BY <2>2, <2>3 DEF Inv
<1>2. CASE LaneStep /\ UNCHANGED deskVars
  <2>1. ASSUME NEW i \in Items, NEW lane \in Lanes, NEW d \in Documents \cup {Null}, Draft(i, lane, d)
        PROVE  Inv'
    BY <1>2, <2>1, ProposeOK DEF Draft
  <2>2. ASSUME NEW i \in Items, NEW d \in Documents, IngestNote(i, d)
        PROVE  Inv'
    BY <1>2, <2>2, ProposeOK DEF IngestNote, Lanes
  <2> QED
    BY <1>2, <2>1, <2>2, ConfirmReadOK, ConfirmWriteOK, RejectItemOK, WriteNoteOK DEF LaneStep
<1>3. CASE \E r \in Reports, kind \in Kinds, p \in Periods \cup {Null} : DraftReport(r, kind, p)
  BY <1>3, DraftReportOK
<1>4. CASE \E q \in Requests, r \in Reports, edited \in (SUBSET Lanes) \ {{}} : PatchRead(q, r, edited)
  BY <1>4, PatchReadOK
<1>5. CASE \E q \in Requests : PatchWrite(q)
  BY <1>5, PatchWriteOK
<1> QED
  BY <1>1, <1>2, <1>3, <1>4, <1>5 DEF Next

(* So it always holds. *)
LEMMA Invariance == Spec => []Inv
<1>1. Init => Inv
  BY Initially
<1>2. Inv /\ [Next]_vars => Inv'
  BY Inductive
<1> QED
  BY <1>1, <1>2, PTL DEF Spec

(* The state has its types, for any items, documents, requests, reports.   *)
THEOREM TypeCorrect == Spec => []TypeOK
<1>1. Inv => TypeOK
  BY DEF Inv
<1> QED
  BY <1>1, Invariance, PTL

(* Judgement drafted from management figures never reaches the judgement   *)
(* column of a report, and no text of the inbox is in both columns unless  *)
(* two confirmations overlapped, whatever is edited, rejected or redrafted *)
(* in between.                                                             *)
THEOREM LanesNotBlended == Spec => []ColumnsHoldTheirLane
<1>1. Inv => ColumnsHoldTheirLane
  BY ColumnsFollow
<1> QED
  BY <1>1, Invariance, PTL

(* PATCH /reports/:id loses an edit only when another one of the same      *)
(* report committed between its reading and its writing.                   *)
THEOREM EditsSurvive == Spec => []EditsLostOnlyByOverlap
<1>1. Inv => EditsLostOnlyByOverlap
  BY DEF Inv
<1> QED
  BY <1>1, Invariance, PTL
=============================================================================
