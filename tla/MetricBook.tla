----------------------------- MODULE MetricBook -----------------------------
(***************************************************************************)
(* The metric book of one organisation: parse jobs propose figures, the    *)
(* review queue (inbox) decides them, and every decision adds a version to *)
(* the book.  Requests run as Postgres transactions at READ COMMITTED      *)
(* without row locks, so each SELECT is a step of its own and a row that   *)
(* is not committed is visible to its own transaction only.  What does     *)
(* serialise two writers is the unique index on (fact key, version): an    *)
(* INSERT of a version another open transaction holds waits for it, one of *)
(* a committed version fails.                                              *)
(*                                                                         *)
(* A fact key stands for (company, metric, period start, period end).      *)
(* Figures, currencies and periods are abstract values.                    *)
(***************************************************************************)
EXTENDS Integers, Sequences, FiniteSetsExt, Functions

CONSTANTS
  Keys,         \* fact keys
  Values,       \* figures (null, "not reported", may be one of them)
  Units,        \* units of measure, UnknownUnit included
  UnknownUnit,
  Absent,       \* an optional field that is not there
  Docs,         \* documents in the vault
  Filed,        \* the documents that belong to a company
  Extract,      \* the proposals extraction finds in each document
  MaxProposals, \* bound: proposals per document
  MinConfidence,\* orgSettings.autoConfirmMinConfidence in percent, or Absent
  Jobs,         \* calls of runParseJob (bound: each runs once)
  Reviewers,    \* requests that confirm, one item at a time
  Patches       \* the bodies a reviewer may send with a confirm

Kinds     == {"metric", "unit_ambiguity"}
Proposal  == [key : Keys \cup {Absent}, value : Values, unit : Units, kind : Kinds, conf : 0..100]
Patch     == [key : Keys \cup {Absent}, value : Values \cup {Absent},
              unit : Units \cup {Absent}, note : BOOLEAN]
Actors    == Jobs \cup Reviewers
Items     == Jobs \X (1..MaxProposals)   \* an inbox row: the job and the proposal it came from
Statuses  == {"none", "pending", "confirmed", "edited", "rejected"}
Fact      == [version : Nat, restates : Nat, value : Values, unit : Units, item : Items, by : Actors]
Entry     == [status : {"pending", "confirmed"}, prop : Proposal]   \* an inbox row a job inserts
Correction == [key : Keys, value : Values, unit : Units]

ASSUME MetricBookAssumption ==
  /\ UnknownUnit \in Units
  /\ Absent \notin Keys \cup Values \cup Units
  /\ Filed \subseteq Docs
  /\ MaxProposals \in Nat
  /\ Extract \in [Docs -> Seq(Proposal)]
  /\ \A d \in Docs : Len(Extract[d]) <= MaxProposals
  /\ MinConfidence \in Nat \cup {Absent}
  /\ Jobs \cap Reviewers = {}
  /\ Patches \subseteq Patch

VARIABLES
  book,        \* metric_values: the committed versions of each key, in commit order
  inbox,       \* inbox_items.status
  proposed,    \* inbox_items.proposed
  corrections, \* the correction ledger, in commit order
  pc,          \* where the request of each job and reviewer is
  staged,      \* the metric_values rows each open transaction has inserted
  row,         \* the row each transaction is about to insert
  doc,         \* of each job: its document,
  ledger,      \*   the corrections it read,
  decided,     \*   the inbox rows it has inserted
  review       \* of each reviewer: the item and the body of the confirm

tables == <<book, inbox, proposed, corrections>>
jobVars == <<doc, ledger, decided>>
vars == <<tables, pc, staged, row, jobVars, review>>

NoRows     == [k \in Keys |-> <<>>]
NoProposal == [key |-> Absent, value |-> Absent, unit |-> UnknownUnit, kind |-> "metric", conf |-> 0]

Init ==
  /\ book = NoRows
  /\ inbox = [i \in Items |-> "none"]
  /\ proposed = [i \in Items |-> NoProposal]
  /\ corrections = <<>>
  /\ pc = [a \in Actors |-> "idle"]
  /\ staged = [a \in Actors |-> NoRows]
  /\ row = [a \in Actors |-> Absent]
  /\ doc = [j \in Jobs |-> Absent]
  /\ ledger = [j \in Jobs |-> <<>>]
  /\ decided = [j \in Jobs |-> <<>>]
  /\ review = [r \in Reviewers |-> Absent]
-----------------------------------------------------------------------------
Versions(rows) == {rows[n].version : n \in DOMAIN rows}

(* select ... where key order by version desc: the highest version a       *)
(* transaction sees, 0 when there is none.                                 *)
TopVersion(a, k) ==
  LET seen == Versions(book[k]) \cup Versions(staged[a][k])
  IN  IF seen = {} THEN 0 ELSE Max(seen)

(* Mutants, here and below: a definition with a plausible bug, that some   *)
(* property must notice.  No index; an index blind to open transactions.   *)
AdmitsAll(a, k, v) == TRUE
AdmitsUncommitted(a, k, v) == v \notin Versions(book[k])

(* metric_values_version_uidx: the INSERT of version v goes through.       *)
IndexAdmits(a, k, v) ==
  /\ v \notin Versions(book[k])
  /\ \A b \in Actors : v \notin Versions(staged[b][k])

(* The SELECT of the versions of a key: it fixes the row of the INSERT.    *)
Select(a, k, value, unit, item) ==
  LET top == TopVersion(a, k) IN
  row' = [row EXCEPT ![a] =
            [key |-> k, fact |-> [version |-> top + 1, restates |-> top, value |-> value,
                                  unit |-> unit, item |-> item, by |-> a]]]

Insert(a) ==
  /\ IndexAdmits(a, row[a].key, row[a].fact.version)
  /\ staged' = [staged EXCEPT ![a][row[a].key] = Append(@, row[a].fact)]

(* Mutant: the new row replaces the reported ones. *)
PublishOverwrites(a) ==
  /\ book' = [k \in Keys |-> IF staged[a][k] = <<>> THEN book[k] ELSE staged[a][k]]
  /\ staged' = [staged EXCEPT ![a] = NoRows]

(* The commit publishes the rows of the transaction, in insertion order.   *)
Publish(a) ==
  /\ book' = [k \in Keys |-> book[k] \o staged[a][k]]
  /\ staged' = [staged EXCEPT ![a] = NoRows]

(* The request is over and its locals are gone. *)
Forget(a) ==
  /\ pc' = [pc EXCEPT ![a] = IF a \in Jobs THEN "done" ELSE "idle"]
  /\ row' = [row EXCEPT ![a] = Absent]
  /\ review' = [r \in Reviewers |-> IF r = a THEN Absent ELSE review[r]]

(* Mutant: the status of the item is written outside the transaction. *)
RollbackKeepsStatus(a) ==
  /\ pc[a] = "commit"
  /\ staged' = [staged EXCEPT ![a] = NoRows]
  /\ Forget(a)
  /\ inbox' = [inbox EXCEPT ![review[a].item] = "confirmed"]
  /\ UNCHANGED <<book, proposed, corrections, jobVars>>

(* Mutant: the ledger row is written outside the transaction. *)
RollbackKeepsCorrection(a) ==
  /\ pc[a] = "commit"
  /\ staged' = [staged EXCEPT ![a] = NoRows]
  /\ Forget(a)
  /\ corrections' = Append(corrections, [key |-> row[a].key, value |-> row[a].fact.value, unit |-> row[a].fact.unit])
  /\ UNCHANGED <<book, inbox, proposed, jobVars>>

(* An error, a unique violation or a crash: nothing of the transaction     *)
(* stays, the row parse_jobs.status = "error" written on the way included. *)
Rollback(a) ==
  /\ pc[a] \notin {"idle", "done"}
  /\ staged' = [staged EXCEPT ![a] = NoRows]
  /\ Forget(a)
  /\ UNCHANGED <<tables, jobVars>>
-----------------------------------------------------------------------------
(* applyCorrectionLedger: a ledger row of the key replaces value and unit. *)
(* The ledger is read without ORDER BY, so `find` may meet any row first.  *)
Hits(rows, p) == {n \in DOMAIN rows : rows[n].key = p.key}

Corrected(p, c) == [p EXCEPT !.value = c.value, !.unit = c.unit, !.conf = 99]

(* Mutant: a confident extraction beats the ledger. *)
ConfidentExtractWins(rows, p) ==
  IF Hits(rows, p) = {} \/ p.conf > 90 THEN {p} ELSE {Corrected(p, rows[n]) : n \in Hits(rows, p)}

LedgerApplied(rows, p) ==
  IF Hits(rows, p) = {} THEN {p} ELSE {Corrected(p, rows[n]) : n \in Hits(rows, p)}

ShouldAutoConfirm(p, d) ==
  /\ MinConfidence # Absent
  /\ MinConfidence >= 50 /\ MinConfidence <= 100
  /\ p.kind = "metric"
  /\ p.key # Absent
  /\ d \in Filed
  /\ p.unit # UnknownUnit
  /\ p.conf >= MinConfidence

(* runParseJob up to the loop: the active corrections are read once.       *)
ParseBegin(j) ==
  /\ pc[j] = "idle"
  /\ pc' = [pc EXCEPT ![j] = "proposal"]
  /\ \E d \in Docs :
       /\ doc' = [doc EXCEPT ![j] = d]
       /\ ledger' = [ledger EXCEPT ![j] = IF d \in Filed THEN corrections ELSE <<>>]
  /\ UNCHANGED <<tables, staged, row, decided, review>>

(* The next proposal becomes an inbox row: pending, or confirmed when it   *)
(* passes the gate, and then writeAutoMetric reads the versions of its key.*)
ParseProposal(j) ==
  LET n == Len(decided[j]) + 1 IN
  /\ pc[j] = "proposal"
  /\ n <= Len(Extract[doc[j]])
  /\ \E p \in LedgerApplied(ledger[j], Extract[doc[j]][n]) :
       \/ /\ ~ShouldAutoConfirm(p, doc[j])
          /\ decided' = [decided EXCEPT ![j] = Append(@, [status |-> "pending", prop |-> p])]
          /\ UNCHANGED <<pc, row>>
       \/ /\ ShouldAutoConfirm(p, doc[j])
          /\ decided' = [decided EXCEPT ![j] = Append(@, [status |-> "confirmed", prop |-> p])]
          /\ pc' = [pc EXCEPT ![j] = "insert"]
          /\ Select(j, p.key, p.value, p.unit, <<j, n>>)
  /\ UNCHANGED <<tables, staged, doc, ledger, review>>

ParseAutoInsert(j) ==
  /\ pc[j] = "insert"
  /\ Insert(j)
  /\ pc' = [pc EXCEPT ![j] = "proposal"]
  /\ UNCHANGED <<tables, row, jobVars, review>>

ParseCommit(j) ==
  LET mine == {<<j, n>> : n \in DOMAIN decided[j]} IN
  /\ pc[j] = "proposal"
  /\ Len(decided[j]) = Len(Extract[doc[j]])
  /\ Publish(j)
  /\ inbox' = [i \in Items |-> IF i \in mine THEN decided[j][i[2]].status ELSE inbox[i]]
  /\ proposed' = [i \in Items |-> IF i \in mine THEN decided[j][i[2]].prop ELSE proposed[i]]
  /\ Forget(j)
  /\ UNCHANGED <<corrections, jobVars>>
-----------------------------------------------------------------------------
(* What a confirm books: the fields of the patch over those proposed.      *)
OrElse(x, y) == IF x # Absent THEN x ELSE y

PatchOnly(patch, p) == patch.value   \* mutant: no fallback to the proposal

BookedKey(patch, p)   == OrElse(patch.key, p.key)
BookedValue(patch, p) == OrElse(patch.value, p.value)
BookedUnit(patch, p)  == OrElse(patch.unit, p.unit)

(* POST /api/inbox/:id/confirm up to its first write: the item must be     *)
(* pending, the key present and an ambiguous unit set by the reviewer.     *)
ConfirmBegin(r, i, patch) ==
  LET p == proposed[i] IN
  /\ pc[r] = "idle"
  /\ inbox[i] = "pending"
  /\ BookedKey(patch, p) # Absent
  /\ (p.kind = "unit_ambiguity" \/ BookedUnit(patch, p) = UnknownUnit) => patch.unit # Absent
  /\ review' = [review EXCEPT ![r] = [item |-> i, patch |-> patch]]
  /\ pc' = [pc EXCEPT ![r] = "select"]
  /\ UNCHANGED <<tables, staged, row, jobVars>>

ConfirmSelect(r) ==
  LET i == review[r].item
      patch == review[r].patch
      p == proposed[i] IN
  /\ pc[r] = "select"
  /\ Select(r, BookedKey(patch, p), BookedValue(patch, p), BookedUnit(patch, p), i)
  /\ pc' = [pc EXCEPT ![r] = "insert"]
  /\ UNCHANGED <<tables, staged, jobVars, review>>

(* The row of a document without a company violates NOT NULL: only the     *)
(* rollback is left.                                                       *)
ConfirmInsert(r) ==
  /\ pc[r] = "insert"
  /\ doc[review[r].item[1]] \in Filed
  /\ Insert(r)
  /\ pc' = [pc EXCEPT ![r] = "commit"]
  /\ UNCHANGED <<tables, row, jobVars, review>>

(* The ledger gets a row only for a change, with a note, of a key that     *)
(* already had a version when the transaction looked.                      *)
Corrects(patch, p, fact) == patch.note /\ fact.restates > 0 /\ patch.value # p.value

(* The rest of the handler and its commit.  The UPDATE of the item names   *)
(* its id only: it does not look at the status again.                      *)
ConfirmCommit(r) ==
  LET i == review[r].item
      patch == review[r].patch
      fact == row[r].fact IN
  /\ pc[r] = "commit"
  /\ Publish(r)
  /\ corrections' =
       IF Corrects(patch, proposed[i], fact)
       THEN Append(corrections, [key |-> row[r].key, value |-> fact.value, unit |-> fact.unit])
       ELSE corrections
  /\ inbox' = [inbox EXCEPT ![i] =
                 IF patch.value # Absent \/ patch.unit # Absent THEN "edited" ELSE "confirmed"]
  /\ Forget(r)
  /\ UNCHANGED <<proposed, jobVars>>

(* POST /api/inbox/:id/reject: one UPDATE, whatever the status was.        *)
Reject(i) ==
  /\ inbox[i] # "none"
  /\ inbox' = [inbox EXCEPT ![i] = "rejected"]
  /\ UNCHANGED <<book, proposed, corrections, pc, staged, row, jobVars, review>>
-----------------------------------------------------------------------------
Parse(j) == ParseBegin(j) \/ ParseProposal(j) \/ ParseAutoInsert(j) \/ ParseCommit(j)

Confirm(r) ==
  \/ \E i \in Items, patch \in Patches : ConfirmBegin(r, i, patch)
  \/ ConfirmSelect(r)
  \/ ConfirmInsert(r)
  \/ ConfirmCommit(r)

Next ==
  \/ \E j \in Jobs : Parse(j)
  \/ \E r \in Reviewers : Confirm(r)
  \/ \E a \in Actors : Rollback(a)
  \/ \E i \in Items : Reject(i)

Spec == Init /\ [][Next]_vars
-----------------------------------------------------------------------------
(* Types of the state. *)
TypeOK ==
  /\ book \in [Keys -> Seq(Fact)]
  /\ inbox \in [Items -> Statuses]
  /\ proposed \in [Items -> Proposal \cup {NoProposal}]
  /\ corrections \in Seq(Correction)
  /\ pc \in [Actors -> {"idle", "proposal", "select", "insert", "commit", "done"}]
  /\ staged \in [Actors -> [Keys -> Seq(Fact)]]
  /\ row \in [Actors -> [key : Keys, fact : Fact] \cup {Absent}]
  /\ doc \in [Jobs -> Docs \cup {Absent}]
  /\ ledger \in [Jobs -> Seq(Correction)]
  /\ decided \in [Jobs -> Seq(Entry)]
  /\ review \in [Reviewers -> [item : Items, patch : Patches] \cup {Absent}]

(* The versions of a key are 1, 2, 3 ... in commit order and each restates *)
(* the one before it: however confirms and parses of one figure overlap,   *)
(* no version is skipped, duplicated or restated twice, so the highest     *)
(* version is the one current figure (latestByMetricPeriod, metrics.ts).         *)
VersionChain ==
  \A k \in Keys : \A n \in DOMAIN book[k] :
    book[k][n].version = n /\ book[k][n].restates = n - 1

(* Two open transactions never both hold rows of one key: without a row    *)
(* lock anywhere, the unique index alone makes the second writer wait.     *)
OneWriterPerKey ==
  \A a, b \in Actors, k \in Keys :
    a # b => staged[a][k] = <<>> \/ staged[b][k] = <<>>

Decided == {i \in Items : inbox[i] \in {"confirmed", "edited", "rejected"}}

(* An item marked confirmed or edited has a figure in the book: the status *)
(* and the figure are written by one transaction, and no other request     *)
(* marks an item so.                                                       *)
ConfirmedIsBooked ==
  \A i \in Items : inbox[i] \in {"confirmed", "edited"} =>
    \E k \in Keys : \E n \in DOMAIN book[k] : book[k][n].item = i

(* A re-parse reapplies the ledger it read: an auto-confirmed figure whose *)
(* key was in that ledger has value and unit of one ledger row, never what *)
(* extraction found (corrections.ts, "Human overrides win").               *)
LedgerReapplied ==
  \A k \in Keys : \A n \in DOMAIN book[k] :
    LET f == book[k][n]
        rows == {c \in Range(ledger[f.by]) : c.key = k}
    IN  f.by \in Jobs /\ rows # {} =>
          \E c \in rows : f.value = c.value /\ f.unit = c.unit

(* The ledger is the book's: each row of it has a version of its own, with *)
(* its key, value and unit, that a reviewer booked, and the rows of a key  *)
(* are in the order of their versions, whichever confirms of it overlap,   *)
(* wait for each other's index entries or roll back.  The row is decided   *)
(* from a SELECT made before other commits.                                *)
CorrectionIsBooked ==
  \E at \in [DOMAIN corrections -> UNION {DOMAIN book[k] : k \in Keys}] :
    \A n \in DOMAIN corrections :
      LET c == corrections[n]
      IN /\ at[n] \in DOMAIN book[c.key] /\ book[c.key][at[n]].by \in Reviewers
         /\ book[c.key][at[n]].value = c.value /\ book[c.key][at[n]].unit = c.unit
         /\ \A m \in DOMAIN corrections : m < n /\ corrections[m].key = c.key => at[m] < at[n]

(* The book keeps the promise of RestatementLedger: figures are the facts  *)
(* of a key in commit order, decided items those out of review.            *)
Promise == INSTANCE RestatementLedger WITH
  history <- [k \in Keys |-> [n \in DOMAIN book[k] |->
                [value |-> book[k][n].value, item |-> book[k][n].item]]],
  decided <- Decided

KeepsPromise == Promise!Spec
=============================================================================
