----------------------------- MODULE SheetReader -----------------------------
(***************************************************************************)
(* What a parse makes of a document: the table it finds, the proposals of  *)
(* its cells, those a language model adds, the correction ledger and the   *)
(* gate of auto-confirm, up to the inbox and the book.                     *)
(*                                                                         *)
(* A text is what the reader finds in it: a label is a record of the       *)
(* aliases it equals or contains, the catalog phrases it resembles, and    *)
(* the units and periods it names.  Confidences are percentages.           *)
(***************************************************************************)
EXTENDS Fiscal, SequencesExt

CONSTANTS
  Null,        \* a figure that is not reported; no metric, no setting
  Labels,      \* texts of first columns
  Heads,       \* header rows, which name no metric: of each column the units and periods in its text
  Dash,        \* the mark of a missing figure
  CellTexts,   \* what a cell may hold: a number, Dash, or anything that is neither
  Columns,     \* columns beside the label
  Catalog,     \* METRIC_CATALOG: of each key its family, default unit and aliases
  Books,       \* formula books an admin may submit: of some keys the aliases and the default
               \*   unit that replace the catalog's, {} and Null where they do not
  Length,      \* of each alias and phrase, its length
  PartsOf(_),  \* the numbers whose digits occur in those of a number
  Replies,     \* what the language model may propose
  Patches,     \* the values a reviewer may correct a figure to
  Thresholds,  \* org_settings.autoConfirmMinConfidence, Null or a percentage
  FyStart,     \* companies.fy_start_month
  MaxRows,     \* bound: rows of the document
  ReadRows,    \* rows a sheet is read to (80)
  LastColumn   \* the columns a workbook may have

Kinds == {"xlsx", "csv", "docx", "pdf", "pdf_page", "pdf_text"}
Keys  == DOMAIN Catalog

(* Both kinds of catalog are of finitely many aliases, each of some length; *)
(* null is no locator.                                                      *)
ASSUME SheetReaderAssumption ==
  /\ Columns \in Nat /\ LastColumn \in Nat
  /\ Null \notin [row : Nat, col : Seq(Nat)] \cup {"page", "cell"}
  /\ IsFiniteSet(Keys) /\ IsFiniteSet(DOMAIN Length)
  /\ \A a \in DOMAIN Length : Length[a] \in Nat
  /\ \A k \in Keys : DOMAIN Catalog[k] = {"family", "unit", "aliases"} /\ Catalog[k].aliases \subseteq DOMAIN Length
  /\ \A b \in Books : \A k \in DOMAIN b : b[k].aliases \subseteq DOMAIN Length

MoneyUnits == {"crore", "lakh", "thousand", "million", "unit"}

VARIABLES
  kind, head, body,  \* the document: its kind, header row and further rows
  threshold,         \* the organisation's setting
  own,               \* its formula book, org_settings.metric_book
  ledger,            \* the active corrections of the company
  stage,                \* "open", "assist" while the model is asked, "done"
  read,              \* the proposals found, with the setting read before them
  inbox,             \* inbox_items of the document
  book               \* the figures auto-confirmed

settings == <<threshold, own>>
sheetVars == <<kind, head, body, settings, ledger, stage, read, inbox, book>>

-----------------------------------------------------------------------------
(* The catalog. *)

Aliases(catalog, key) == catalog[key].aliases

Of(new, old, none) == IF new = none THEN old ELSE new
resolveMetricCatalog ==
  [k \in Keys |-> IF k \in DOMAIN own
                    THEN [Catalog[k] EXCEPT !.aliases = Of(own[k].aliases, @, {}), !.unit = Of(own[k].unit, @, Null)]
                    ELSE Catalog[k]]

InFamily(unit, family) ==
  \/ family = "money" /\ unit \in MoneyUnits
  \/ family = "count" /\ unit \in {"count", "unit"}
  \/ family = unit

(* A book is refused as a whole for one unknown metric or foreign unit. *)
validateMetricBookInput(b) ==
  /\ DOMAIN b \subseteq Keys
  /\ \A k \in DOMAIN b : b[k].unit # Null => InFamily(b[k].unit, Catalog[k].family)

Longest(found) == CHOOSE f \in found : \A g \in found : Length[f[2]] >= Length[g[2]]

(* The key whose alias the label is, or else that of the longest alias it contains. *)
matchMetricAlias(label, catalog) ==
  LET exact == {k \in Keys : label.text \in Aliases(catalog, k)}
      inside == {f \in Keys \X label.contains : f[2] \in Aliases(catalog, f[1])}
  IN IF exact # {} THEN CHOOSE k \in exact : TRUE
     ELSE IF inside # {} THEN Longest(inside)[1] ELSE Null

(* A key one of whose longer phrases contains the label or is contained,   *)
(* or else one the label resembles in nine letter pairs of ten.            *)
suggestCatalogMetricFuzzy(label) ==
  LET contained == {f \in Keys \X label.phrases : f[2] \in Aliases(Catalog, f[1]) /\ Length[f[2]] >= 8}
      alike == {k \in Keys : label.ratio[k] >= 90}
  IN IF contained # {} THEN Longest(contained)[1]
     ELSE IF alike # {} THEN CHOOSE k \in alike : \A o \in alike : label.ratio[k] >= label.ratio[o]
     ELSE Null

detectUnit(units) ==
  CASE units = {} -> "unknown"
    [] \E u \in units : units = {u} -> CHOOSE u \in units : TRUE
    [] OTHER -> "ambiguous"

-----------------------------------------------------------------------------
(* Rows to proposals. *)

Blank == [label |-> Null, cells |-> <<>>]

(* The rows that reach the reader: every path drops those that are blank. *)
Filled == {i \in DOMAIN body : body[i] # Blank}
NthFilled(r) == CHOOSE i \in Filled : Cardinality(Filled \cap (1..i)) = r
RowsRead == [r \in 1..Cardinality(Filled) |-> body[NthFilled(r)]]

parseNumber(cell) == IF cell \in Int THEN cell ELSE Null
Readable(cell) == cell \in Int \/ cell = Dash

HeadUnits == UNION {head[c].units : c \in DOMAIN head}
HeadHints == [c \in DOMAIN head |-> head[c].hints]
SheetPeriod == parsePeriodHint(FlattenSeq(HeadHints), FyStart)

Period(label, c) ==
  LET ofColumn == parsePeriodHint(head[c].hints, FyStart)
      ofLabel  == parsePeriodHint(label.hints, FyStart)
  IN IF ofColumn # NoPeriod THEN ofColumn ELSE IF ofLabel # NoPeriod THEN ofLabel ELSE SheetPeriod

(* Mutant: a label that only resembles a metric counts like any read without a unit. *)
fuzzyAsRead(near, unit) == IF unit = "unknown" \/ near THEN 55 ELSE 82

confidenceOf(near, unit) == IF near THEN 48 ELSE IF unit = "unknown" THEN 55 ELSE 82

(* The letters of a column, as numbers 1 to 26, and the column of letters.  *)
colToLetter[n \in Nat] == IF n = 0 THEN <<>> ELSE Append(colToLetter[(n - 1) \div 26], ((n - 1) % 26) + 1)
a1ToRC(letters) == FoldLeft(LAMBDA col, l : col * 26 + l, 0, letters)

(* Mutant: the header row is not counted. *)
citedBelowHead(r, c) == [row |-> r, col |-> colToLetter[c + 1]]

(* The locator's cell: the row of the rows read, after the header. *)
CitedCell(r, c) == [row |-> r + 1, col |-> colToLetter[c + 1]]

(* The proposals of one cell: none or one.  Of a money metric the unit     *)
(* must be named, and no unit may compete with another.                    *)
ProposalsAt(rows, r, c, catalog) ==
  LET label   == rows[r].label
      cell    == rows[r].cells[c]
      unit    == detectUnit(label.units \cup HeadUnits)
      exact   == matchMetricAlias(label, catalog)
      near    == exact = Null
      key     == IF near THEN suggestCatalogMetricFuzzy(label) ELSE exact
      unclear == \/ unit = "ambiguous"
                 \/ exact # Null /\ catalog[exact].family = "money" /\ unit = "unknown"
      found(what, named, in, sure, how) ==
        [kind |-> what, key |-> named, unit |-> in, confidence |-> sure, via |-> how,
         label |-> label, value |-> parseNumber(cell), period |-> Period(label, c),
         cell |-> CitedCell(r, c), page |-> kind \in {"pdf", "pdf_page", "pdf_text"}, excerpt |-> <<label, cell>>]
  IN IF label = Null \/ ~Readable(cell) \/ (~unclear /\ key = Null) THEN {}
     ELSE IF unclear THEN {found("unit_ambiguity", exact, "unknown", 35, "cell")}
     ELSE {found("metric", key,
                 IF unit # "unknown" THEN unit ELSE IF near THEN Catalog[key].unit ELSE catalog[key].unit,
                 confidenceOf(near, unit), IF near THEN "likeness" ELSE "cell")}

extractFromRows(rows, catalog) ==
  UNION {ProposalsAt(rows, r, c, catalog) :
           r \in {i \in DOMAIN rows : i < ReadRows}, c \in 1..Columns}

Least(a, b) == IF a <= b THEN a ELSE b

(* Text keeps less of the layout, so the confidence of what is read in it is capped. *)
Cap == CASE kind = "docx" -> 48
         [] kind = "pdf_text" -> 50
         [] kind = "pdf_page" -> 55
         [] kind = "pdf" -> 72
         [] OTHER -> 100

Before(p, q) == p.cell.row < q.cell.row \/ (p.cell.row = q.cell.row /\ a1ToRC(p.cell.col) < a1ToRC(q.cell.col))

Named(p) == IF p.key = Null THEN p.label ELSE p.key

EndOf(p) == IF p.period = NoPeriod THEN NoPeriod ELSE p.period.end

(* One proposal of each metric, period's end, value and unit. *)
dedupeProposals(ps) ==
  {p \in ps : ~\E q \in ps : /\ Before(q, p) /\ Named(q) = Named(p)
                             /\ EndOf(q) = EndOf(p) /\ q.value = p.value /\ q.unit = p.unit}

extractBuffer ==
  LET rows == RowsRead
      found == extractFromRows(rows, IF kind \in {"xlsx", "csv"} THEN resolveMetricCatalog ELSE Catalog)
      capped == {[p EXCEPT !.confidence = Least(@, Cap)] : p \in found}
  IN IF kind \in {"pdf", "pdf_page"} THEN dedupeProposals(capped) ELSE capped

-----------------------------------------------------------------------------
(* The language model's assist: it may propose anything, and what the      *)
(* document does not show is dropped.                                      *)

(* The numbers that stand in the document's text; digits inside longer ones count. *)
Numbers == UNION {PartsOf(n) : n \in UNION {Range(body[r].cells) \cap Int : r \in DOMAIN body}}
Shown(label) == \E r \in DOMAIN body : body[r].label = label

numberAppearsInSource(n) == n \in Numbers

(* buildExtractAssistPrompt's reader: a workbook is shown to the model     *)
(* only when few of its cells were understood.                             *)
AssistWanted(found) == kind # "xlsx" \/ Cardinality(found) < 3

normalizeUnit(unit, default) ==
  IF unit \in MoneyUnits \cup {"percent", "months", "count", "unknown"} THEN unit ELSE default

(* A reply becomes a proposal when its metric is known, its number stands  *)
(* in the document and so does its excerpt or its label.                   *)
Resolved(reply) ==
  LET key  == IF reply.key \in Keys THEN reply.key ELSE matchMetricAlias(reply.label, Catalog)
      unit == normalizeUnit(reply.unit, Catalog[key].unit)
      clear == unit # "unknown" \/ Catalog[key].family # "money"
  IN IF \/ key = Null
        \/ reply.value # Null /\ ~numberAppearsInSource(reply.value)
        \/ ~reply.quoted /\ ~Shown(reply.label)
     THEN {}
     ELSE {[label |-> reply.label, value |-> reply.value, key |-> key, unit |-> unit,
            period |-> parsePeriodHint(reply.hints, FyStart),
            kind |-> IF clear THEN "metric" ELSE "unit_ambiguity",
            confidence |-> IF clear THEN 45 ELSE 35,
            cell |-> Null, page |-> reply.page, excerpt |-> <<reply.label, reply.value>>, via |-> "model"]}

parseExtractAssistJson(replies) == UNION {Resolved(r) : r \in replies}

(* What repeats a heuristic proposal's metric, label and end is dropped;    *)
(* of two alike in the reply the first stays.                              *)
Alike(p, q) == p.key = q.key /\ p.label = q.label /\ EndOf(p) = EndOf(q)

mergeExtractProposals(found, assisted) ==
  LET extra == {p \in assisted : ~\E q \in found : Alike(p, q)}
  IN found \cup {CHOOSE p \in extra : Alike(p, q) : q \in extra}

-----------------------------------------------------------------------------
(* The ledger and the gate. *)

Correction(p) == {c \in ledger : c.key = p.key /\ c.period = p.period}

applyCorrectionLedger(p) ==
  IF p.key = Null \/ p.period = NoPeriod \/ Correction(p) = {} THEN p
  ELSE LET c == CHOOSE x \in Correction(p) : TRUE
       IN [p EXCEPT !.value = c.value, !.confidence = 99]

shouldAutoConfirm(p, min) ==
  /\ min # Null /\ min \in 50..100
  /\ p.kind = "metric" /\ p.key # Null /\ p.period # NoPeriod /\ p.unit # "unknown"
  /\ p.confidence >= min

-----------------------------------------------------------------------------
SheetInit ==
  /\ kind \in Kinds
  /\ head \in Heads
  /\ body = <<>>
  /\ threshold = Null /\ own = <<>> /\ ledger = {}
  /\ stage = "open" /\ read = [found |-> {}, min |-> Null]
  /\ inbox = {} /\ book = {}

(* The company fills its sheet in, before it sends it. *)
WriteRow(row) ==
  /\ stage = "open" /\ Len(body) < MaxRows
  /\ body' = Append(body, row)
  /\ UNCHANGED <<kind, head, settings, ledger, stage, read, inbox, book>>

(* An admin sets the threshold of auto-confirm, once here, at any time of the parse. *)
SaveThreshold(t) ==
  /\ threshold = Null /\ stage # "done"
  /\ threshold' = t
  /\ UNCHANGED <<kind, head, body, own, ledger, stage, read, inbox, book>>

(* Or the formula book, once and before the parse here. *)
SaveFormulaBook(b) ==
  /\ own = <<>> /\ stage = "open"
  /\ validateMetricBookInput(b)
  /\ own' = b
  /\ UNCHANGED <<kind, head, body, threshold, ledger, stage, read, inbox, book>>

(* A reviewer's correction of a figure commits; one stands for each figure here. *)
Correct(c) ==
  /\ ledger = {} /\ stage # "done"
  /\ ledger' = {c}
  /\ UNCHANGED <<kind, head, body, settings, stage, read, inbox, book>>

(* The transaction of the parse as far as it ends, with the ledger it      *)
(* reads then and the setting it read before the model was asked.          *)
Write(proposals, min) ==
  LET patched == {applyCorrectionLedger(p) : p \in proposals}
  IN /\ inbox' = {[p |-> p, status |-> IF shouldAutoConfirm(p, min) THEN "confirmed" ELSE "pending"] : p \in patched}
     /\ book' = {p \in patched : shouldAutoConfirm(p, min)}
     /\ stage' = "done"

(* runParseJob begins; without a reason to ask the model it also ends. *)
RunParse ==
  /\ stage = "open" /\ body # <<>>
  /\ read' = [found |-> extractBuffer, min |-> threshold]
  /\ IF AssistWanted(extractBuffer)
       THEN stage' = "assist" /\ UNCHANGED <<inbox, book>>
       ELSE Write(extractBuffer, threshold)
  /\ UNCHANGED <<kind, head, body, settings, ledger>>

(* The model answers, fails or is not configured. *)
Assisted(replies) ==
  /\ stage = "assist"
  /\ Write(mergeExtractProposals(read.found, parseExtractAssistJson(replies)), read.min)
  /\ UNCHANGED <<kind, head, body, settings, ledger, read>>

SheetNext ==
  \/ \E l \in Labels, cs \in [1..Columns -> CellTexts] : WriteRow([label |-> l, cells |-> cs])
  \/ WriteRow(Blank)
  \/ \E t \in Thresholds : SaveThreshold(t)
  \/ \E b \in Books : SaveFormulaBook(b)
  \/ \E k \in Keys, c \in 1..Columns, v \in Patches :
       Correct([key |-> k, period |-> parsePeriodHint(head[c].hints, FyStart), value |-> v])
  \/ RunParse
  \/ \E rs \in {{}} \cup {{r} : r \in Replies} : Assisted(rs)

SheetSpec == SheetInit /\ [][SheetNext]_sheetVars

-----------------------------------------------------------------------------
Corrected(p) == \E c \in ledger : c.key = p.key /\ c.period = p.period /\ c.value = p.value

(* Only what was read under a metric's own name goes into the book without *)
(* a person, and of money only in a unit the document names: a likeness, a *)
(* proposal of the model and the text of a memo wait for review, whatever  *)
(* threshold is set, unless they carry the value a person has put in the   *)
(* ledger before.  extract.ts gives each way of reading its confidence and *)
(* ops.ts keeps the threshold above that of guesses; corrections raise it. *)
GuessesAreReviewed ==
  \A p \in book : \/ Corrected(p)
                  \/ /\ p.via = "cell" /\ kind # "docx"
                     /\ Catalog[p.key].family = "money" => p.unit \in p.label.units \cup HeadUnits

(* sheet-preview.ts shows the cell of the workbook a locator names. *)
Preview(cell) ==
  IF cell.row - 1 \in DOMAIN body
    THEN <<body[cell.row - 1].label, body[cell.row - 1].cells[a1ToRC(cell.col) - 1]>> ELSE <<Null, Null>>

(* What a locator leads to: its page or else its cell. *)
canHighlightSource(p) == IF p.page THEN "page" ELSE IF p.cell # Null THEN "cell" ELSE Null

(* GET /api/documents/:id/preview/sheet and /preview/page: 400 for a       *)
(* document of another kind; a page is shown as its text.                  *)
previewSheet(p) == IF kind = "xlsx" THEN Preview(p.cell) ELSE <<Null, Null>>
previewPage(p) == IF kind \in {"pdf", "pdf_page", "pdf_text"} THEN p.excerpt ELSE <<Null, Null>>

SourceViewer(p) ==
  CASE canHighlightSource(p) = "page" -> previewPage(p)
    [] canHighlightSource(p) = "cell" -> previewSheet(p)
    [] OTHER -> <<Null, Null>>

LettersAgree == \A n \in 1..LastColumn : a1ToRC(colToLetter[n]) = n

(* The cell a reviewer is sent to shows the label and the figure of the    *)
(* proposal, and no cell is invented for what a model proposed: the reader *)
(* counts the rows it was given and the preview those of the workbook, and *)
(* the two part only below a blank row; the letters of a column are read   *)
(* back as that column.                                                    *)
CitesItsCell ==
  /\ LettersAgree
  /\ kind = "xlsx" =>
       \A i \in inbox :
         IF i.p.via = "model" THEN SourceViewer(i.p) = <<Null, Null>>
         ELSE \/ \E r \in 1..(i.p.cell.row - 1) : body[r] = Blank
              \/ SourceViewer(i.p) = i.p.excerpt
=============================================================================
