--------------------------------- MODULE Ask ---------------------------------
(***************************************************************************)
(* A question to the book: evidence is gathered from the document chunks   *)
(* and the facts, and an answer is given only if every number in it, and   *)
(* in the question, stands in that evidence; else Ask refuses.  The Ask    *)
(* page keeps a thread of turns and puts the last four before a follow-up. *)
(*                                                                         *)
(* A text is the set of words it has for a question, how it begins (its    *)
(* first forty characters) and the numbers in it, of which those within    *)
(* the first four hundred characters are shown in a citation.              *)
(***************************************************************************)
EXTENDS Figures

CONSTANTS
  Firms,
  Facts,      \* rows of metric_values that may be confirmed: [firm, key, period, version,
              \*   value, ref, head, dates], ref its source in a document, or Null, head how
              \*   its text begins and dates the numbers of its period
  Chunks,     \* pieces of documents: [firm, ref, head, words, numbers, shown]
  Questions,  \* [firm, words, numbers]; firm is Null for the whole portfolio
  Completions,\* the numbers of what the language model may write
  HitLimit,   \* rows of each kind that are taken (8)
  MaxAsked,   \* bound: questions that are recorded
  MaxTurns,   \* bound: turns of a thread
  MaxKnown    \* bound: facts and chunks in the book

ASSUME AskAssumption ==
  /\ \A f \in Facts : f.period \in Int
  /\ \A q \in Questions : DOMAIN q = {"firm", "words", "numbers"}

VARIABLES
  facts, chunks,  \* metric_values and document_chunks
  ask,            \* the request under way
  queries,        \* ask_queries
  turns,          \* the thread of the Ask page
  waiting         \* the page waits for the answer of that request

page == <<turns, waiting>>
askVars == <<facts, chunks, ask, queries, page>>

Asleep == [stage |-> "idle", q |-> Null, found |-> {}, hits |-> {}]

AskInit == facts = {} /\ chunks = {} /\ ask = Asleep /\ queries = {} /\ turns = <<>> /\ waiting = FALSE

-----------------------------------------------------------------------------
(* Others confirm facts and parse documents meanwhile. *)
BookFact(f) ==
  /\ f \notin facts /\ Cardinality(facts) + Cardinality(chunks) < MaxKnown
  /\ facts' = facts \cup {f}
  /\ UNCHANGED <<chunks, ask, queries, page>>

Index(c) ==
  /\ c \notin chunks /\ Cardinality(facts) + Cardinality(chunks) < MaxKnown
  /\ chunks' = chunks \cup {c}
  /\ UNCHANGED <<facts, ask, queries, page>>

-----------------------------------------------------------------------------
Within(q, row) == q.firm = Null \/ row.firm = q.firm
Taken(set) == {s \in SUBSET set : Cardinality(s) = (IF Cardinality(set) < HitLimit THEN Cardinality(set) ELSE HitLimit)}
Written(n) == IF n = Null THEN {} ELSE {n}

(* What evidence shows of a fact, restated or not, and of a runway by a    *)
(* company's current rows: cash over burn, with the source of the cash.    *)
ShortText(ref, firm, head, words, numbers) ==
  [ref |-> ref, firm |-> firm, head |-> head, words |-> words, numbers |-> numbers, shown |-> numbers]

FactText(f) == ShortText(f.ref, f.firm, f.head, {f.key}, Written(f.value) \cup f.dates)

RunwayText(current, firm) ==
  LET cash == seriesFor(current, "cash")
      burn == seriesFor(current, "burn")
      months == runwayMonthsFromBurns(ValueAt(cash, 1), Window(burn, 1))
  IN IF months = Null \/ cash[1].ref = Null THEN {}
     ELSE {ShortText(cash[1].ref, firm, "runway", {"runway", "cash", "burn"},
                     {months.num \div months.den, cash[1].value} \cup Written(ValueAt(burn, 1)))}

OfFirm(rows, firm) == {f \in rows : f.firm = firm}

Runways(q, current) ==
  IF "runway" \in q.words
    THEN UNION {RunwayText(OfFirm(current, firm), firm) : firm \in {f \in Firms : q.firm \in {Null, f}}}
    ELSE {}

(* Mutant: the facts of every company are taken. *)
anyFirm(q) == {f \in facts : f.key \in q.words \/ f.value \in q.numbers}

factHits(q) == {f \in facts : Within(q, f) /\ (f.key \in q.words \/ f.value \in q.numbers)}

(* A question of stop words only is searched for as the house's own name. *)
Sought(q) == IF q.words = {} THEN {"venture"} ELSE q.words

(* The best chunks that share a word with the question. *)
AskChunks(q) ==
  /\ ask.stage = "idle" /\ Cardinality(queries) < MaxAsked
  /\ \E taken \in Taken({c \in chunks : Within(q, c) /\ c.words \cap Sought(q) # {}}) :
       ask' = [stage |-> "facts", q |-> q, found |-> taken, hits |-> {}]
  /\ UNCHANGED <<facts, chunks, queries>>

(* The next SELECT sees what was committed since; of the facts it takes,   *)
(* those without a document are dropped.                                   *)
AskFacts ==
  /\ ask.stage = "facts"
  /\ \E taken \in Taken(factHits(ask.q)), current \in SUBSET facts :
       /\ \A firm \in Firms : OfFirm(current, firm) \in latestByMetricPeriod(OfFirm(facts, firm))
       /\ ask' = [ask EXCEPT !.stage = "decide",
                    !.hits = {FactText(f) : f \in {x \in taken : x.ref # Null}} \cup Runways(ask.q, current)]
  /\ UNCHANGED <<facts, chunks, queries, page>>

Overlaps(q, text) == q.words = {} \/ text.words \cap q.words # {} \/ text.numbers \cap q.numbers # {}

filterEvidenceByTokens == {t \in ask.found \cup ask.hits : Overlaps(ask.q, t)}

NumbersIn(texts) == UNION {t.numbers : t \in texts}

refuseUnsourcedDigits(evidence, answer, question) == answer \cup question \subseteq NumbersIn(evidence)

(* The citations evidence may end in: each text is cut, and of those of    *)
(* one source that begin alike the first stands for all, facts before      *)
(* chunks.                                                                 *)
Alike(s, t) == s.ref = t.ref /\ s.head = t.head
Cut(t) == [ref |-> t.ref, head |-> t.head, numbers |-> t.shown]

citationsFrom(evidence) ==
  {{Cut(t) : t \in first} : first \in {texts \in SUBSET evidence :
     /\ \A t \in evidence : \E s \in texts : Alike(s, t) /\ (t \in ask.hits => s \in ask.hits)
     /\ \A s, t \in texts : Alike(s, t) => s = t}}

(* The page's turn of it; a refusal has words of its own. *)
WordsIn(texts) == UNION {t.words : t \in texts}
AskTurn(refused, evidence, citations, answer) ==
  [by |-> "ask", words |-> IF refused THEN {"book"} ELSE WordsIn(evidence), numbers |-> answer,
   refused |-> refused, citations |-> citations, evidence |-> evidence]

(* The answer is recorded with the citations, and lands on the page that   *)
(* still waits for it, in whatever thread there is by then.  What evidence *)
(* it was checked against is kept for the properties alone.                *)
Record(refused, evidence, answer) ==
  \E citations \in citationsFrom(evidence) :
    /\ queries' = queries \cup {[q |-> ask.q, refused |-> refused, citations |-> citations,
                                 evidence |-> evidence, answer |-> answer]}
    /\ turns' = IF waiting THEN Append(turns, AskTurn(refused, evidence, citations, answer)) ELSE turns
    /\ waiting' = FALSE
    /\ ask' = Asleep

(* decideAsk and the check of the question's own numbers. *)
Decide ==
  /\ ask.stage = "decide"
  /\ LET evidence == filterEvidenceByTokens
     IN IF evidence # {} /\ refuseUnsourcedDigits(evidence, {}, ask.q.numbers)
          THEN ask' = [ask EXCEPT !.stage = "ask"] /\ UNCHANGED <<queries, page>>
          ELSE Record(TRUE, evidence, {})
  /\ UNCHANGED <<facts, chunks>>

(* What the model writes; without a key, the evidence as far as it fits. *)
Complete(answer) ==
  /\ ask.stage = "ask"
  /\ LET evidence == filterEvidenceByTokens
         grounded == refuseUnsourcedDigits(evidence, answer, ask.q.numbers)
     IN Record(~grounded, evidence, IF grounded THEN answer ELSE {})
  /\ UNCHANGED <<facts, chunks>>

Quote ==
  /\ ask.stage = "ask"
  /\ \E part \in SUBSET filterEvidenceByTokens : Complete(NumbersIn(part))

(* Any other failure of the model ends the request: nothing is recorded. *)
ModelFails ==
  /\ ask.stage = "ask"
  /\ ask' = Asleep /\ waiting' = FALSE
  /\ UNCHANGED <<facts, chunks, queries, turns>>

-----------------------------------------------------------------------------
(* The Ask page. *)

UserTurn(q) == [by |-> "user", words |-> q.words, numbers |-> q.numbers, refused |-> FALSE,
                citations |-> {}, evidence |-> {}]
Recent == {turns[i] : i \in {j \in DOMAIN turns : j > Len(turns) - 4}}

(* followUpHint: what was said goes to the API as part of the question. *)
FollowUp(q) ==
  IF turns = <<>> THEN q
  ELSE [q EXCEPT !.words = @ \cup WordsIn(Recent) \cup {"follow"}, !.numbers = @ \cup NumbersIn(Recent)]

(* GET /api/ask/history, of the last 20. *)
listAskHistory == {old.q : old \in queries}

(* A question is typed, or one of the recent questions taken again.  With  *)
(* its hint it may be too long, which the API refuses: the turn stays.     *)
Submit(q) ==
  /\ ~waiting /\ Len(turns) < MaxTurns
  /\ q \in Questions \/ (turns = <<>> /\ q \in listAskHistory)
  /\ turns' = Append(turns, UserTurn(q))
  /\ \/ AskChunks(FollowUp(q)) /\ waiting' = TRUE
     \/ turns # <<>> /\ UNCHANGED <<facts, chunks, ask, queries, waiting>>

(* The answer is lost on its way, or will be; the request goes on. *)
PageGivesUp ==
  /\ waiting /\ waiting' = FALSE
  /\ UNCHANGED <<facts, chunks, ask, queries, turns>>

(* New chat, at any time. *)
resetChat ==
  /\ turns # <<>> /\ turns' = <<>>
  /\ UNCHANGED <<facts, chunks, ask, queries, waiting>>

AskNext ==
  \/ \E f \in Facts : BookFact(f)
  \/ \E c \in Chunks : Index(c)
  \/ \E q \in Questions \cup listAskHistory : Submit(q)
  \/ PageGivesUp \/ resetChat
  \/ AskFacts \/ Decide \/ Quote \/ ModelFails
  \/ \E n \in Completions : Complete(n)

AskSpec == AskInit /\ [][AskNext]_askVars

-----------------------------------------------------------------------------
(* Every number of an answer, and of the question it answers, stands in a  *)
(* text whose source the answer cites, with how that text begins: a chunk, *)
(* a fact or a runway of sourced cash, still in the book and of the        *)
(* company that was asked about.  Nothing is cited beside.  A citation     *)
(* itself may be cut before the number, or show another text of that       *)
(* beginning.  The two refusals around the model in POST /api/ask, and     *)
(* what the handler gathers before them.  So it is of the thread: an       *)
(* answer stands below a question or, after New chat, at its head; what it *)
(* says is in its evidence, and it was given to a follow-up only if what   *)
(* was said in the last turns is there too.                                *)
SourcesCited(a) ==
  /\ \A t \in a.evidence : \E c \in a.citations : Alike(c, t)
  /\ \A c \in a.citations : \E t \in a.evidence : c = Cut(t)

ThreadIsSourced ==
  \A i \in DOMAIN turns :
    /\ turns[i].by = "ask" => SourcesCited(turns[i]) /\ (i = 1 \/ turns[i - 1].by = "user")
    /\ turns[i].by = "ask" /\ ~turns[i].refused =>
         \A j \in DOMAIN turns : j \in (i - 5)..i => turns[j].numbers \subseteq NumbersIn(turns[i].evidence)

InBook(t) ==
  \/ t \in chunks
  \/ \E f \in facts : f.ref = t.ref /\ f.ref # Null /\ (t = FactText(f) \/ f.key = "cash")

AnswersAreSourced ==
  /\ ThreadIsSourced
  /\ \A a \in queries :
       ~a.refused =>
         /\ a.answer \cup a.q.numbers \subseteq NumbersIn(a.evidence)
         /\ a.citations # {} /\ SourcesCited(a)
         /\ \A t \in a.evidence : Within(a.q, t) /\ InBook(t)
=============================================================================
