---------------------------- MODULE MCMetricBook ----------------------------
(* Small instances of MetricBook and of Ask, which reads a book of its own   *)
(* here, of two companies: a behaviour is of the one or of the other.       *)
EXTENDS MetricBook, Ask, TLC

CONSTANTS k1, k2, d1, d2, j1, j2, r1, r2, crore, unknown

Prop(k, v, u, kind, c) == [key |-> k, value |-> v, unit |-> u, kind |-> kind, conf |-> c]
Body(k, v, u, n) == [key |-> k, value |-> v, unit |-> u, note |-> n]

(* d1 has one figure below and one above the threshold, d2 restates the    *)
(* first one and finds it twice, the second time without a unit.           *)
MCExtract ==
  d1 :> <<Prop(k1, 1, crore, "metric", 80), Prop(k2, 1, crore, "metric", 95)>> @@
  d2 :> <<Prop(k1, 2, crore, "metric", 95), Prop(k1, 2, unknown, "unit_ambiguity", 95)>>

(* As proposed; a corrected value with a note; a unit; another key.        *)
MCPatches ==
  {Body(Absent, Absent, Absent, FALSE), Body(Absent, 3, Absent, TRUE),
   Body(Absent, Absent, crore, FALSE), Body(k2, Absent, Absent, FALSE)}

BookedFact(firm, key, version, value, ref, head) ==
  [firm |-> firm, key |-> key, period |-> 31, version |-> version, value |-> value, ref |-> ref,
   head |-> head, dates |-> {2026, 31}]
TheFacts == {BookedFact("acme", "cash", 2, 9, "pack", "cash 9"), BookedFact("acme", "burn", 1, 3, Null, "burn 3"),
             BookedFact("beta", "cash", 1, 7, "deck", "cash 7")}

(* The fund's memo has two pages that begin alike, of which one is long. *)
PageText(numbers, shown) ==
  [firm |-> Null, ref |-> "memo", head |-> "memo", words |-> {"cash", "venture"}, numbers |-> numbers, shown |-> shown]
TheChunks == {PageText({12, 40}, {40}), PageText({40, 9}, {40, 9})}
TheQuestions == {[firm |-> Null, words |-> {"cash"}, numbers |-> {}],
                 [firm |-> "acme", words |-> {"cash", "runway"}, numbers |-> {2026}],
                 [firm |-> Null, words |-> {}, numbers |-> {}]}

VARIABLE scene
MCInit == scene \in {"book", "ask"} /\ Init /\ AskInit
MCNext == /\ \/ scene = "book" /\ Next /\ UNCHANGED askVars
             \/ scene = "ask" /\ AskNext /\ UNCHANGED vars
          /\ UNCHANGED scene
MCSpec == MCInit /\ [][MCNext]_<<vars, askVars, scene>>

JobSymmetry == Permutations({j1, j2}) \cup Permutations({r1, r2})
=============================================================================
