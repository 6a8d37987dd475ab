----------------------------- MODULE BookNumbers -----------------------------
(***************************************************************************)
(* What each page reads off the book of one company: the company page, the *)
(* command page, compare, the report sheets, the flag job and the NAV      *)
(* page each select the rows and compute their figures on their own.  The  *)
(* book grows by confirmed figures and posted marks; the pages must tell   *)
(* one story of it.                                                        *)
(*                                                                         *)
(* Dates are day numbers.  Of a period end there may be a month's figure,  *)
(* a quarter's and a year's, each with versions of its own, and a SELECT   *)
(* without ORDER BY returns the rows in any order: a page is an operator   *)
(* of the current rows that one order leaves.                              *)
(***************************************************************************)
EXTENDS Figures

CONSTANTS
  Periods,     \* period ends
  ValuesOf,    \* the figures that may be confirmed, of each metric key
  Lanes(_),    \* the lanes a key's figure may be confirmed in
  Spans(_),    \* how far a period may reach back from its end, of each key
  Positions,   \* the positions of the fund, one per company
  Cost,        \* positions.cost_basis
  Created,     \* companies.created_at
  MarkDates,
  MarkBodies,  \* what a mark may be posted with: [value, sourced]
  Policies,    \* the threshold overrides an admin may save
  Days,        \* bound: the days on which the pages are looked at
  MaxEntries   \* bound: rows of metric_values and marks together

Keys == DOMAIN ValuesOf
SpanSet == UNION {Spans(k) : k \in Keys}
Row  == [key : Keys, period : Periods, span : SpanSet, version : 1..MaxEntries, value : Int \cup {Null},
         lane : {"objective", "subjective"}]
Mark == [pos : Positions, asOf : MarkDates, value : Int \cup {Null}, sourced : BOOLEAN]

ASSUME BookNumbersAssumption ==
  /\ Periods \subseteq Int /\ Created \in Int /\ Days \subseteq Int /\ MaxEntries \in Nat
  /\ MarkDates \subseteq Int /\ IsFiniteSet(MarkDates) /\ MarkDates # {}
  /\ IsFiniteSet(Positions) /\ Positions # {}
  /\ {"cash", "burn", "net_revenue", "runway_months"} \subseteq Keys
  /\ \A k \in Keys : ValuesOf[k] \subseteq Int \cup {Null}
  /\ \A k \in Keys : Lanes(k) \subseteq {"objective", "subjective"}
  /\ MarkBodies \subseteq [value : Int \cup {Null}, sourced : BOOLEAN]
  /\ Null \notin Mark

VARIABLES
  rows,    \* metric_values
  told,    \* of each key, period and span, the figure confirmed last
  marks,   \* marks, in the order they were posted
  policy,  \* org_settings.flag_policy
  today

numbersVars == <<rows, told, marks, policy, today>>

FlagCatalog ==
  [runway_short |-> 6, mis_late |-> 45, burn_up |-> 20, gm_compression |-> 3,
   plan_variance |-> 15, mark_stale |-> 100, revenue_down |-> 15, headcount_drop |-> 10,
   spend_without_revenue |-> 20]

FlagBounds ==
  [k \in DOMAIN FlagCatalog |->
     CASE k = "runway_short" -> 0..36
       [] k = "mis_late" -> 0..365
       [] k = "mark_stale" -> 0..3650
       [] OTHER -> 0..100]

NumbersInit ==
  /\ rows = {} /\ told = [k \in Keys |-> [p \in Periods |-> [s \in SpanSet |-> Null]]] /\ marks = <<>>
  /\ policy = <<>>
  /\ today \in Days

(* A reviewer confirms a figure: a new version of its period, start and end. *)
ConfirmMetric(key, period, span, value, lane) ==
  /\ Cardinality(rows) + Len(marks) < MaxEntries
  /\ LET existing == {r \in rows : r.key = key /\ r.period = period /\ r.span = span}
         version  == Cardinality(existing) + 1
     IN rows' = rows \cup {[key |-> key, period |-> period, span |-> span, version |-> version,
                            value |-> value, lane |-> lane]}
  /\ told' = [told EXCEPT ![key][period][span] = value]
  /\ UNCHANGED <<marks, policy, today>>

(* POST /api/nav/marks; a mark may lack a source and a value. *)
PostMark(pos, asOf, body) ==
  /\ Cardinality(rows) + Len(marks) < MaxEntries
  /\ marks' = Append(marks, [pos |-> pos, asOf |-> asOf, value |-> body.value, sourced |-> body.sourced])
  /\ UNCHANGED <<rows, told, policy, today>>

(* validateFlagPolicyThresholds: the whole policy is refused for one value out of bounds. *)
ValidPolicy(p) ==
  /\ DOMAIN p \subseteq DOMAIN FlagCatalog
  /\ \A k \in DOMAIN p : p[k] \in FlagBounds[k]

SavePolicy(p) ==
  /\ ValidPolicy(p)
  /\ policy' = p
  /\ UNCHANGED <<rows, told, marks, today>>

DayPasses ==
  /\ \E d \in Days : d > today /\ today' = d
  /\ UNCHANGED <<rows, told, marks, policy>>

NumbersNext ==
  \/ \E k \in Keys, p \in Periods : \E s \in Spans(k), v \in ValuesOf[k], l \in Lanes(k) :
       ConfirmMetric(k, p, s, v, l)
  \/ \E p \in Positions, d \in MarkDates, b \in MarkBodies : PostMark(p, d, b)
  \/ \E p \in Policies : SavePolicy(p)
  \/ DayPasses

NumbersSpec == NumbersInit /\ [][NumbersNext]_numbersVars

-----------------------------------------------------------------------------
(* The pages, of the current rows that a request's order left: of all rows *)
(* (current), or of the objective ones (sheet).                            *)

Books  == latestByMetricPeriod(rows)
Sheets == latestByMetricPeriod(objectiveBook(rows))

FigureAt(current, key, i) == ValueAt(seriesFor(current, key), i)

(* The figure of a period in a series. *)
PinnedAt(series, period) ==
  LET at == {i \in DOMAIN series : series[i].period = period}
  IN IF at = {} THEN Null ELSE series[CHOOSE i \in at : TRUE].value

Runway(current) == runwayMonthsFromBurns(FigureAt(current, "cash", 1), Window(seriesFor(current, "burn"), 1))

Headline(current) ==
  [cash |-> FigureAt(current, "cash", 1), burn |-> FigureAt(current, "burn", 1),
   net_revenue |-> FigureAt(current, "net_revenue", 1),
   runway |-> factOrDash(Runway(current), seriesFor(current, "cash") # <<>> /\ seriesFor(current, "burn") # <<>>)]

CompanyPage(current) == Headline(current)
CommandPage(current) == Headline(current)

(* GET /api/compare, for one period or the newest one (Null). *)
Compare(sheet, period) ==
  LET Pinned(key) == IF period = Null THEN FigureAt(sheet, key, 1) ELSE PinnedAt(seriesFor(sheet, key), period)
      cash == seriesFor(sheet, "cash")
      burn == seriesFor(sheet, "burn")
      found == \E i \in DOMAIN cash : period = Null \/ cash[i].period = period
  IN [cash |-> Pinned("cash"), burn |-> Pinned("burn"), net_revenue |-> Pinned("net_revenue"),
      runway |-> factOrDash(runwayMonthsFromBurns(Pinned("cash"), Window(burn, 1)),
                            found /\ burn # <<>>)]

(* buildOnePagerMetrics: a runway that is itself in the book comes first. *)
OnePager(sheet) ==
  LET booked == FigureAt(sheet, "runway_months", 1)
  IN [cash |-> FigureAt(sheet, "cash", 1), burn |-> FigureAt(sheet, "burn", 1),
      net_revenue |-> FigureAt(sheet, "net_revenue", 1),
      runway |-> IF isPresent(booked) THEN [num |-> booked, den |-> 1] ELSE Runway(sheet)]

(* The monthly pack: the rows of the month without their versions, so that *)
(* the first row the SELECT returns of a figure stays.                     *)
PackFigure(key, period) ==
  LET of == {r \in objectiveBook(rows) : r.key = key /\ r.period = period}
  IN IF of = {} THEN {Null} ELSE {r.value : r \in of}

(* runFlagJob *)
resolveFlagThresholds ==
  [k \in DOMAIN FlagCatalog |-> IF k \in DOMAIN policy THEN policy[k] ELSE FlagCatalog[k]]

Latest(dates) == IF dates = {} THEN Null ELSE Max(dates)

Flags(current) ==
  LET Now(key) == FigureAt(current, key, 1)
      Prior(key) == FigureAt(current, key, 2)
  IN detectAll([cash |-> Now("cash"), priorCash |-> Prior("cash"), runway |-> Runway(current),
                burn |-> Now("burn"), priorBurn |-> Prior("burn"),
                gm |-> Now("gross_margin_pct"), priorGm |-> Prior("gross_margin_pct"),
                revenue |-> Now("net_revenue"), priorRevenue |-> Prior("net_revenue"),
                planRevenue |-> Now("plan_revenue"),
                headcount |-> Now("headcount"), priorHeadcount |-> Prior("headcount"),
                lastMis |-> Latest({r.period : r \in objectiveBook(rows)}),
                lastMark |-> Latest({marks[i].asOf : i \in DOMAIN marks}),
                created |-> Created, today |-> today],
               resolveFlagThresholds)

(* The mark of a position as of a date: the newest date, and of one date   *)
(* the one posted last (the comparator puts the later row of a tie first). *)
MarksOf(pos, asOf) == {i \in DOMAIN marks : marks[i].pos = pos /\ marks[i].asOf <= asOf}

LastOf(ms) ==
  CHOOSE i \in ms :
    \A j \in ms : \/ marks[i].asOf > marks[j].asOf
                  \/ marks[i].asOf = marks[j].asOf /\ i >= j

MarkAt(pos, asOf) ==
  LET ms == MarksOf(pos, asOf) IN IF ms = {} THEN Null ELSE marks[LastOf(ms)]

NavLines(asOf) ==
  [p \in Positions |->
     LET m == MarkAt(p, asOf)
     IN [cost |-> Cost[p], mark |-> IF m = Null THEN Null ELSE m.value,
         sourced |-> m # Null /\ m.sourced]]

(* GET /api/nav: the book of a date and its bridge from an earlier one. *)
NavBook(asOf, priorAsOf) ==
  [rollup |-> rollupNav(NavLines(asOf)), bridge |-> navBridge(NavLines(asOf), NavLines(priorAsOf))]

(* The pulse of GET /api/command takes the newest mark, whatever its date. *)
CommandPulse == rollupNav(NavLines(Max(MarkDates)))

(* Its charts: the cash, the runway now and as of the cash before, and the *)
(* figures of a period, objective rows only.  With one company a sum is    *)
(* its figure.                                                             *)
RunwayBar(current) ==
  [months |-> Runway(current),
   before |-> runwayMonthsFromBurns(FigureAt(current, "cash", 2), Window(seriesFor(current, "burn"), 2))]

CashBar(current) == FigureAt(current, "cash", 1)

PortfolioPoint(sheet, key, period) == PinnedAt(seriesFor(sheet, key), period)

fundOperating(current, key) == sumPresent(<<FigureAt(current, key, 1)>>).total

-----------------------------------------------------------------------------
NumbersTypeOK ==
  /\ rows \subseteq Row
  /\ told \in [Keys -> [Periods -> [SpanSet -> Int \cup {Null}]]]
  /\ marks \in Seq(Mark)
  /\ policy \in Policies \cup {<<>>} /\ ValidPolicy(policy)
  /\ today \in Days

(* What was confirmed last of a period end, of each span that was reported *)
(* for it; and of the newest end of a key.                                 *)
Said(key, period) ==
  LET spans == {r.span : r \in {x \in rows : x.key = key /\ x.period = period}}
  IN IF spans = {} THEN {Null} ELSE {told[key][period][s] : s \in spans}

LastWords(key) ==
  LET ends == {r.period : r \in {x \in rows : x.key = key}}
  IN IF ends = {} THEN {Null} ELSE Said(key, Max(ends))

(* No end was reported for two spans. *)
OneSpan == \A r, o \in rows : r.key = o.key /\ r.period = o.period => r.span = o.span

(* Every page and the fund's sums show of cash, burn and revenue what was  *)
(* confirmed last for the newest end, whichever order periods and          *)
(* restatements came in, and compare and the portfolio chart of each older *)
(* end too; of an end that was reported for a month and for a year, one of *)
(* the two.  While the figures are objective, company, command and its     *)
(* chart and compare show one runway if their rows came in one order, or   *)
(* if each end has one span; the one-pager shows it too, or the runway     *)
(* that was itself confirmed last.  The chart's runway before is what the  *)
(* book said without its newest end, if that brought both cash and burn;   *)
(* the pulse is the NAV page's.                                            *)
PagesTellOneStory ==
  LET objective == \A r \in rows : r.lane = "objective"
      newest == Latest({r.period : r \in rows})
      before == latestByMetricPeriod({r \in rows : r.period # newest})
      Confirmed(key) == LastWords(key) \ {Null}
      Shown == {"cash", "burn", "net_revenue"}
      books == Books
  IN /\ \A current \in books :
          LET company == CompanyPage(current)  command == CommandPage(current)
          IN /\ \A k \in Shown : {company[k], command[k], fundOperating(current, k)} \subseteq LastWords(k)
             /\ CashBar(current) \in LastWords("cash")
             /\ (\A k \in {"cash", "burn"} : \E r \in rows : r.key = k /\ r.period = newest) =>
                  \E then \in before : RunwayBar(current).before = Runway(then)
     /\ objective =>
          \A sheet \in Sheets :
            LET onePager == OnePager(sheet)  compared == Compare(sheet, Null)
            IN /\ \A k \in Shown : {onePager[k], compared[k]} \subseteq LastWords(k)
               /\ \A p \in Periods :
                    LET pinned == Compare(sheet, p)
                    IN \A k \in Shown : {PortfolioPoint(sheet, k, p), pinned[k]} \subseteq Said(k, p)
               /\ \A current \in books :
                    current = sheet \/ OneSpan =>
                      LET runway == CompanyPage(current).runway
                      IN /\ RunwayBar(current).months = runway /\ compared.runway = runway
                         /\ \/ onePager.runway = runway /\ Null \in LastWords("runway_months")
                            \/ \E m \in Confirmed("runway_months") : onePager.runway = [num |-> m, den |-> 1]
     /\ (\A i \in DOMAIN marks : marks[i].asOf <= today) =>
          CommandPulse = NavBook(today, today).rollup

(* Figures that stand in the book and were not restated. *)
Standing(key) ==
  {[period |-> r.period, value |-> told[key][r.period][r.span]] : r \in {x \in rows : x.key = key}}

(* What the company has reported of a key after and before: no restated    *)
(* and no missing figure is taken for a movement.                          *)
Went(key, Worse(_, _)) ==
  \E a, b \in Standing(key) :
    /\ a.period > b.period /\ a.value # Null /\ b.value # Null
    /\ \A c \in Standing(key) : c.period <= a.period
    /\ Worse(a.value, b.value)

(* A flag divides by the earlier figure: a rise is a figure further from   *)
(* zero on the side of the earlier one, a fall one that is not.            *)
Further(newer, earlier) ==
  \/ earlier > 0 /\ newer > earlier
  \/ earlier < 0 /\ newer < earlier
NoFurther(newer, earlier) ==
  \/ earlier > 0 /\ newer <= earlier
  \/ earlier < 0 /\ newer >= earlier

(* A flag is raised on what the company reported and never on a figure     *)
(* that is missing or restated: a burn or revenue flag by two standing     *)
(* figures of two periods, the newer the worse as a share of the older,    *)
(* whichever side of zero that is on (README, section 6); a short runway   *)
(* by a newest cash that the largest standing burn eats within the         *)
(* threshold; cash_unreported by a standing figure of the newest end that  *)
(* is missing and a reported one of an end before it.                      *)
FlagsHaveEvidence ==
  LET t == resolveFlagThresholds
  IN \A current \in Books :
       LET raised == Flags(current)
       IN /\ "burn_up" \in raised => Went("burn", Further)
          /\ "revenue_down" \in raised => Went("net_revenue", NoFurther)
          /\ "spend_without_revenue" \in raised =>
               Went("burn", Further) /\ Went("net_revenue", NoFurther)
          /\ "headcount_drop" \in raised => Went("headcount", NoFurther)
          /\ "runway_short" \in raised =>
               \E c \in LastWords("cash") \ {Null}, b \in Standing("burn") :
                 b.value # Null /\ c < t.runway_short * b.value
          /\ "cash_unreported" \in raised =>
               /\ Null \in LastWords("cash")
               /\ \E c, a \in Standing("cash") : c.value # Null /\ c.period < a.period

(* The bridge tells the difference of the two books' NAV or nothing: when  *)
(* every mark has a source, it has a total exactly when both books are     *)
(* complete, and then the total is the one NAV less the other.             *)
BridgeIsTheDifference ==
  \A asOf, priorAsOf \in MarkDates :
    priorAsOf < asOf /\ (\A i \in DOMAIN marks : marks[i].sourced) =>
      LET now == rollupNav(NavLines(asOf)).nav
          before == rollupNav(NavLines(priorAsOf)).nav
      IN NavBook(asOf, priorAsOf).bridge.deltaNav
           = IF now.complete /\ before.complete THEN now.total - before.total ELSE Null

(* A restated figure is current on every read path, the monthly pack       *)
(* included (docs/improvements/pass-13-restatement-reads.md:8).            *)
PackIsCurrent ==
  \A k \in {"cash", "burn"}, p \in Periods :
    (\A r \in rows : r.lane = "objective") => PackFigure(k, p) \subseteq Said(k, p)
=============================================================================
