------------------------------- MODULE Figures -------------------------------
(***************************************************************************)
(* What the core package computes from the rows of the book: the current   *)
(* figure of each period, the runway, the risk flags and the NAV totals.   *)
(* Figures are integers or Null; a ratio is kept as a fraction, and a      *)
(* threshold on a ratio is a percentage, so that nothing is rounded.       *)
(***************************************************************************)
EXTENDS Integers, Sequences, FiniteSetsExt

CONSTANT Null   \* a figure that is not reported

ASSUME FiguresAssumption == Null \notin Int

isPresent(n) == n # Null

-----------------------------------------------------------------------------
(* Series.  A SELECT returns rows in any order, and of one key and period  *)
(* the first row of the highest version stays: the current rows are one of *)
(* the sets that has them.  A series is a key's current rows, newest       *)
(* period first.                                                           *)

SameFigure(r, o) == r.key = o.key /\ r.period = o.period

OnePerPeriod(best) ==
  {kept \in SUBSET best : \A r \in best : \E k \in kept : \A l \in kept : SameFigure(l, r) <=> l = k}

(* Mutant: the first row of a period wins, whatever was restated since. *)
firstOfPeriod(rows) ==
  OnePerPeriod({r \in rows : \A o \in rows : SameFigure(o, r) => o.version >= r.version})

latestByMetricPeriod(rows) ==
  OnePerPeriod({r \in rows : \A o \in rows : SameFigure(o, r) => o.version <= r.version})

NewestFirst(rows) ==
  [i \in 1..Cardinality(rows) |->
     CHOOSE r \in rows : Cardinality({o \in rows : o.period > r.period}) = i - 1]

(* The series of a key in the current rows. *)
seriesFor(current, key) == NewestFirst({r \in current : r.key = key})

ValueAt(series, i) == IF i \in DOMAIN series THEN series[i].value ELSE Null

(* The last three reported months, from position i on. *)
Window(series, i) == [j \in 1..3 |-> ValueAt(series, i + j - 1)]

objectiveBook(rows) == {r \in rows : r.lane = "objective"}

-----------------------------------------------------------------------------
(* Runway: cash over the average of the burns that are reported. *)

runwayMonthsFromBurns(cash, burns) ==
  LET present == {i \in DOMAIN burns : isPresent(burns[i])}
      total   == MapThenSumSet(LAMBDA i : burns[i], present)
  IN IF isPresent(cash) /\ present # {} /\ total > 0
     THEN [num |-> cash * Cardinality(present), den |-> total]
     ELSE Null

(* A figure is shown as a fact only with its source. *)
factOrDash(value, sourced) == IF sourced THEN value ELSE Null

-----------------------------------------------------------------------------
(* Risk flags: (current - prior) / prior against a percentage, for a prior of either sign. *)

Rises(current, prior, pct) ==
  LET d == 100 * (current - prior)
  IN IF prior > 0 THEN d > pct * prior ELSE d < pct * prior
Falls(current, prior, pct) ==
  LET d == 100 * (prior - current)
  IN IF prior > 0 THEN d >= pct * prior ELSE d <= pct * prior
Comparable(current, prior) == isPresent(current) /\ isPresent(prior) /\ prior # 0

(* Mutant: an unreported cash is taken for a cash of zero. *)
cashIsZero(runway, months) == runway = Null \/ runway.num < months * runway.den

detectRunwayShort(runway, months) == isPresent(runway) /\ runway.num < months * runway.den

detectBurnUp(current, prior, pct) == Comparable(current, prior) /\ Rises(current, prior, pct)

detectGmCompression(current, prior, points) ==
  isPresent(current) /\ isPresent(prior) /\ prior - current >= points

detectPlanVariance(actual, plan, pct) == Comparable(actual, plan) /\ Falls(actual, plan, pct)

detectRevenueDown(current, prior, pct) == Comparable(current, prior) /\ Falls(current, prior, pct)

detectHeadcountDrop(current, prior, pct) == Comparable(current, prior) /\ Falls(current, prior, pct)

detectSpendWithoutRevenue(burn, priorBurn, revenue, priorRevenue, pct) ==
  /\ Comparable(burn, priorBurn) /\ Rises(burn, priorBurn, pct)
  /\ Comparable(revenue, priorRevenue) /\ ~Rises(revenue, priorRevenue, 0)

detectCashUnreported(priorCash, cash) == isPresent(priorCash) /\ ~isPresent(cash)

(* A young company is not late with its first figures. *)
detectMisLate(lastPeriod, today, graceDays, created) ==
  today - (IF lastPeriod = Null THEN created ELSE lastPeriod) > graceDays

detectMarkStale(lastMark, today, staleDays) == lastMark = Null \/ today - lastMark > staleDays

(* The flags that a company's series raise under the thresholds t. *)
detectAll(i, t) ==
  LET hit == [runway_short |-> detectRunwayShort(i.runway, t.runway_short),
              burn_up |-> detectBurnUp(i.burn, i.priorBurn, t.burn_up),
              gm_compression |-> detectGmCompression(i.gm, i.priorGm, t.gm_compression),
              plan_variance |-> detectPlanVariance(i.revenue, i.planRevenue, t.plan_variance),
              revenue_down |-> detectRevenueDown(i.revenue, i.priorRevenue, t.revenue_down),
              spend_without_revenue |->
                detectSpendWithoutRevenue(i.burn, i.priorBurn, i.revenue, i.priorRevenue,
                                          t.spend_without_revenue),
              headcount_drop |-> detectHeadcountDrop(i.headcount, i.priorHeadcount, t.headcount_drop),
              mis_late |-> detectMisLate(i.lastMis, i.today, t.mis_late, i.created),
              mark_stale |-> detectMarkStale(i.lastMark, i.today, t.mark_stale),
              cash_unreported |-> detectCashUnreported(i.priorCash, i.cash)]
  IN {k \in DOMAIN hit : hit[k]}

-----------------------------------------------------------------------------
(* NAV: lines is a function from positions to [cost, mark, sourced]. *)

SumOf(values) == MapThenSumSet(LAMBDA x : values[x], {x \in DOMAIN values : isPresent(values[x])})

sumPresent(values) ==
  [total    |-> IF \E x \in DOMAIN values : isPresent(values[x]) THEN SumOf(values) ELSE Null,
   complete |-> \A x \in DOMAIN values : isPresent(values[x])]

isProvenanced(line) == isPresent(line.mark) /\ line.sourced

rollupNav(lines) ==
  LET cost == sumPresent([p \in DOMAIN lines |-> lines[p].cost])
      nav  == sumPresent([p \in DOMAIN lines |->
                            IF isProvenanced(lines[p]) THEN lines[p].mark ELSE Null])
  IN [cost |-> cost, nav |-> nav,
      moic |-> IF /\ DOMAIN lines # {} /\ \A p \in DOMAIN lines : isProvenanced(lines[p])
                  /\ cost.complete /\ cost.total # 0
               THEN [num |-> nav.total, den |-> cost.total] ELSE Null]

(* Mutant: a position without a prior mark moves from zero. *)
bridgeFromZero(current, prior) ==
  LET was(p) == IF isPresent(prior[p].mark) THEN prior[p].mark ELSE 0
      delta  == [p \in DOMAIN current |->
                   IF isPresent(current[p].mark) THEN current[p].mark - was(p) ELSE Null]
  IN [deltaNav |-> IF DOMAIN current # {} /\ \A p \in DOMAIN current : isPresent(current[p].mark)
                   THEN SumOf(delta) ELSE Null,
      unexplained |-> {}]

(* The movement between two books: Null unless every position has both marks. *)
navBridge(current, prior) ==
  LET moved(p)    == isPresent(current[p].mark) /\ isPresent(prior[p].mark)
      delta       == [p \in DOMAIN current |->
                        IF moved(p) THEN current[p].mark - prior[p].mark ELSE Null]
      unexplained == {p \in DOMAIN current : isPresent(current[p].mark) # isPresent(prior[p].mark)}
  IN [deltaNav |-> IF /\ unexplained = {} /\ DOMAIN current # {}
                      /\ \A p \in DOMAIN current : isPresent(current[p].mark)
                   THEN SumOf(delta) ELSE Null,
      unexplained |-> unexplained]
=============================================================================
