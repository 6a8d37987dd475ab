-------------------------------- MODULE Fiscal --------------------------------
(***************************************************************************)
(* Fiscal periods.  Every period of the book begins with the first day of  *)
(* a month and ends with the last day of one, so a date is the number of   *)
(* its month, counted from year 0, and a period is two months and a grain. *)
(***************************************************************************)
EXTENDS Integers, FiniteSets

CONSTANT NoPeriod   \* a text that names no period

Grains  == {"month", "quarter", "fy"}
DefaultStart == 4

MonthNo(year, month) == 12 * year + month - 1   \* as Date.UTC: months past 12 roll over
YearOf(t)  == t \div 12
MonthOf(t) == (t % 12) + 1
Months(p)  == p.start..p.end

fyStartMonth(override) == IF override \in 1..12 THEN override ELSE DefaultStart

monthBounds(year, month) ==
  [start |-> MonthNo(year, month), end |-> MonthNo(year, month), grain |-> "month"]

quarterBounds(year, quarter, fyStart) ==
  LET startMonth == fyStart + (quarter - 1) * 3
      first == MonthNo(year + (startMonth - 1) \div 12, ((startMonth - 1) % 12) + 1)
  IN [start |-> first, end |-> first + 2, grain |-> "quarter"]

fyBounds(endYear, fyStart) ==
  [start |-> MonthNo(endYear - 1, fyStart), end |-> MonthNo(endYear, fyStart) - 1, grain |-> "fy"]

(* FY26 begins in 2025, whichever month the year starts with. *)
fyEndYear(t, fyStart) == IF MonthOf(t) >= fyStart THEN YearOf(t) + 1 ELSE YearOf(t)
fyLabel(t, fyStart)   == fyEndYear(t, fyStart) % 100

periodContaining(t, grain, fyStart) ==
  CASE grain = "month"   -> monthBounds(YearOf(t), MonthOf(t))
    [] grain = "quarter" -> quarterBounds(fyEndYear(t, fyStart) - 1,
                                          (((MonthOf(t) - fyStart + 12) % 12) \div 3) + 1, fyStart)
    [] grain = "fy"      -> fyBounds(fyEndYear(t, fyStart), fyStart)

lastCalendarQuarterEnd(t) ==
  CASE MonthOf(t) <= 3 -> MonthNo(YearOf(t) - 1, 12)
    [] MonthOf(t) \in 4..6 -> MonthNo(YearOf(t), 3)
    [] MonthOf(t) \in 7..9 -> MonthNo(YearOf(t), 6)
    [] OTHER -> MonthNo(YearOf(t), 9)

(* What a text says of its period: the matches, in order, of the patterns  *)
(* FY26 M5, FY26, 2025-08 and Aug-25.  The patterns are tried in this      *)
(* order, so a text that names a fiscal year is of that year even when it  *)
(* also says Q3 or names a month.                                          *)
Forms == <<"fyMonth", "fy", "ym", "mon">>
Hint  == [form : {"fyMonth", "fy", "ym", "mon"}, year : Nat, month : 1..12]

FullYear(year) == IF year < 100 THEN year + 2000 ELSE year

(* Mutant: the months of a fiscal year are counted from April, whatever its start. *)
PeriodFromApril(hint, fyStart) ==
  CASE hint.form = "fyMonth" -> LET m == 4 + hint.month - 1
                                IN monthBounds(FullYear(hint.year) - 1 + (m - 1) \div 12, ((m - 1) % 12) + 1)
    [] hint.form = "fy" -> fyBounds(FullYear(hint.year), fyStart)
    [] OTHER -> monthBounds(FullYear(hint.year), hint.month)

PeriodOf(hint, fyStart) ==
  CASE hint.form = "fyMonth" -> LET m == fyStart + hint.month - 1
                                IN monthBounds(FullYear(hint.year) - 1 + (m - 1) \div 12, ((m - 1) % 12) + 1)
    [] hint.form = "fy" -> fyBounds(FullYear(hint.year), fyStart)
    [] OTHER -> monthBounds(FullYear(hint.year), hint.month)

Rank(form) == CHOOSE i \in 1..4 : Forms[i] = form

parsePeriodHint(hints, fyStart) ==
  IF hints = <<>> THEN NoPeriod
  ELSE LET first == CHOOSE i \in DOMAIN hints : \A j \in DOMAIN hints :
                      \/ Rank(hints[i].form) < Rank(hints[j].form)
                      \/ hints[i].form = hints[j].form /\ i <= j
       IN PeriodOf(hints[first], fyStart)

-----------------------------------------------------------------------------
(* The calendar of a company whose fiscal year begins with fyStart, seen   *)
(* from the month t: the period of each grain holds t, two periods of a    *)
(* grain are the same or apart, quarters are three months within their     *)
(* year, and what the book calls FY26 or FY26 M5 is read back as the very  *)
(* period it was printed for.  It is the promise of fiscal.ts.             *)
PeriodsAgree(t, fyStart) ==
  LET Q == periodContaining(t, "quarter", fyStart)
      Y == periodContaining(t, "fy", fyStart)
      Said(form, month) == parsePeriodHint(<<[form |-> form, year |-> fyLabel(t, fyStart), month |-> month]>>, fyStart)
  IN /\ t \in Months(Q) /\ Months(Q) \subseteq Months(Y)
     /\ Cardinality(Months(Q)) = 3 /\ Cardinality(Months(Y)) = 12
     /\ \A g \in Grains, u \in (t - 12)..(t + 12) :
          \/ periodContaining(u, g, fyStart) = periodContaining(t, g, fyStart)
          \/ Months(periodContaining(u, g, fyStart)) \cap Months(periodContaining(t, g, fyStart)) = {}
     /\ Said("fy", 1) = Y
     /\ Said("fyMonth", t - Y.start + 1) = periodContaining(t, "month", fyStart)
     /\ LET q == lastCalendarQuarterEnd(t)
        IN q < t /\ t - q <= 3 /\ MonthOf(q) % 3 = 0
=============================================================================
