--------------------------- MODULE FiscalCalendar ---------------------------
(***************************************************************************)
(* The fiscal year of one company while it is edited: the month it starts  *)
(* with, which a profile may leave unset, and a month of the book under    *)
(* the start that holds when it is looked up.                              *)
(***************************************************************************)
EXTENDS Fiscal

CONSTANTS
  NoMonth,   \* no month looked up yet
  BookMonths \* the months figures are about

(* fiscal.ts reads the two digits of FY26 as a year of this century. *)
ASSUME FiscalCalendarAssumption ==
  /\ BookMonths \subseteq MonthNo(2000, 1)..MonthNo(2098, 12)
  /\ NoMonth \notin BookMonths

Unfilled == 0   \* the column is NULL; a field the request leaves out

VARIABLES
  fyOverride, \* companies.fy_start_month
  looked      \* the month looked up last

calendarVars == <<fyOverride, looked>>

CalendarInit ==
  /\ fyOverride \in {Unfilled} \cup 1..12
  /\ looked = NoMonth

(* PATCH /api/companies/:id: a start may be changed, never taken back. *)
PatchFyStart(body) ==
  /\ fyOverride' = IF body = Unfilled THEN fyOverride ELSE body
  /\ UNCHANGED looked

LookUp(t) ==
  /\ looked' = t
  /\ UNCHANGED fyOverride

CalendarNext ==
  \/ \E body \in {Unfilled} \cup 1..12 : PatchFyStart(body)
  \/ \E t \in BookMonths : LookUp(t)

CalendarSpec == CalendarInit /\ [][CalendarNext]_calendarVars

-----------------------------------------------------------------------------
CalendarTypeOK ==
  /\ fyOverride \in {Unfilled} \cup 1..12
  /\ looked \in BookMonths \cup {NoMonth}

(* Whatever month a company's year starts with, April if its profile does  *)
(* not say, and however often that is edited: the periods fiscal.ts        *)
(* derives from a month tile the calendar and are read back from the names *)
(* the book prints for them.                                               *)
CalendarAgrees == looked # NoMonth => PeriodsAgree(looked, fyStartMonth(fyOverride))
=============================================================================
