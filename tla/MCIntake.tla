------------------------------ MODULE MCIntake ------------------------------
(* What comes into the vault, in four scenes none of which reads another: the *)
(* syncs of a connector; what a sync pulls from a vendor while people edit    *)
(* two companies; the parse of a document of MaxRows rows for a company with  *)
(* one metric of money and one of percent; two years of months looked up while *)
(* the start of the fiscal year is edited.                                    *)
EXTENDS ConnectorSync, SheetReader, VendorPull, FiscalCalendar

CONSTANTS f1, f2, good, bad, s1, s2, s3, t1, c1, c2, x1, x2, q1, q2, e1, old, new

SyncSymmetry == Permutations({s1, s2})
Owners == q1 :> c1 @@ q2 :> c1

TheCatalog == [cash |-> [family |-> "money", unit |-> "crore", aliases |-> {"cash", "closing cash"}],
               margin |-> [family |-> "percent", unit |-> "percent", aliases |-> {"gross margin"}]]
TheBooks == {[cash |-> [aliases |-> {"cash", "bank"}, unit |-> "lakh"]],
             [margin |-> [aliases |-> {}, unit |-> "crore"]]}
Lengths == [cash |-> 4] @@ ("closing cash" :> 12) @@ ("gross margin" :> 12) @@ ("bank" :> 4)
NoRatio == [cash |-> 0, margin |-> 0]
L(text, contains, phrases, ratio, units) ==
  [text |-> text, contains |-> contains, phrases |-> phrases, ratio |-> ratio, units |-> units, hints |-> <<>>]
TheLabels == {L("cash", {"cash"}, {}, NoRatio, {}),
              L("closing cash in lakh", {"cash", "closing cash"}, {"closing cash"}, NoRatio, {"lakh"}),
              L("kash", {}, {}, [cash |-> 92, margin |-> 0], {}),
              L("bank", {"bank"}, {}, NoRatio, {}),
              L("gross margins", {"gross margin"}, {"gross margin"}, NoRatio, {})}
May == [form |-> "fyMonth", year |-> 26, month |-> 2]
Text(units, hints) == [units |-> units, hints |-> hints]
NoHeads  == <<Text({}, <<>>), Text({"crore"}, <<>>)>>
TheHeads == {<<Text({"crore"}, <<May>>), Text({}, <<>>)>>, <<Text({}, <<May>>), Text({}, <<>>)>>, NoHeads}
Digits(n) == IF n = 14 THEN {1, 4, 14} ELSE {n}
Reply(key, value, unit) ==
  [label |-> CHOOSE l \in TheLabels : l.text = "kash", key |-> key, value |-> value, unit |-> unit,
   hints |-> <<May>>, quoted |-> TRUE, page |-> key = "margin"]
TheReplies == {Reply(k, 4, u) : k \in {"cash", "margin"}, u \in {"crore", "unknown"}}
              \cup {Reply("cash", 5, "crore")}

(* What the vendor has at first, a folder of two pages and an empty one, ...; *)
(* the tokens and mappings of the run.                                        *)
AtFirst == [onedrive |-> {{1, 2, 3}, {}}, affinity |-> {20, Nothing}, granola |-> {"large", Gone}]
Authorised == [access |-> "fresh", refresh |-> TRUE, mode |-> "auth_code"]
Tokens == [onedrive |-> {Authorised, [access |-> "stale", refresh |-> FALSE, mode |-> "auth_code"]},
           affinity |-> {Authorised}, granola |-> {Authorised}]
Pulling ==
  /\ \A x \in Places : remote[x] \in AtFirst[vendor]
  /\ token \in Tokens[vendor]
  /\ rows[c1].place = x1
Quiet == vendor = "granola" /\ rows[c2].place = x1 /\ \A x \in Places : remote[x] = Gone

TwoYears == MonthNo(2024, 1)..MonthNo(2025, 12)

VARIABLE scene

MCInit ==
  /\ scene \in {"sync", "sheet", "pull", "year"}
  /\ Init /\ SheetInit /\ PullInit /\ CalendarInit
  /\ scene = "sheet" \/ (kind = "xlsx" /\ head = NoHeads)
  /\ scene = "pull" \/ Quiet
  /\ Pulling
  /\ scene = "year" \/ fyOverride = Unfilled

MCNext ==
  \/ scene = "sync" /\ Next /\ UNCHANGED <<sheetVars, pullVars, calendarVars, scene>>
  \/ scene = "sheet" /\ SheetNext /\ UNCHANGED <<vars, pullVars, calendarVars, scene>>
  \/ scene = "pull" /\ PullNext /\ UNCHANGED <<vars, sheetVars, calendarVars, scene>>
  \/ scene = "year" /\ CalendarNext /\ UNCHANGED <<vars, sheetVars, pullVars, scene>>

MCSpec == MCInit /\ [][MCNext]_<<vars, sheetVars, pullVars, calendarVars, scene>>
==============================================================================
