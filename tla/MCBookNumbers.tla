---------------------------- MODULE MCBookNumbers ----------------------------
(* Small instances of BookNumbers: one company and a fund of two positions.  *)
EXTENDS BookNumbers, TLC

CONSTANTS p1, p2

Ends == {31, 59, 90}
Figured == [cash |-> {Null, 12}, burn |-> {Null, 1, 4}, net_revenue |-> {-4, 8},
            headcount |-> {4, 5}, runway_months |-> {9}]
LanesOf(k) == IF k = "headcount" THEN {"subjective"} ELSE {"objective"}
SpansOf(k) == IF k = "cash" THEN {"month", "year"} ELSE {"month"}
Costs == p1 :> 2 @@ p2 :> 2
Marked == {[value |-> Null, sourced |-> FALSE], [value |-> 2, sourced |-> TRUE],
           [value |-> 5, sourced |-> TRUE]}
Overrides == {[runway_short |-> 3], [mis_late |-> 366]}

Symmetry == Permutations({p1, p2})
=============================================================================
