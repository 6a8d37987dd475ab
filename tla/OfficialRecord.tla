--------------------------- MODULE OfficialRecord ---------------------------
(***************************************************************************)
(* What locking a period promises (docs/DECISION.md, D7): the pack of a    *)
(* period is published before it becomes official, a published pack is     *)
(* never changed or withdrawn, opening a period leaves its last official   *)
(* pack in place, and each lock makes another pack official.               *)
(***************************************************************************)
CONSTANTS Dates, Absent

VARIABLES
  published, \* packs in circulation
  official,  \* of each date: its last official pack, or Absent
  open       \* of each date: whether its book may change

Init ==
  /\ published = {}
  /\ official = [t \in Dates |-> Absent]
  /\ open = [t \in Dates |-> TRUE]

Publish ==
  /\ published \subseteq published'
  /\ UNCHANGED <<official, open>>

Lock(t) ==
  /\ official'[t] \in published \ {official[u] : u \in Dates}
  /\ official' = [official EXCEPT ![t] = official'[t]]
  /\ open' = [open EXCEPT ![t] = FALSE]
  /\ UNCHANGED published

Unlock(t) ==
  /\ official[t] # Absent
  /\ open' = [open EXCEPT ![t] = TRUE]
  /\ UNCHANGED <<published, official>>

Next == Publish \/ \E t \in Dates : Lock(t) \/ Unlock(t)

Spec == Init /\ [][Next]_<<published, official, open>>
=============================================================================
