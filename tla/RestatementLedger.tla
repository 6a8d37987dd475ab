------------------------- MODULE RestatementLedger -------------------------
(***************************************************************************)
(* What the metric book promises its readers, whatever runs underneath: a  *)
(* figure once reported stays reported, a later one is a restatement added *)
(* after it, and no figure is in the book before the review item it comes  *)
(* from has been decided.                                                  *)
(***************************************************************************)
CONSTANTS Keys, Items

VARIABLES
  history,  \* the reported figures of each key, oldest first
  decided   \* the review items somebody, or the auto-confirm policy, decided

Init ==
  /\ history = [k \in Keys |-> <<>>]
  /\ decided = {}

Keeps(old, new) == DOMAIN old \subseteq DOMAIN new /\ \A n \in DOMAIN old : new[n] = old[n]

(* Some items are decided and some keys get newer figures, all of decided  *)
(* items; nothing reported or decided before changes.                      *)
Report ==
  /\ DOMAIN history' = Keys
  /\ \A k \in Keys :
       /\ Keeps(history[k], history'[k])
       /\ \A n \in DOMAIN history'[k] : history'[k][n].item \in decided'
  /\ decided \subseteq decided'
  /\ decided' \subseteq Items

Spec == Init /\ [][Report]_<<history, decided>>
=============================================================================
