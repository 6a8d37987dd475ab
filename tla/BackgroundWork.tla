--------------------------- MODULE BackgroundWork ---------------------------
(***************************************************************************)
(* What a queue of background work promises whoever hands work to it: what *)
(* was accepted is owed until it has ended, nothing ends that was not owed *)
(* just before, what has ended stays so, and none is given up without a    *)
(* note of it.  Work given up may be owed again.                           *)
(***************************************************************************)
CONSTANT Work

VARIABLES
  state, \* of each piece of work
  noted  \* the work a giving-up of which is on record somewhere

States == {"unknown", "owed", "ended", "lost"}

Init ==
  /\ state = [w \in Work |-> "unknown"]
  /\ noted = {}

Becomes(w, from, to) == state[w] = from /\ state'[w] = to

Accept(w) == Becomes(w, "unknown", "owed")
Finish(w) == Becomes(w, "owed", "ended")
GiveUp(w) == Becomes(w, "owed", "lost") /\ w \in noted'
TryAgain(w) == Becomes(w, "lost", "owed")
Stay(w) == state'[w] = state[w]

(* Some work moves on; no note is taken back. *)
Next ==
  /\ state' \in [Work -> States]
  /\ noted \subseteq noted' /\ noted' \subseteq Work
  /\ \A w \in Work : Accept(w) \/ Finish(w) \/ GiveUp(w) \/ TryAgain(w) \/ Stay(w)

Spec == Init /\ [][Next]_<<state, noted>>
=============================================================================
