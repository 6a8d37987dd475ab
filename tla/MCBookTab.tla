------------------------------ MODULE MCBookTab ------------------------------
(* In the browser and at its door, in three scenes none of which reads        *)
(* another: an analyst or a viewer whose tab meets MaxEvents events from      *)
(* elsewhere, a change of role among them; the Confirm page; the limiter.     *)
EXTENDS BookTab, ConfirmPage, RateLimit, TLC

CONSTANTS p1, first, second, none, i1, i2, r1, r2

MCProcesses == {p1}
MCPieces == {first, second}
MCSlots == {r1, r2}
MCOverlong == {second}
Symmetry == Permutations(MCSlots)

VARIABLE scene
Empty == \A i \in Items : inbox[i] = "none"
Unknown == member = "viewer" /\ api = "cold" /\ ~session

MCInit == /\ scene \in {"tab", "confirm", "limiter"} /\ TabInit /\ PageInit /\ LimitInit
          /\ IF scene = "tab" THEN member \in {"analyst", "viewer"} ELSE Unknown
          /\ scene = "confirm" \/ Empty
MCNext == /\ \/ scene = "tab" /\ TabNext /\ UNCHANGED <<pageVars, limitVars>>
             \/ scene = "confirm" /\ PageNext /\ UNCHANGED <<tabVars, limitVars>>
             \/ scene = "limiter" /\ LimitNext /\ UNCHANGED <<tabVars, pageVars>>
          /\ UNCHANGED scene
MCSpec == MCInit /\ [][MCNext]_<<tabVars, pageVars, limitVars, scene>>
==============================================================================
