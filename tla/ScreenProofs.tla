---------------------------- MODULE ScreenProofs ----------------------------
(***************************************************************************)
(* Proofs about what people are shown, for any sets of companies, flags,   *)
(* requests, pieces of text and items: the list of flags (FlagJob), one    *)
(* browser tab (BookTab), the Confirm page (ConfirmPage), how often        *)
(* sign-in may be tried (RateLimit), and, for any figures and marks, what  *)
(* the pages read off the book of a company (BookNumbers).                 *)
(***************************************************************************)
EXTENDS FlagJob, BookTab, ConfirmPage, RateLimit, BookNumbers,
        FiniteSetTheorems, WellFoundedInduction, TLAPS

(* The company a refresh is at is one of those it has taken off its list.  *)
VisitOK == \A j \in Jobs : pc[j] \in {"held", "aim", "clear"} => co[j] \in Companies \ todo[j]

(* The rows a refresh has cleared are open for everyone else and nobody    *)
(* else's; the rows it raises are its own, and nobody sees them before it  *)
(* commits.                                                                *)
LocksOK ==
  /\ \A j \in Jobs : \A f \in cleared[j] : status[f] = "open"
  /\ \A i, j \in Jobs : \A f \in cleared[i] : f \in cleared[j] => i = j
  /\ \A j \in Jobs : \A f \in raised[j] : f[1] = j
  /\ \A f \in Rows : f[1] \in Jobs /\ pc[f[1]] # "done" => status[f] = "none"

FlagInv == TypeOK /\ VisitOK /\ LocksOK

(* A company the refresh is through with. *)
Visited(j, c) == pc[j] \in Running /\ c \notin todo[j] /\ (pc[j] = "visit" \/ co[j] # c)

(* A refresh skips what is held beyond the time it read, and raises the    *)
(* rest of what it found.                                                  *)
FoundOK ==
  \A j \in Jobs, c \in Companies :
    /\ found[j][c].at <= now
    /\ \A t \in {found[j][c].at} : \A k \in found[j][c].skip : HeldAt(c, k, t)
    /\ Visited(j, c) => \A k \in found[j][c].keys \ found[j][c].skip : <<j, c, k>> \in raised[j]

Open(f) == f \in Rows /\ status[f] = "open"

(* A refresh by the worker runs alone, has every open row of the companies *)
(* it is through with, and a condition is open once.                       *)
SerialOK ==
  /\ \A j \in Jobs : pc[j] \in Running => worker = j
  /\ \A j \in Jobs, c \in Companies : Visited(j, c) => \A f \in RowsOf(c) : Open(f) => f \in cleared[j]
  /\ \A j \in Jobs : pc[j] = "clear" => \A f \in RowsOf(co[j]) : Open(f) => f \in aim[j]
  /\ \A f, g \in Rows : Open(f) /\ Open(g) /\ f[2] = g[2] /\ f[3] = g[3] => f = g
-----------------------------------------------------------------------------
(* Where a request goes, the others stay. *)
LEMMA GoIs ==
  ASSUME TypeOK, NEW j \in Jobs, NEW from, NEW to, Go(j, from, to)
  PROVE  /\ pc[j] = from /\ pc'[j] = to
         /\ \A i \in Jobs \ {j} : pc'[i] = pc[i]
BY DEF Go, TypeOK

(* A commit shows what the refresh has cleared and raised and lets go of   *)
(* its locks.                                                              *)
LEMMA CommitIs ==
  ASSUME FlagInv, NEW j \in Jobs, Commit(j)
  PROVE  /\ todo[j] = {} /\ pc[j] = "visit" /\ pc'[j] = "done"
         /\ \A i \in Jobs \ {j} : pc'[i] = pc[i] /\ cleared'[i] = cleared[i]
         /\ cleared'[j] = {}
         /\ \A f \in Rows : /\ f \in cleared[j] => status'[f] = "cleared" /\ f \notin raised[j]
                            /\ f \in raised[j] => status'[f] = "open" /\ status[f] = "none"
                            /\ f \notin cleared[j] \cup raised[j] => status'[f] = status[f]
         /\ UNCHANGED <<cond, until, now, todo, co, found, aim, raised>>
<1>1. Go(j, "visit", "done") /\ todo[j] = {} /\ cleared' = [cleared EXCEPT ![j] = {}]
  BY DEF Commit
<1>2. ASSUME NEW f \in Rows
      PROVE  status'[f] = CASE f \in cleared[j] -> "cleared"
                            [] f \in raised[j]  -> "open"
                            [] OTHER            -> status[f]
  BY DEF Commit
<1>3. ASSUME NEW f \in Rows
      PROVE  /\ f \in cleared[j] => status'[f] = "cleared" /\ f \notin raised[j]
             /\ f \in raised[j] => status'[f] = "open" /\ status[f] = "none"
             /\ f \notin cleared[j] \cup raised[j] => status'[f] = status[f]
  <2>1. f \in raised[j] => status[f] = "none"
    BY <1>1 DEF FlagInv, LocksOK, Go
  <2>2. f \in cleared[j] => status[f] = "open"
    BY DEF FlagInv, LocksOK
  <2> QED
    BY <1>2, <2>1, <2>2
<1>4. cleared'[j] = {} /\ \A i \in Jobs \ {j} : cleared'[i] = cleared[i]
  BY <1>1 DEF FlagInv, TypeOK
<1> QED
  BY <1>1, <1>3, <1>4, GoIs DEF FlagInv, Commit

(* What a company's detection writes down. *)
LEMMA DetectIs ==
  ASSUME TypeOK, NEW j \in Jobs, NEW c \in Companies, Detect(j, c)
  PROVE  /\ pc[j] = "visit" /\ pc'[j] = "held" /\ c \in todo[j]
         /\ todo'[j] = todo[j] \ {c} /\ co'[j] = c
         /\ \A i \in Jobs \ {j} : pc'[i] = pc[i] /\ todo'[i] = todo[i] /\ co'[i] = co[i] /\ found'[i] = found[i]
         /\ \A d \in Companies \ {c} : found'[j][d] = found[j][d]
         /\ found'[j][c] = [found[j][c] EXCEPT !.keys = cond[c]]
         /\ found' \in [Jobs -> [Companies -> [keys : SUBSET FlagKeys, skip : SUBSET FlagKeys, at : 0..MaxTime]]]
         /\ UNCHANGED <<cond, status, until, now, worker, aim, cleared, raised>>
<1> DEFINE Sheet == [keys : SUBSET FlagKeys, skip : SUBSET FlagKeys, at : 0..MaxTime]
           sheet == [found[j][c] EXCEPT !.keys = cond[c]]
<1>1. Go(j, "visit", "held")
  BY DEF Detect
<1>2. found[j] \in [Companies -> Sheet] /\ found \in [Jobs -> [Companies -> Sheet]] /\ cond[c] \subseteq FlagKeys
  BY DEF TypeOK
<1>3. found' = [found EXCEPT ![j] = [found[j] EXCEPT ![c] = sheet]]
  BY <1>2 DEF Detect
<1>4. sheet \in Sheet
  BY <1>2
<1>5. /\ found' \in [Jobs -> [Companies -> Sheet]] /\ found'[j][c] = sheet
      /\ \A d \in Companies \ {c} : found'[j][d] = found[j][d]
      /\ \A i \in Jobs \ {j} : found'[i] = found[i]
  <2> HIDE DEF Sheet, sheet
  <2> QED
    BY <1>2, <1>3, <1>4
<1>6. /\ c \in todo[j] /\ todo'[j] = todo[j] \ {c} /\ co'[j] = c
      /\ \A i \in Jobs \ {j} : todo'[i] = todo[i] /\ co'[i] = co[i]
  BY DEF Detect, TypeOK
<1> QED
  BY <1>1, <1>5, <1>6, GoIs DEF Detect, flags

LEMMA ReadHeldIs ==
  ASSUME TypeOK, VisitOK, NEW j \in Jobs, ReadHeld(j)
  PROVE  /\ pc[j] = "held" /\ pc'[j] = "aim" /\ co[j] \in Companies
         /\ \A i \in Jobs \ {j} : pc'[i] = pc[i] /\ found'[i] = found[i]
         /\ \A d \in Companies \ {co[j]} : found'[j][d] = found[j][d]
         /\ found'[j][co[j]].at = now
         /\ found'[j][co[j]].skip = {Key(f) : f \in {g \in RowsOf(co[j]) : HeldNow(g)}}
         /\ found' \in [Jobs -> [Companies -> [keys : SUBSET FlagKeys, skip : SUBSET FlagKeys, at : 0..MaxTime]]]
         /\ UNCHANGED <<cond, status, until, now, worker, todo, co, aim, cleared, raised>>
<1> DEFINE Sheet == [keys : SUBSET FlagKeys, skip : SUBSET FlagKeys, at : 0..MaxTime]
           c == co[j]
           held == {Key(f) : f \in {g \in RowsOf(c) : HeldNow(g)}}
           sheet == [found[j][c] EXCEPT !.skip = held, !.at = now]
<1>1. Go(j, "held", "aim") /\ c \in Companies
  BY DEF ReadHeld, Go, VisitOK
<1>2. found[j] \in [Companies -> Sheet] /\ found \in [Jobs -> [Companies -> Sheet]] /\ now \in 0..MaxTime
  BY DEF TypeOK
<1>3. held \subseteq FlagKeys
  BY DEF RowsOf, Rows, Key
<1>4. found' = [found EXCEPT ![j] = [found[j] EXCEPT ![c] = sheet]]
  <2>1. found' = [found EXCEPT ![j][c].skip = held, ![j][c].at = now]
    BY DEF ReadHeld
  <2> HIDE DEF held, c, Sheet
  <2> QED
    BY <1>1, <1>2, <2>1
<1>5. sheet \in Sheet /\ sheet.skip = held /\ sheet.at = now
  <2> HIDE DEF held, c
  <2> QED
    BY <1>1, <1>2, <1>3
<1>6. /\ found' \in [Jobs -> [Companies -> Sheet]] /\ found'[j][c] = sheet
      /\ \A d \in Companies \ {c} : found'[j][d] = found[j][d]
      /\ \A i \in Jobs \ {j} : found'[i] = found[i]
  <2> HIDE DEF Sheet, sheet, c
  <2> QED
    BY <1>1, <1>2, <1>4, <1>5
<1>7. /\ pc[j] = "held" /\ pc'[j] = "aim" /\ \A i \in Jobs \ {j} : pc'[i] = pc[i]
  BY <1>1, GoIs
<1>8. UNCHANGED <<cond, status, until, now, worker, todo, co, aim, cleared, raised>>
  BY DEF ReadHeld, flags
<1>9. found'[j][c].at = now /\ found'[j][c].skip = held
  BY <1>5, <1>6
<1> QED
  BY <1>1, <1>6, <1>7, <1>8, <1>9

(* A refresh that is given up lets go of its locks. *)
LEMMA GiveUpIs ==
  ASSUME TypeOK, NEW j \in Jobs, GiveUp(j)
  PROVE  /\ pc'[j] = "lost" /\ cleared'[j] = {} /\ aim'[j] = {}
         /\ \A i \in Jobs \ {j} : pc'[i] = pc[i] /\ cleared'[i] = cleared[i] /\ aim'[i] = aim[i]
         /\ worker' = IF worker = j THEN Nobody ELSE worker
         /\ UNCHANGED <<cond, status, until, now, todo, co, found, raised>>
BY DEF GiveUp, TypeOK, flags

(* A handler moves one row that nobody has locked. *)
LEMMA SetFlagIs ==
  ASSUME TypeOK, NEW f \in Rows, NEW s, NEW t, SetFlag(f, s, t)
  PROVE  /\ status[f] # "none" /\ \A j \in Jobs : f \notin cleared[j]
         /\ status'[f] = s /\ until'[f] = t
         /\ \A g \in Rows \ {f} : status'[g] = status[g] /\ until'[g] = until[g]
         /\ UNCHANGED <<cond, now, pc, worker, todo, co, found, aim, cleared, raised>>
BY DEF SetFlag, Free, TypeOK, locals

(* The part of a refresh that clears and raises, row by row.               *)
LEMMA ClearIs ==
  ASSUME TypeOK, NEW j \in Jobs, ClearAndRaise(j)
  PROVE  /\ pc[j] = "clear" /\ pc'[j] = "visit"
         /\ \A i \in Jobs \ {j} : /\ pc'[i] = pc[i] /\ cleared'[i] = cleared[i]
                                  /\ raised'[i] = raised[i] /\ aim'[i] = aim[i]
         /\ cleared'[j] = cleared[j] \cup {f \in aim[j] : status[f] = "open"}
         /\ raised'[j] = raised[j] \cup {<<j, co[j], k>> : k \in found[j][co[j]].keys \ found[j][co[j]].skip}
         /\ \A f \in aim[j] : \A i \in Jobs \ {j} : f \notin cleared[i]
         /\ UNCHANGED <<cond, status, until, now, worker, todo, co, found>>
<1>1. /\ Go(j, "clear", "visit")
      /\ \A f \in aim[j] : ~LockedByOther(j, f)
      /\ cleared' = [cleared EXCEPT ![j] = @ \cup {f \in aim[j] : StillOpen(f)}]
      /\ raised' = [raised EXCEPT ![j] = @ \cup {<<j, co[j], k>> : k \in found[j][co[j]].keys \ found[j][co[j]].skip}]
      /\ aim' = [aim EXCEPT ![j] = {}]
      /\ UNCHANGED <<cond, status, until, now, worker, todo, co, found>>
  BY DEF ClearAndRaise, flags
<1>2. pc[j] = "clear" /\ pc'[j] = "visit" /\ \A i \in Jobs \ {j} : pc'[i] = pc[i]
  BY <1>1, GoIs
<1>3. cleared'[j] = cleared[j] \cup {f \in aim[j] : status[f] = "open"}
  BY <1>1 DEF TypeOK, StillOpen
<1>4. raised'[j] = raised[j] \cup {<<j, co[j], k>> : k \in found[j][co[j]].keys \ found[j][co[j]].skip}
  BY <1>1 DEF TypeOK
<1>5. \A i \in Jobs \ {j} : cleared'[i] = cleared[i] /\ raised'[i] = raised[i] /\ aim'[i] = aim[i]
  BY <1>1 DEF TypeOK
<1>6. \A f \in aim[j] : \A i \in Jobs \ {j} : f \notin cleared[i]
  BY <1>1 DEF LockedByOther
<1> QED
  BY <1>1, <1>2, <1>3, <1>4, <1>5, <1>6
-----------------------------------------------------------------------------
(* What a request does before its refresh runs, and the clock.             *)
Outside(j) == Confirm(j) \/ Enqueue(j) \/ AutoConfirm(j)

(* The state keeps its types. *)
LEMMA StepType ==
  ASSUME FlagInv, [Next]_vars PROVE TypeOK'
<1>0. TypeOK /\ VisitOK
  BY DEF FlagInv
<1> USE <1>0
<1>1. ASSUME NEW j \in Jobs, Outside(j) PROVE TypeOK'
  <2>1. pc' \in [Jobs -> Running \cup {"idle", "confirmed", "queued", "done", "lost"}]
    BY <1>1 DEF Outside, Confirm, Enqueue, AutoConfirm, Go, TypeOK
  <2>2. cond' \in [Companies -> SUBSET FlagKeys]
    BY <1>1 DEF Outside, Confirm, Enqueue, AutoConfirm, BookChanges, TypeOK
  <2>3. UNCHANGED <<status, until, now, worker, todo, co, found, aim, cleared, raised>>
    BY <1>1 DEF Outside, Confirm, Enqueue, AutoConfirm, flags, locals
  <2> QED
    BY <2>1, <2>2, <2>3 DEF TypeOK
<1>2. ASSUME NEW j \in Jobs, Start(j) \/ RunInline(j) PROVE TypeOK'
  <2>1. pc' \in [Jobs -> Running \cup {"idle", "confirmed", "queued", "done", "lost"}]
    BY <1>2 DEF Start, RunInline, Go, TypeOK, Running
  <2>2. todo' \in [Jobs -> SUBSET Companies] /\ worker' \in Jobs \cup {Nobody}
    BY <1>2 DEF Start, RunInline, TypeOK
  <2>3. UNCHANGED <<cond, status, until, now, co, found, aim, cleared, raised>>
    BY <1>2 DEF Start, RunInline, flags
  <2> QED
    BY <2>1, <2>2, <2>3 DEF TypeOK
<1>3. ASSUME NEW j \in Jobs, NEW c \in Companies, Detect(j, c) PROVE TypeOK'
  <2>1. pc' \in [Jobs -> Running \cup {"idle", "confirmed", "queued", "done", "lost"}]
    BY <1>3 DEF Detect, Go, TypeOK, Running
  <2>2. todo' \in [Jobs -> SUBSET Companies] /\ co' \in [Jobs -> Companies \cup {Nobody}]
    BY <1>3 DEF Detect, TypeOK
  <2> QED
    BY <1>3, <2>1, <2>2, DetectIs DEF TypeOK
<1>4. ASSUME NEW j \in Jobs, ReadHeld(j) PROVE TypeOK'
  <2>1. pc' \in [Jobs -> Running \cup {"idle", "confirmed", "queued", "done", "lost"}]
    BY <1>4 DEF ReadHeld, Go, TypeOK, Running
  <2> QED
    BY <1>4, <2>1, ReadHeldIs DEF TypeOK
<1>5. ASSUME NEW j \in Jobs, Aim(j) PROVE TypeOK'
  <2>1. pc' \in [Jobs -> Running \cup {"idle", "confirmed", "queued", "done", "lost"}]
    BY <1>5 DEF Aim, Go, TypeOK, Running
  <2>2. aim' \in [Jobs -> SUBSET Rows]
    BY <1>5 DEF Aim, TypeOK, RowsOf
  <2>3. UNCHANGED <<cond, status, until, now, worker, todo, co, found, cleared, raised>>
    BY <1>5 DEF Aim, flags
  <2> QED
    BY <2>1, <2>2, <2>3 DEF TypeOK
<1>6. ASSUME NEW j \in Jobs, ClearAndRaise(j) PROVE TypeOK'
  <2>1. pc' \in [Jobs -> Running \cup {"idle", "confirmed", "queued", "done", "lost"}]
    BY <1>6 DEF ClearAndRaise, Go, TypeOK, Running
  <2>2. aim' \in [Jobs -> SUBSET Rows] /\ cleared' \in [Jobs -> SUBSET Rows]
    BY <1>6 DEF ClearAndRaise, TypeOK
  <2>3. raised' \in [Jobs -> SUBSET Rows]
    <3> DEFINE new == {<<j, co[j], k>> : k \in found[j][co[j]].keys \ found[j][co[j]].skip}
    <3>1. co[j] \in Companies
      BY <1>6 DEF ClearAndRaise, Go, VisitOK
    <3>2. found[j][co[j]].keys \subseteq FlagKeys
      BY <3>1 DEF TypeOK
    <3>3. new \in SUBSET Rows
      BY <3>1, <3>2 DEF Rows
    <3>4. raised' = [raised EXCEPT ![j] = @ \cup new]
      BY <1>6 DEF ClearAndRaise
    <3> HIDE DEF new
    <3> QED
      BY <3>3, <3>4 DEF TypeOK
  <2>4. UNCHANGED <<cond, status, until, now, worker, todo, co, found>>
    BY <1>6 DEF ClearAndRaise, flags
  <2> QED
    BY <2>1, <2>2, <2>3, <2>4 DEF TypeOK
<1>7. ASSUME NEW j \in Jobs, Commit(j) PROVE TypeOK'
  <2>1. pc' \in [Jobs -> Running \cup {"idle", "confirmed", "queued", "done", "lost"}]
    BY <1>7 DEF Commit, Go, TypeOK
  <2>2. \A f \in Rows : status'[f] \in {"none", "open", "cleared", "snoozed", "muted"}
    <3>1. \A f \in Rows : status'[f] \in {"cleared", "open", status[f]}
      BY <1>7, CommitIs
    <3> QED
      BY <3>1 DEF TypeOK
  <2>3. status' \in [Rows -> {"none", "open", "cleared", "snoozed", "muted"}]
    <3> DEFINE to(f) == CASE f \in cleared[j] -> "cleared"
                          [] f \in raised[j]  -> "open"
                          [] OTHER            -> status[f]
    <3>1. status' = [f \in Rows |-> to(f)]
      BY <1>7 DEF Commit
    <3> HIDE DEF to
    <3> QED
      BY <2>2, <3>1
  <2>4. cleared' \in [Jobs -> SUBSET Rows] /\ worker' \in Jobs \cup {Nobody}
    BY <1>7 DEF Commit, TypeOK
  <2> QED
    BY <1>7, <2>1, <2>3, <2>4 DEF TypeOK, Commit
<1>8. ASSUME NEW j \in Jobs, GiveUp(j) PROVE TypeOK'
  <2>1. pc' \in [Jobs -> Running \cup {"idle", "confirmed", "queued", "done", "lost"}]
    BY <1>8 DEF GiveUp, TypeOK
  <2>2. /\ cleared' \in [Jobs -> SUBSET Rows] /\ aim' \in [Jobs -> SUBSET Rows]
        /\ worker' \in Jobs \cup {Nobody}
    BY <1>8 DEF GiveUp, TypeOK
  <2> QED
    BY <1>8, <2>1, <2>2 DEF TypeOK, GiveUp, flags
<1>9. ASSUME NEW f \in Rows, NEW s \in {"open", "snoozed", "muted"}, NEW t \in 0..MaxTime + 1, SetFlag(f, s, t)
      PROVE  TypeOK'
  <2>1. status' \in [Rows -> {"none", "open", "cleared", "snoozed", "muted"}] /\ until' \in [Rows -> 0..MaxTime + 1]
    BY <1>9 DEF SetFlag, TypeOK
  <2> QED
    BY <1>9, <2>1 DEF TypeOK, SetFlag, locals
<1>10. ASSUME NEW f \in Rows, Snooze(f) \/ Mute(f) \/ Unmute(f) PROVE TypeOK'
  <2>1. now + 1 \in 0..MaxTime + 1 /\ until[f] \in 0..MaxTime + 1 /\ 0 \in 0..MaxTime + 1
    BY FlagJobAssumption DEF TypeOK
  <2> QED
    BY <1>9, <1>10, <2>1 DEF Snooze, Mute, Unmute
<1>11. CASE Tick
  BY <1>11, FlagJobAssumption DEF Tick, TypeOK, flags, locals
<1>12. CASE UNCHANGED vars
  BY <1>12 DEF vars, flags, locals, TypeOK
<1> QED
  BY <1>1, <1>2, <1>3, <1>4, <1>5, <1>6, <1>7, <1>8, <1>10, <1>11, <1>12
  DEF Next, Outside, Refresh, Deadlock, Fail
-----------------------------------------------------------------------------
(* A refresh does not leave the company it is at before it is through.     *)
LEMMA StepVisit ==
  ASSUME FlagInv, [Next]_vars PROVE VisitOK'
<1> USE DEF FlagInv
<1>1. ASSUME NEW j \in Jobs, NEW c \in Companies, Detect(j, c) PROVE VisitOK'
  <2>1. /\ todo'[j] = todo[j] \ {c} /\ co'[j] = c
        /\ \A i \in Jobs \ {j} : pc'[i] = pc[i] /\ todo'[i] = todo[i] /\ co'[i] = co[i]
    BY <1>1, DetectIs
  <2> QED
    BY <2>1 DEF VisitOK
<1>2. ASSUME NEW j \in Jobs, ReadHeld(j) PROVE VisitOK'
  BY <1>2, ReadHeldIs DEF VisitOK
<1>3. ASSUME NEW j \in Jobs, Aim(j) PROVE VisitOK'
  BY <1>3, GoIs DEF Aim, VisitOK
<1>4. ASSUME NEW j \in Jobs, ClearAndRaise(j) PROVE VisitOK'
  BY <1>4, ClearIs DEF VisitOK
<1>5. ASSUME NEW j \in Jobs, Commit(j) PROVE VisitOK'
  BY <1>5, CommitIs DEF VisitOK
<1>6. ASSUME NEW j \in Jobs, GiveUp(j) PROVE VisitOK'
  BY <1>6, GiveUpIs DEF VisitOK
<1>7. ASSUME NEW j \in Jobs, Start(j) \/ RunInline(j) PROVE VisitOK'
  <2>1. pc'[j] = "visit" /\ \A i \in Jobs \ {j} : pc'[i] = pc[i] /\ todo'[i] = todo[i]
    BY <1>7, GoIs DEF Start, RunInline, TypeOK
  <2>2. co' = co
    BY <1>7 DEF Start, RunInline
  <2> QED
    BY <2>1, <2>2 DEF VisitOK
<1>8. ASSUME NEW j \in Jobs, Outside(j) PROVE VisitOK'
  <2>1. pc'[j] \in {"confirmed", "queued", "done"} /\ \A i \in Jobs \ {j} : pc'[i] = pc[i]
    BY <1>8, GoIs DEF Outside, Confirm, Enqueue, AutoConfirm
  <2>2. co' = co /\ todo' = todo
    BY <1>8 DEF Outside, Confirm, Enqueue, AutoConfirm, locals
  <2> QED
    BY <2>1, <2>2 DEF VisitOK
<1>9. ASSUME NEW f \in Rows, Snooze(f) \/ Mute(f) \/ Unmute(f) PROVE VisitOK'
  BY <1>9 DEF Snooze, Mute, Unmute, SetFlag, locals, VisitOK
<1>10. CASE Tick \/ UNCHANGED vars
  BY <1>10 DEF Tick, vars, locals, VisitOK
<1> QED
  BY <1>1, <1>2, <1>3, <1>4, <1>5, <1>6, <1>7, <1>8, <1>9, <1>10 DEF Next, Outside, Refresh, Deadlock, Fail

(* Who is through stays so. *)
LEMMA DoneStays ==
  ASSUME FlagInv, Next, NEW j \in Jobs, pc[j] = "done" PROVE pc'[j] = "done"
<1> USE DEF FlagInv
<1>1. ASSUME NEW i \in Jobs, Outside(i) \/ Start(i) \/ RunInline(i) PROVE pc'[j] = "done"
  BY <1>1, GoIs DEF Outside, Confirm, Enqueue, AutoConfirm, Start, RunInline
<1>2. ASSUME NEW i \in Jobs, NEW c \in Companies, Detect(i, c) PROVE pc'[j] = "done"
  BY <1>2, DetectIs
<1>3. ASSUME NEW i \in Jobs, ReadHeld(i) \/ Aim(i) \/ ClearAndRaise(i) \/ Commit(i) PROVE pc'[j] = "done"
  BY <1>3, GoIs DEF ReadHeld, Aim, ClearAndRaise, Commit
<1>4. ASSUME NEW i \in Jobs, Deadlock(i) \/ Fail(i) PROVE pc'[j] = "done"
  BY <1>4, GiveUpIs DEF Deadlock, Waiting, Fail, Running
<1>5. ASSUME NEW f \in Rows, Snooze(f) \/ Mute(f) \/ Unmute(f) PROVE pc'[j] = "done"
  BY <1>5 DEF Snooze, Mute, Unmute, SetFlag
<1>6. CASE Tick
  BY <1>6 DEF Tick
<1> QED
  BY <1>1, <1>2, <1>3, <1>4, <1>5, <1>6 DEF Next, Outside, Refresh

(* A step that shows nothing, clears nothing and raises nothing.           *)
LEMMA LocksStay ==
  ASSUME LocksOK, status' = status, raised' = raised,
         \A j \in Jobs : cleared'[j] \subseteq cleared[j],
         \A j \in Jobs : pc[j] = "done" => pc'[j] = "done"
  PROVE  LocksOK'
BY DEF LocksOK

(* Locks are of open rows and of one refresh, after every step.            *)
LEMMA StepLocks ==
  ASSUME FlagInv, [Next]_vars PROVE LocksOK'
<1> USE DEF FlagInv
<1>0. CASE UNCHANGED vars
  BY <1>0, LocksStay DEF vars, flags, locals
<1> SUFFICES ASSUME Next PROVE LocksOK'
  BY <1>0
<1> DEFINE DoneKept == \A j \in Jobs : pc[j] = "done" => pc'[j] = "done"
<1>1. DoneKept
  BY DoneStays
<1> HIDE DEF DoneKept
<1>2. CASE UNCHANGED <<status, raised, cleared>>
  BY <1>1, <1>2, LocksStay DEF DoneKept
<1>3. ASSUME NEW j \in Jobs, Outside(j) \/ Start(j) \/ RunInline(j) \/ ReadHeld(j) \/ Aim(j) PROVE LocksOK'
  BY <1>2, <1>3 DEF Outside, Confirm, Enqueue, AutoConfirm, Start, RunInline, ReadHeld, Aim, flags, locals
<1>4. ASSUME NEW j \in Jobs, NEW c \in Companies, Detect(j, c) PROVE LocksOK'
  BY <1>2, <1>4 DEF Detect, flags
<1>5. ASSUME NEW j \in Jobs, ClearAndRaise(j) PROVE LocksOK'
  <2>1. /\ pc[j] = "clear" /\ pc'[j] = "visit"
        /\ \A i \in Jobs \ {j} : cleared'[i] = cleared[i] /\ raised'[i] = raised[i]
        /\ cleared'[j] = cleared[j] \cup {f \in aim[j] : status[f] = "open"}
        /\ raised'[j] = raised[j] \cup {<<j, co[j], k>> : k \in found[j][co[j]].keys \ found[j][co[j]].skip}
        /\ \A f \in aim[j] : \A i \in Jobs \ {j} : f \notin cleared[i]
        /\ status' = status
    BY <1>5, ClearIs
  <2>2. \A i \in Jobs : \A f \in cleared'[i] : status'[f] = "open"
    BY <2>1 DEF LocksOK
  <2>3. \A h, i \in Jobs : \A f \in cleared'[h] : f \in cleared'[i] => h = i
    BY <2>1 DEF LocksOK
  <2>4. \A i \in Jobs : \A f \in raised'[i] : f[1] = i
    BY <2>1 DEF LocksOK
  <2>5. \A f \in Rows : f[1] \in Jobs /\ pc'[f[1]] # "done" => status'[f] = "none"
    BY <1>1, <2>1 DEF LocksOK, DoneKept
  <2> QED
    BY <2>2, <2>3, <2>4, <2>5 DEF LocksOK
<1>6. ASSUME NEW j \in Jobs, Commit(j) PROVE LocksOK'
  <2>1. /\ \A i \in Jobs \ {j} : pc'[i] = pc[i] /\ cleared'[i] = cleared[i]
        /\ cleared'[j] = {} /\ pc'[j] = "done"
        /\ \A f \in Rows : /\ f \in raised[j] => status[f] = "none"
                           /\ f \notin cleared[j] \cup raised[j] => status'[f] = status[f]
        /\ raised' = raised
    BY <1>6, CommitIs
  <2>2. ASSUME NEW i \in Jobs, NEW f \in cleared'[i] PROVE status'[f] = "open"
    <3>1. i # j /\ f \in cleared[i] /\ f \in Rows /\ status[f] = "open"
      BY <2>1, <2>2 DEF LocksOK, TypeOK
    <3>2. f \notin cleared[j] \cup raised[j]
      BY <2>1, <3>1 DEF LocksOK
    <3> QED
      BY <2>1, <3>1, <3>2
  <2>3. \A h, i \in Jobs : \A f \in cleared'[h] : f \in cleared'[i] => h = i
    BY <2>1 DEF LocksOK
  <2>4. \A i \in Jobs : \A f \in raised'[i] : f[1] = i
    BY <2>1 DEF LocksOK
  <2>5. ASSUME NEW f \in Rows, f[1] \in Jobs, pc'[f[1]] # "done" PROVE status'[f] = "none"
    <3>1. f[1] # j /\ status[f] = "none"
      BY <1>1, <2>1, <2>5 DEF LocksOK, DoneKept
    <3>2. f \notin cleared[j] \cup raised[j]
      BY <3>1 DEF LocksOK
    <3> QED
      BY <2>1, <3>1, <3>2
  <2> QED
    BY <2>2, <2>3, <2>4, <2>5 DEF LocksOK
<1>7. ASSUME NEW j \in Jobs, GiveUp(j) PROVE LocksOK'
  <2>1. /\ \A i \in Jobs : cleared'[i] \subseteq cleared[i]
        /\ status' = status /\ raised' = raised
    BY <1>7, GiveUpIs
  <2> QED
    BY <1>1, <2>1, LocksStay DEF DoneKept
<1>8. ASSUME NEW f \in Rows, NEW s, NEW t, SetFlag(f, s, t) PROVE LocksOK'
  <2>1. /\ status[f] # "none" /\ \A j \in Jobs : f \notin cleared[j]
        /\ \A g \in Rows \ {f} : status'[g] = status[g]
        /\ pc' = pc /\ cleared' = cleared /\ raised' = raised
    BY <1>8, SetFlagIs
  <2>2. \A j \in Jobs : \A g \in cleared[j] : g \in Rows /\ g # f
    BY <2>1 DEF TypeOK
  <2> QED
    BY <2>1, <2>2 DEF LocksOK
<1>9. CASE Tick
  BY <1>2, <1>9 DEF Tick, flags, locals
<1> QED
  BY <1>3, <1>4, <1>5, <1>6, <1>7, <1>8, <1>9
  DEF Next, Outside, Refresh, Deadlock, Fail, Snooze, Mute, Unmute

LEMMA InitFlags ==
  ASSUME Init PROVE FlagInv
<1> USE DEF Init
<1>1. TypeOK
  <2>1. /\ cond \in [Companies -> SUBSET FlagKeys]
        /\ status \in [Rows -> {"none", "open", "cleared", "snoozed", "muted"}]
    BY FlagJobAssumption
  <2>2. until \in [Rows -> 0..MaxTime + 1] /\ now \in 0..MaxTime
    BY FlagJobAssumption
  <2>3. /\ pc \in [Jobs -> Running \cup {"idle", "confirmed", "queued", "done", "lost"}]
        /\ worker \in Jobs \cup {Nobody} /\ co \in [Jobs -> Companies \cup {Nobody}]
    OBVIOUS
  <2>4. /\ todo \in [Jobs -> SUBSET Companies] /\ aim \in [Jobs -> SUBSET Rows]
        /\ cleared \in [Jobs -> SUBSET Rows] /\ raised \in [Jobs -> SUBSET Rows]
    OBVIOUS
  <2>5. found \in [Jobs -> [Companies -> [keys : SUBSET FlagKeys, skip : SUBSET FlagKeys, at : 0..MaxTime]]]
    BY FlagJobAssumption
  <2> QED
    BY <2>1, <2>2, <2>3, <2>4, <2>5 DEF TypeOK
<1>2. VisitOK
  BY DEF VisitOK
<1>3. LocksOK
  BY FlagJobAssumption DEF LocksOK
<1> QED
  BY <1>1, <1>2, <1>3 DEF FlagInv

(* So it always holds. *)
LEMMA FlagSafety == Spec => []FlagInv
<1>1. Init => FlagInv
  BY InitFlags
<1>2. FlagInv /\ [Next]_vars => FlagInv'
  BY StepType, StepVisit, StepLocks DEF FlagInv
<1> QED
  BY <1>1, <1>2, PTL DEF Spec

(* The state has its types, for any companies, flag keys and requests.     *)
THEOREM FlagsTypeCorrect == Spec => []TypeOK
<1>1. FlagInv => TypeOK
  BY DEF FlagInv
<1> QED
  BY <1>1, FlagSafety, PTL
-----------------------------------------------------------------------------
(* A row that a user has muted or snoozed is left alone by every refresh.  *)
LEMMA HeldRowStays ==
  ASSUME FlagInv, [Next]_vars, NEW f \in Rows, status[f] \in {"muted", "snoozed"}
  PROVE  \/ status'[f] = status[f] /\ until'[f] = until[f]
         \/ status'[f] = "snoozed" /\ until'[f] = now + 1
         \/ status'[f] = "muted"
         \/ Unmute(f)
<1> USE DEF FlagInv
<1>1. CASE UNCHANGED <<status, until>>
  BY <1>1
<1>2. ASSUME NEW j \in Jobs, Outside(j) \/ Start(j) \/ RunInline(j) \/ ReadHeld(j) \/ Aim(j) \/ ClearAndRaise(j)
      PROVE  UNCHANGED <<status, until>>
  BY <1>2 DEF Outside, Confirm, Enqueue, AutoConfirm, Start, RunInline, ReadHeld, Aim, ClearAndRaise, flags
<1>3. ASSUME NEW j \in Jobs, NEW c \in Companies, Detect(j, c) PROVE UNCHANGED <<status, until>>
  BY <1>3 DEF Detect, flags
<1>4. ASSUME NEW j \in Jobs, GiveUp(j) PROVE UNCHANGED <<status, until>>
  BY <1>4 DEF GiveUp, flags
<1>5. CASE Tick \/ UNCHANGED vars
  BY <1>1, <1>5 DEF Tick, vars, flags
<1>6. ASSUME NEW j \in Jobs, Commit(j) PROVE status'[f] = status[f] /\ until'[f] = until[f]
  <2>1. f \notin cleared[j]
    BY DEF LocksOK
  <2> QED
    BY <1>6, <2>1, CommitIs
<1>7. ASSUME NEW g \in Rows, g # f, Snooze(g) \/ Mute(g) \/ Unmute(g)
      PROVE  status'[f] = status[f] /\ until'[f] = until[f]
  BY <1>7, SetFlagIs DEF Snooze, Mute, Unmute
<1>8. CASE Snooze(f)
  BY <1>8, SetFlagIs DEF Snooze
<1>9. CASE Mute(f)
  BY <1>9, SetFlagIs DEF Mute
<1> QED
  BY <1>1, <1>2, <1>3, <1>4, <1>5, <1>6, <1>7, <1>8, <1>9 DEF Next, Outside, Refresh, Deadlock, Fail

(* refreshFlags: whatever refreshes, mutes, snoozes and deadlocks run at   *)
(* the same time, no refresh clears a row that a user holds.               *)
THEOREM HeldRowsAreKept == Spec => HeldRowsStay
<1>1. FlagInv /\ [Next]_vars =>
        [\A f \in Rows : status[f] \in {"muted", "snoozed"} => status'[f] # "cleared"]_vars
  <2> SUFFICES ASSUME FlagInv, [Next]_vars, NEW f \in Rows, status[f] \in {"muted", "snoozed"}
               PROVE  status'[f] # "cleared"
    OBVIOUS
  <2>1. Unmute(f) => status'[f] = "open"
    BY SetFlagIs DEF FlagInv, Unmute
  <2> QED
    BY <2>1, HeldRowStays
<1> QED
  BY <1>1, FlagSafety, PTL DEF Spec, HeldRowsStay
-----------------------------------------------------------------------------
(* What is held beyond a time that has come stays held without an unmute:  *)
(* a new snooze reaches beyond the clock.                                  *)
LEMMA HeldStays ==
  ASSUME FlagInv, [Next]_vars, "unmute" \notin Ops,
         NEW c \in Companies, NEW k \in FlagKeys, NEW t \in 0..now, HeldAt(c, k, t)
  PROVE  HeldAt(c, k, t)'
<1>1. PICK f \in Rows : /\ f \in RowsFor(c, k)
                        /\ status[f] = "muted" \/ (status[f] = "snoozed" /\ until[f] > t)
  BY DEF HeldAt, Muted, RowsFor, RowsOf
<1>2. f \in RowsFor(c, k)'
  BY <1>1 DEF RowsFor, RowsOf
<1>3. \/ status'[f] = status[f] /\ until'[f] = until[f]
      \/ status'[f] = "snoozed" /\ until'[f] = now + 1
      \/ status'[f] = "muted"
  BY <1>1, HeldRowStays DEF Unmute
<1>4. now + 1 > t
  BY DEF FlagInv, TypeOK
<1>5. status'[f] = "muted" \/ (status'[f] = "snoozed" /\ until'[f] > t)
  BY <1>1, <1>3, <1>4
<1> QED
  BY <1>2, <1>5 DEF HeldAt, Muted

(* The clock does not go back. *)
LEMMA ClockGoesOn ==
  ASSUME FlagInv, [Next]_vars PROVE now' \in 0..MaxTime /\ now' >= now
<1>1. now' = now \/ now' = now + 1
  <2>1. ASSUME NEW j \in Jobs,
               \/ Outside(j) \/ Start(j) \/ RunInline(j) \/ ReadHeld(j) \/ Aim(j) \/ ClearAndRaise(j)
               \/ Commit(j) \/ GiveUp(j) \/ \E c \in Companies : Detect(j, c)
        PROVE  now' = now
    BY <2>1 DEF Outside, Confirm, Enqueue, AutoConfirm, Start, RunInline, ReadHeld, Aim, ClearAndRaise,
                Commit, GiveUp, Detect
  <2>2. ASSUME NEW f \in Rows, Snooze(f) \/ Mute(f) \/ Unmute(f) PROVE now' = now
    BY <2>2 DEF Snooze, Mute, Unmute, SetFlag
  <2>3. Tick \/ UNCHANGED vars => now' = now \/ now' = now + 1
    BY DEF Tick, vars
  <2> QED
    BY <2>1, <2>2, <2>3 DEF Next, Outside, Refresh, Deadlock, Fail
<1>2. now' \in 0..MaxTime
  BY StepType DEF TypeOK
<1> QED
  BY <1>1, <1>2, FlagJobAssumption DEF FlagInv, TypeOK

(* What a refresh has found and read stays as it was, and true.            *)
LEMMA SheetStays ==
  ASSUME FlagInv, FoundOK, [Next]_vars, "unmute" \notin Ops,
         NEW j \in Jobs, NEW c \in Companies,
         found'[j][c].at = found[j][c].at, found'[j][c].skip = found[j][c].skip
  PROVE  /\ found'[j][c].at <= now'
         /\ \A t \in {found'[j][c].at} : \A k \in found'[j][c].skip : HeldAt(c, k, t)'
<1>1. PICK t : t = found[j][c].at
  OBVIOUS
<1>2. t \in 0..now /\ found[j][c].skip \subseteq FlagKeys
  <2>1. found[j][c] \in [keys : SUBSET FlagKeys, skip : SUBSET FlagKeys, at : 0..MaxTime]
    BY DEF FlagInv, TypeOK
  <2>2. t \in 0..MaxTime /\ t <= now /\ now \in 0..MaxTime
    BY <1>1, <2>1 DEF FoundOK, FlagInv, TypeOK
  <2> QED
    BY <2>1, <2>2, FlagJobAssumption
<1>3. t <= now'
  BY <1>2, ClockGoesOn, FlagJobAssumption DEF FlagInv, TypeOK
<1>4. ASSUME NEW k \in found[j][c].skip PROVE HeldAt(c, k, t)'
  <2>1. HeldAt(c, k, t)
    BY <1>1, <1>4 DEF FoundOK
  <2> QED
    BY <1>2, <1>4, <2>1, HeldStays
<1> QED
  BY <1>1, <1>3, <1>4

(* A company a refresh is through with after a step was so before, or the  *)
(* refresh has just cleared and raised there.                              *)
LEMMA VisitedBefore ==
  ASSUME FlagInv, [Next]_vars, NEW j \in Jobs, NEW c \in Companies, Visited(j, c)'
  PROVE  \/ Visited(j, c) /\ found'[j][c] = found[j][c] /\ raised[j] \subseteq raised'[j]
         \/ ClearAndRaise(j) /\ co[j] = c
<1> USE DEF FlagInv
<1>1. CASE /\ pc'[j] = pc[j] /\ todo'[j] = todo[j] /\ co'[j] = co[j]
           /\ found'[j] = found[j] /\ raised[j] \subseteq raised'[j]
  BY <1>1 DEF Visited
<1>2. ASSUME NEW i \in Jobs, Outside(i)
      PROVE  Visited(j, c) /\ found'[j][c] = found[j][c] /\ raised[j] \subseteq raised'[j]
  <2>1. UNCHANGED <<todo, co, found, raised>>
    BY <1>2 DEF Outside, Confirm, Enqueue, AutoConfirm, locals
  <2>2. pc'[i] \in {"confirmed", "queued", "done"} /\ \A h \in Jobs \ {i} : pc'[h] = pc[h]
    BY <1>2, GoIs DEF Outside, Confirm, Enqueue, AutoConfirm
  <2> QED
    BY <1>1, <2>1, <2>2 DEF Visited, Running
<1>3. ASSUME NEW i \in Jobs, Start(i) \/ RunInline(i)
      PROVE  Visited(j, c) /\ found'[j][c] = found[j][c] /\ raised[j] \subseteq raised'[j]
  <2>1. UNCHANGED <<co, found, raised>> /\ todo'[i] = Companies /\ \A h \in Jobs \ {i} : todo'[h] = todo[h]
    BY <1>3 DEF Start, RunInline, TypeOK
  <2>2. \A h \in Jobs \ {i} : pc'[h] = pc[h]
    BY <1>3, GoIs DEF Start, RunInline
  <2> QED
    BY <1>1, <2>1, <2>2 DEF Visited
<1>4. ASSUME NEW i \in Jobs, NEW d \in Companies, Detect(i, d)
      PROVE  Visited(j, c) /\ found'[j][c] = found[j][c] /\ raised[j] \subseteq raised'[j]
  <2>1. /\ pc[i] = "visit" /\ pc'[i] = "held" /\ todo'[i] = todo[i] \ {d} /\ co'[i] = d
        /\ \A h \in Jobs \ {i} : pc'[h] = pc[h] /\ todo'[h] = todo[h] /\ co'[h] = co[h] /\ found'[h] = found[h]
        /\ \A e \in Companies \ {d} : found'[i][e] = found[i][e]
        /\ raised' = raised
    BY <1>4, DetectIs
  <2> QED
    BY <1>1, <2>1 DEF Visited, Running
<1>5. ASSUME NEW i \in Jobs, ReadHeld(i)
      PROVE  Visited(j, c) /\ found'[j][c] = found[j][c] /\ raised[j] \subseteq raised'[j]
  <2>1. /\ pc[i] = "held" /\ pc'[i] = "aim"
        /\ \A h \in Jobs \ {i} : pc'[h] = pc[h] /\ found'[h] = found[h]
        /\ \A e \in Companies \ {co[i]} : found'[i][e] = found[i][e]
        /\ todo' = todo /\ co' = co /\ raised' = raised
    BY <1>5, ReadHeldIs
  <2> QED
    BY <1>1, <2>1 DEF Visited, Running
<1>6. ASSUME NEW i \in Jobs, Aim(i)
      PROVE  Visited(j, c) /\ found'[j][c] = found[j][c] /\ raised[j] \subseteq raised'[j]
  <2>1. /\ pc[i] = "aim" /\ pc'[i] = "clear" /\ \A h \in Jobs \ {i} : pc'[h] = pc[h]
        /\ UNCHANGED <<todo, co, found, raised>>
    BY <1>6, GoIs DEF Aim
  <2> QED
    BY <1>1, <2>1 DEF Visited, Running
<1>7. ASSUME NEW i \in Jobs, ClearAndRaise(i), ~(i = j /\ co[j] = c)
      PROVE  Visited(j, c) /\ found'[j][c] = found[j][c] /\ raised[j] \subseteq raised'[j]
  <2>1. /\ pc[i] = "clear" /\ pc'[i] = "visit"
        /\ \A h \in Jobs \ {i} : pc'[h] = pc[h] /\ raised'[h] = raised[h]
        /\ raised[i] \subseteq raised'[i] /\ UNCHANGED <<todo, co, found>>
    BY <1>7, ClearIs
  <2> QED
    BY <1>1, <1>7, <2>1 DEF Visited, Running
<1>8. ASSUME NEW i \in Jobs, Commit(i) \/ GiveUp(i)
      PROVE  Visited(j, c) /\ found'[j][c] = found[j][c] /\ raised[j] \subseteq raised'[j]
  <2>1. pc'[i] \in {"done", "lost"} /\ \A h \in Jobs \ {i} : pc'[h] = pc[h]
    BY <1>8, CommitIs, GiveUpIs
  <2>2. UNCHANGED <<todo, co, found, raised>>
    BY <1>8 DEF Commit, GiveUp
  <2> QED
    BY <1>1, <2>1, <2>2 DEF Visited, Running
<1>9. ASSUME NEW f \in Rows, Snooze(f) \/ Mute(f) \/ Unmute(f)
      PROVE  Visited(j, c) /\ found'[j][c] = found[j][c] /\ raised[j] \subseteq raised'[j]
  <2>1. UNCHANGED <<pc, todo, co, found, raised>>
    BY <1>9 DEF Snooze, Mute, Unmute, SetFlag, locals
  <2> QED
    BY <1>9, <2>1 DEF Visited
<1>10. CASE Tick \/ UNCHANGED vars
  BY <1>1, <1>10 DEF Tick, vars, locals
<1> QED
  BY <1>2, <1>3, <1>4, <1>5, <1>6, <1>7, <1>8, <1>9, <1>10 DEF Next, Outside, Refresh, Deadlock, Fail

(* The sheet of a company changes when it is detected and when the held    *)
(* flags are read.                                                         *)
LEMMA SheetMoves ==
  ASSUME FlagInv, [Next]_vars, NEW j \in Jobs, NEW c \in Companies
  PROVE  \/ found'[j][c].at = found[j][c].at /\ found'[j][c].skip = found[j][c].skip
         \/ ReadHeld(j) /\ co[j] = c
<1> USE DEF FlagInv
<1>1. ASSUME NEW i \in Jobs, NEW d \in Companies, Detect(i, d)
      PROVE  found'[j][c].at = found[j][c].at /\ found'[j][c].skip = found[j][c].skip
  <2>1. found[i][d] \in [keys : SUBSET FlagKeys, skip : SUBSET FlagKeys, at : 0..MaxTime]
    BY DEF TypeOK
  <2>2. /\ found'[i][d] = [found[i][d] EXCEPT !.keys = cond[d]]
        /\ \A e \in Companies \ {d} : found'[i][e] = found[i][e]
        /\ \A h \in Jobs \ {i} : found'[h] = found[h]
    BY <1>1, DetectIs
  <2>3. found'[i][d].at = found[i][d].at /\ found'[i][d].skip = found[i][d].skip
    BY <2>1, <2>2
  <2> QED
    BY <2>2, <2>3
<1>2. ASSUME NEW i \in Jobs, ReadHeld(i), ~(i = j /\ co[j] = c) PROVE found'[j][c] = found[j][c]
  <2>1. /\ \A h \in Jobs \ {i} : found'[h] = found[h]
        /\ \A e \in Companies \ {co[i]} : found'[i][e] = found[i][e]
    BY <1>2, ReadHeldIs
  <2> QED
    BY <1>2, <2>1
<1>3. ASSUME NEW i \in Jobs,
             \/ Outside(i) \/ Start(i) \/ RunInline(i) \/ Aim(i) \/ ClearAndRaise(i)
             \/ Commit(i) \/ GiveUp(i)
      PROVE  found' = found
  BY <1>3 DEF Outside, Confirm, Enqueue, AutoConfirm, Start, RunInline, Aim, ClearAndRaise, Commit, GiveUp, locals
<1>4. ASSUME NEW f \in Rows, Snooze(f) \/ Mute(f) \/ Unmute(f) PROVE found' = found
  BY <1>4 DEF Snooze, Mute, Unmute, SetFlag, locals
<1>5. Tick \/ UNCHANGED vars => found' = found
  BY DEF Tick, vars, locals
<1> QED
  BY <1>1, <1>2, <1>3, <1>4, <1>5 DEF Next, Outside, Refresh, Deadlock, Fail

(* Every step keeps what refreshes have read true.                         *)
LEMMA StepFound ==
  ASSUME FlagInv, FoundOK, [Next]_vars, "unmute" \notin Ops PROVE FoundOK'
<1> USE DEF FlagInv
<1> SUFFICES ASSUME NEW j \in Jobs, NEW c \in Companies
             PROVE  /\ found'[j][c].at <= now'
                    /\ \A t \in {found'[j][c].at} : \A k \in found'[j][c].skip : HeldAt(c, k, t)'
                    /\ Visited(j, c)' => \A k \in found'[j][c].keys \ found'[j][c].skip : <<j, c, k>> \in raised'[j]
  BY DEF FoundOK
<1>1. /\ found'[j][c].at <= now'
      /\ \A t \in {found'[j][c].at} : \A k \in found'[j][c].skip : HeldAt(c, k, t)'
  <2>1. CASE found'[j][c].at = found[j][c].at /\ found'[j][c].skip = found[j][c].skip
    BY <2>1, SheetStays
  <2>2. CASE ReadHeld(j) /\ co[j] = c
    <3>1. /\ found'[j][c].at = now
          /\ found'[j][c].skip = {Key(f) : f \in {g \in RowsOf(c) : HeldNow(g)}}
          /\ UNCHANGED <<now, status, until>>
      BY <2>2, ReadHeldIs
    <3>2. PICK t : t = now
      OBVIOUS
    <3>3. ASSUME NEW k \in found'[j][c].skip PROVE HeldAt(c, k, t)
      BY <3>1, <3>2, <3>3 DEF HeldNow, HeldAt, Muted, RowsFor
    <3>4. ASSUME NEW k \in found'[j][c].skip PROVE HeldAt(c, k, t)'
      BY <3>1, <3>3, <3>4 DEF HeldAt, Muted, RowsFor, RowsOf
    <3>5. now' <= now'
      BY FlagJobAssumption, ClockGoesOn
    <3> QED
      BY <3>1, <3>2, <3>4, <3>5
  <2> QED
    BY <2>1, <2>2, SheetMoves
<1>2. ASSUME Visited(j, c)', NEW k \in found'[j][c].keys \ found'[j][c].skip PROVE <<j, c, k>> \in raised'[j]
  <2>1. CASE Visited(j, c) /\ found'[j][c] = found[j][c] /\ raised[j] \subseteq raised'[j]
    BY <1>2, <2>1 DEF FoundOK
  <2>2. CASE ClearAndRaise(j) /\ co[j] = c
    BY <1>2, <2>2, ClearIs
  <2> QED
    BY <1>2, <2>1, <2>2, VisitedBefore
<1> QED
  BY <1>1, <1>2

(* A refresh loses no alert: when it commits, everything it found is on    *)
(* the list or held beyond the time at which it read the held flags, for   *)
(* any refreshes at the same time, unless somebody unmutes a flag.         *)
THEOREM AlertsAreKept ==
  ASSUME "unmute" \notin Ops PROVE Spec => NoAlertLost
<1>1. Init => FoundOK
  <2>1. ASSUME Init PROVE FoundOK
    BY <2>1 DEF Init, FoundOK, Visited, Running
  <2> QED
    BY <2>1
<1>2. FlagInv /\ FoundOK /\ [Next]_vars => FoundOK'
  BY StepFound
<1>3. FlagInv /\ FoundOK /\ [Next]_vars =>
        [\A j \in Jobs : Commit(j) =>
           \A c \in Companies : \A k \in found[j][c].keys :
             Shown(c, k)' \/ HeldAt(c, k, found[j][c].at)']_vars
  <2> SUFFICES ASSUME FlagInv, FoundOK, [Next]_vars, NEW j \in Jobs, Commit(j),
                      NEW c \in Companies, NEW k \in found[j][c].keys
               PROVE  Shown(c, k)' \/ HeldAt(c, k, found[j][c].at)'
    OBVIOUS
  <2>1. /\ todo[j] = {} /\ pc[j] = "visit" /\ found' = found
        /\ \A f \in Rows : f \in raised[j] => status'[f] = "open"
    BY CommitIs DEF FlagInv
  <2>2. CASE k \in found[j][c].skip
    <3>1. PICK t : t = found'[j][c].at
      OBVIOUS
    <3>2. HeldAt(c, k, t)'
      BY <2>1, <2>2, <3>1, StepFound DEF FoundOK
    <3> QED
      BY <3>1, <3>2 DEF HeldAt, Muted
  <2>3. CASE k \notin found[j][c].skip
    <3>1. Visited(j, c)
      BY <2>1 DEF Visited, Running
    <3>2. <<j, c, k>> \in raised[j]
      BY <2>3, <3>1 DEF FoundOK
    <3>3. found[j][c].keys \subseteq FlagKeys
      BY DEF FlagInv, TypeOK
    <3>4. <<j, c, k>> \in Rows /\ <<j, c, k>> \in RowsFor(c, k)
      BY <3>3 DEF Rows, RowsFor, RowsOf, Key
    <3> QED
      BY <2>1, <3>2, <3>4 DEF Shown, RowsFor, RowsOf
  <2> QED
    BY <2>2, <2>3
<1> QED
  BY <1>1, <1>2, <1>3, FlagSafety, PTL DEF Spec, NoAlertLost
-----------------------------------------------------------------------------
(* Steps that show no row as open, take no lock away from a refresh that   *)
(* goes on and start none.                                                 *)
LEMMA SerialStays ==
  ASSUME FlagInv, SerialOK,
         \A f \in Rows : Open(f)' => Open(f),
         \A j \in Jobs : pc'[j] \in Running =>
           /\ pc'[j] = pc[j] /\ todo'[j] = todo[j] /\ co'[j] = co[j]
           /\ cleared'[j] = cleared[j] /\ aim'[j] = aim[j]
           /\ worker = j => worker' = j
  PROVE  SerialOK'
<1>1. \A j \in Jobs : pc'[j] \in Running => worker' = j
  BY DEF SerialOK
<1>2. ASSUME NEW j \in Jobs, NEW c \in Companies, Visited(j, c)', NEW f \in RowsOf(c), Open(f)'
      PROVE  f \in cleared'[j]
  <2>1. Visited(j, c) /\ cleared'[j] = cleared[j]
    BY <1>2 DEF Visited
  <2>2. f \in RowsOf(c) /\ Open(f)
    BY <1>2 DEF RowsOf
  <2> QED
    BY <2>1, <2>2 DEF SerialOK
<1>3. ASSUME NEW j \in Jobs, pc'[j] = "clear", NEW f \in Rows, f[2] = co'[j], Open(f)'
      PROVE  f \in aim'[j]
  <2>1. pc[j] = "clear" /\ co'[j] = co[j] /\ aim'[j] = aim[j]
    BY <1>3 DEF Running
  <2>2. f \in RowsOf(co[j]) /\ Open(f)
    BY <1>3, <2>1 DEF RowsOf
  <2> QED
    BY <2>1, <2>2 DEF SerialOK
<1>4. \A f, g \in Rows : Open(f)' /\ Open(g)' /\ f[2] = g[2] /\ f[3] = g[3] => f = g
  BY DEF SerialOK
<1> QED
  BY <1>1, <1>2, <1>3, <1>4 DEF SerialOK, RowsOf

(* The same rows are open.                                                 *)
LEMMA OpenStays ==
  ASSUME status' = status PROVE \A f \in Rows : Open(f)' <=> Open(f)
BY DEF Open

(* Every step keeps the one refresh alone with the rows it has.            *)
LEMMA StepSerial ==
  ASSUME FlagInv, SerialOK, [Next]_vars, Ops \cap {"inline", "unmute"} = {}
  PROVE  SerialOK'
<1> USE DEF FlagInv
<1>1. ASSUME NEW i \in Jobs, Outside(i) PROVE SerialOK'
  <2>1. UNCHANGED <<status, todo, co, cleared, aim, worker>>
    BY <1>1 DEF Outside, Confirm, Enqueue, AutoConfirm, flags, locals
  <2>2. pc'[i] \in {"confirmed", "queued", "done"} /\ \A h \in Jobs \ {i} : pc'[h] = pc[h]
    BY <1>1, GoIs DEF Outside, Confirm, Enqueue, AutoConfirm
  <2>3. \A j \in Jobs : pc'[j] \in Running => j # i
    BY <2>2 DEF Running
  <2> QED
    BY <2>1, <2>2, <2>3, OpenStays, SerialStays
<1>2. ASSUME NEW i \in Jobs, Start(i) PROVE SerialOK'
  <2>1. /\ pc'[i] = "visit" /\ \A h \in Jobs \ {i} : pc'[h] = pc[h]
        /\ worker = Nobody /\ worker' = i /\ todo'[i] = Companies /\ status' = status
    BY <1>2, GoIs DEF Start, TypeOK, flags
  <2>2. \A h \in Jobs : pc[h] \notin Running
    BY <2>1, FlagJobAssumption DEF SerialOK
  <2>3. \A h \in Jobs : pc'[h] \in Running => h = i
    BY <2>1, <2>2
  <2>4. \A j \in Jobs, c \in Companies : ~Visited(j, c)'
    BY <2>1, <2>3 DEF Visited
  <2>5. \A j \in Jobs : pc'[j] # "clear"
    BY <2>1, <2>2 DEF Running
  <2>6. \A f, g \in Rows : Open(f)' /\ Open(g)' /\ f[2] = g[2] /\ f[3] = g[3] => f = g
    BY <2>1, OpenStays DEF SerialOK
  <2> QED
    BY <2>1, <2>3, <2>4, <2>5, <2>6 DEF SerialOK
<1>3. ASSUME NEW i \in Jobs,
             Aim(i) \/ ReadHeld(i) \/ ClearAndRaise(i) \/ \E d \in Companies : Detect(i, d)
      PROVE  SerialOK'
  <2>1. /\ pc[i] \in Running /\ \A h \in Jobs \ {i} : pc'[h] = pc[h]
        /\ worker' = worker /\ status' = status
    <3>1. Aim(i) \/ ReadHeld(i) \/ ClearAndRaise(i) =>
            /\ pc[i] \in Running /\ \A h \in Jobs \ {i} : pc'[h] = pc[h]
            /\ worker' = worker /\ status' = status
      BY GoIs DEF Aim, ReadHeld, ClearAndRaise, Running, flags
    <3>2. ASSUME NEW d \in Companies, Detect(i, d)
          PROVE  /\ pc[i] \in Running /\ \A h \in Jobs \ {i} : pc'[h] = pc[h]
                 /\ worker' = worker /\ status' = status
      BY <3>2, DetectIs DEF Running
    <3> QED
      BY <1>3, <3>1, <3>2
  <2>2. worker' = i /\ \A j \in Jobs : pc'[j] \in Running => j = i
    BY <2>1 DEF SerialOK
  <2>3. \A f \in Rows : Open(f)' <=> Open(f)
    BY <2>1, OpenStays
  <2>4. ASSUME NEW c \in Companies, Visited(i, c)', NEW f \in RowsOf(c), Open(f)' PROVE f \in cleared'[i]
    <3>1. Open(f) /\ f \in Rows
      BY <2>3, <2>4 DEF RowsOf
    <3>2. CASE Visited(i, c)
      <4>1. f \in cleared[i]
        BY <2>4, <3>1, <3>2 DEF SerialOK
      <4>2. cleared[i] \subseteq cleared'[i]
        <5>1. ClearAndRaise(i) => cleared[i] \subseteq cleared'[i]
          BY ClearIs
        <5> QED
          BY <1>3, <5>1 DEF Aim, ReadHeld, Detect
      <4> QED
        BY <4>1, <4>2
    <3>3. CASE ClearAndRaise(i) /\ co[i] = c
      <4>1. pc[i] = "clear" /\ cleared'[i] = cleared[i] \cup {g \in aim[i] : status[g] = "open"}
        BY <3>3, ClearIs
      <4>2. f \in aim[i]
        BY <2>4, <3>1, <3>3, <4>1 DEF SerialOK
      <4> QED
        BY <3>1, <4>1, <4>2 DEF Open
    <3> QED
      BY <2>4, <3>2, <3>3, VisitedBefore
  <2>5. ASSUME pc'[i] = "clear", NEW f \in Rows, f[2] = co'[i], Open(f)' PROVE f \in aim'[i]
    <3>1. Aim(i)
      <4>1. ReadHeld(i) \/ ClearAndRaise(i) => pc'[i] # "clear"
        BY GoIs DEF ReadHeld, ClearAndRaise
      <4>2. \A d \in Companies : Detect(i, d) => pc'[i] # "clear"
        BY GoIs DEF Detect
      <4> QED
        BY <1>3, <2>5, <4>1, <4>2
    <3>2. aim'[i] = {g \in RowsOf(co[i]) : status[g] = "open"} /\ co' = co
      BY <3>1 DEF Aim, TypeOK
    <3>3. Open(f)
      BY <2>3, <2>5
    <3> QED
      BY <2>5, <3>2, <3>3 DEF Open, RowsOf
  <2>6. \A f, g \in Rows : Open(f)' /\ Open(g)' /\ f[2] = g[2] /\ f[3] = g[3] => f = g
    BY <2>3 DEF SerialOK
  <2>7. \A j \in Jobs, c \in Companies : Visited(j, c)' => j = i
    BY <2>2 DEF Visited
  <2>8. \A j \in Jobs : pc'[j] = "clear" => j = i
    BY <2>2 DEF Running
  <2> QED
    BY <2>2, <2>4, <2>5, <2>6, <2>7, <2>8 DEF SerialOK, RowsOf
<1>4. ASSUME NEW i \in Jobs, Commit(i) PROVE SerialOK'
  <2>1. /\ todo[i] = {} /\ pc[i] = "visit" /\ pc'[i] = "done"
        /\ \A h \in Jobs \ {i} : pc'[h] = pc[h]
        /\ \A f \in Rows : /\ f \in cleared[i] => status'[f] = "cleared"
                           /\ f \notin cleared[i] \cup raised[i] => status'[f] = status[f]
    BY <1>4, CommitIs
  <2>2. \A h \in Jobs : pc'[h] \notin Running
    BY <2>1 DEF SerialOK, Running
  <2>3. ASSUME NEW f \in Rows, Open(f)' PROVE f[1] = i
    <3>1. status'[f] = "open" /\ f \notin cleared[i] /\ f[2] \in Companies /\ f \in RowsOf(f[2])
      BY <2>1, <2>3 DEF Open, RowsOf, Rows
    <3>2. Visited(i, f[2])
      BY <2>1 DEF Visited, Running
    <3>3. ~Open(f)
      BY <3>1, <3>2 DEF SerialOK
    <3>4. f \in raised[i]
      BY <2>1, <3>1, <3>3 DEF Open
    <3> QED
      BY <3>4 DEF LocksOK
  <2>4. ASSUME NEW f \in Rows, NEW g \in Rows, Open(f)', Open(g)', f[2] = g[2], f[3] = g[3] PROVE f = g
    <3>1. f[1] = g[1]
      BY <2>3, <2>4
    <3> QED
      BY <2>4, <3>1 DEF Rows
  <2>5. \A j \in Jobs, c \in Companies : ~Visited(j, c)'
    BY <2>2 DEF Visited
  <2>6. \A j \in Jobs : pc'[j] # "clear"
    BY <2>2 DEF Running
  <2> QED
    BY <2>2, <2>4, <2>5, <2>6 DEF SerialOK
<1>5. ASSUME NEW i \in Jobs, GiveUp(i) PROVE SerialOK'
  <2>1. /\ pc'[i] = "lost" /\ \A h \in Jobs \ {i} : pc'[h] = pc[h] /\ cleared'[h] = cleared[h] /\ aim'[h] = aim[h]
        /\ worker' = IF worker = i THEN Nobody ELSE worker
        /\ UNCHANGED <<status, todo, co>>
    BY <1>5, GiveUpIs
  <2>2. \A j \in Jobs : pc'[j] \in Running => j # i
    BY <2>1 DEF Running
  <2> QED
    BY <2>1, <2>2, OpenStays, SerialStays
<1>6. ASSUME NEW f \in Rows, Snooze(f) \/ Mute(f) PROVE SerialOK'
  <2>1. /\ status'[f] # "open" /\ \A g \in Rows \ {f} : status'[g] = status[g]
        /\ UNCHANGED <<pc, worker, todo, co, cleared, aim>>
    BY <1>6, SetFlagIs DEF Snooze, Mute
  <2>2. \A g \in Rows : Open(g)' => Open(g)
    BY <2>1 DEF Open
  <2> QED
    BY <2>1, <2>2, SerialStays
<1>7. CASE Tick \/ UNCHANGED vars
  <2>1. UNCHANGED <<status, pc, worker, todo, co, cleared, aim>>
    BY <1>7 DEF Tick, vars, flags, locals
  <2> QED
    BY <2>1, OpenStays, SerialStays
<1>8. ~(\E j \in Jobs : RunInline(j)) /\ ~(\E f \in Rows : Unmute(f))
  BY DEF RunInline, Unmute
<1> QED
  BY <1>1, <1>2, <1>3, <1>4, <1>5, <1>6, <1>7, <1>8 DEF Next, Outside, Refresh, Deadlock, Fail

(* When the worker runs all refreshes, one at a time, and nobody unmutes,  *)
(* a condition is on the list once, however many refreshes there are and   *)
(* whatever dies between them.                                             *)
THEOREM OnlyOneShown ==
  ASSUME Ops \cap {"inline", "unmute"} = {} PROVE Spec => []ShownOnce
<1>1. Init => SerialOK
  <2>1. ASSUME Init PROVE SerialOK
    <3>1. \A f \in Rows : Open(f) => f[1] = Nobody
      BY <2>1 DEF Init, Open
    <3>2. ASSUME NEW f \in Rows, NEW g \in Rows, Open(f), Open(g), f[2] = g[2], f[3] = g[3] PROVE f = g
      BY <3>1, <3>2 DEF Rows
    <3>3. \A j \in Jobs : pc[j] = "idle"
      BY <2>1 DEF Init
    <3> QED
      BY <3>2, <3>3 DEF SerialOK, Visited, Running
  <2> QED
    BY <2>1
<1>2. FlagInv /\ SerialOK /\ [Next]_vars => SerialOK'
  BY StepSerial
<1>3. FlagInv /\ SerialOK => ShownOnce
  <2> SUFFICES ASSUME SerialOK, NEW c \in Companies, NEW k \in FlagKeys
               PROVE  Cardinality({f \in RowsFor(c, k) : status[f] = "open"}) <= 1
    BY DEF ShownOnce
  <2> DEFINE S == {f \in RowsFor(c, k) : status[f] = "open"}
  <2>1. \A f, g \in S : f = g
    BY DEF SerialOK, RowsFor, RowsOf, Key, Open
  <2> HIDE DEF S
  <2>2. S = {} \/ \E f \in S : S = {f}
    BY <2>1
  <2>3. Cardinality(S) \in {0, 1}
    BY <2>2, FS_EmptySet, FS_Singleton
  <2>4. Cardinality(S) <= 1
    BY <2>3
  <2> QED
    BY <2>4 DEF S
<1> QED
  BY <1>1, <1>2, <1>3, FlagSafety, PTL DEF Spec

-----------------------------------------------------------------------------
(* The tab.                                                                *)

(* The tab: its locals, the session's troubles, the report. *)
TabTypeOK ==
  /\ api \in {"up", "cold", "broken"} /\ session \in BOOLEAN /\ cookie \in BOOLEAN
  /\ member \in Roles \cup {"none"}
  /\ doubt \in BOOLEAN /\ astray \in BOOLEAN /\ dirty \in BOOLEAN /\ overlap \in BOOLEAN
  /\ tab \in {"gate", "book", "login", "onboard"}

(* While the session, its cookie or the membership is gone, or the API     *)
(* broken, both histories know; and an answer that sends a user away is    *)
(* one that was asked for at such a time.                                  *)
CauseOK ==
  /\ InTrouble => doubt /\ astray
  /\ asked \in {"anon", "needsOrg", "own"} => doubt
  /\ me \in {"anon", "needsOrg"} \/ failed = "own" => astray
  /\ failed \in {"none", "unreachable", "own"}

TabInv == TabTypeOK /\ CauseOK

LEMMA RolesAre == Roles = {"org_admin", "partner", "analyst", "viewer"}
BY DEF Roles

LEMMA AnswersAre ==
  ASSUME TabTypeOK, NEW a \in Answers
  PROVE  /\ a \in Roles \cup {"anon", "needsOrg", "own", "unreachable"}
         /\ a \in {"anon", "needsOrg", "own"} => InTrouble
<1>1. PICK o \in Upstream : a = IF ErrorOf(fetchUpstream(o)) = "none" THEN Me ELSE ErrorOf(fetchUpstream(o))
  BY DEF Answers
<1>2. /\ Me \in Roles \cup {"anon", "needsOrg"}
      /\ Me \in {"anon", "needsOrg"} => InTrouble
  BY DEF Me, InTrouble, TabTypeOK, Roles
<1>3. CASE api = "up"
  <2>1. o \in {"answer", "cut answer"}
    BY <1>3 DEF Upstream
  <2>2. CASE o = "answer"
    <3>1. fetchUpstream(o) = 200
      BY <2>2 DEF fetchUpstream, bffFromUpstream
    <3>2. ErrorOf(fetchUpstream(o)) = "none"
      BY <3>1 DEF ErrorOf
    <3>3. a = Me
      BY <1>1, <3>2
    <3>4. a \in Roles \cup {"anon", "needsOrg"}
      BY <1>2, <3>3
    <3>5. a \in {"anon", "needsOrg"} => InTrouble
      BY <1>2, <3>3
    <3>6. a # "own"
      BY <3>4, RolesAre
    <3> QED
      BY <3>4, <3>5, <3>6
  <2>3. CASE o = "cut answer"
    <3>1. fetchUpstream(o) = 502
      BY <2>3 DEF fetchUpstream, bffFromUpstream
    <3>2. ErrorOf(fetchUpstream(o)) = "unreachable"
      BY <3>1 DEF ErrorOf
    <3> QED
      BY <1>1, <3>2
  <2> QED
    BY <2>1, <2>2, <2>3
<1>4. CASE api = "cold"
  <2>1. o \in {"timeout", "refused"}
    BY <1>4 DEF Upstream
  <2>2. fetchUpstream(o) = 503
    BY <2>1 DEF fetchUpstream, classifyUpstreamFailure
  <2>3. ErrorOf(503) = "unreachable"
    BY DEF ErrorOf
  <2> QED
    BY <1>1, <2>2, <2>3
<1>5. CASE api = "broken"
  <2>1. o = "server error" /\ InTrouble
    BY <1>5 DEF Upstream, InTrouble
  <2>2. fetchUpstream("server error") = 500
    BY DEF fetchUpstream, bffFromUpstream
  <2>3. ErrorOf(500) = "own"
    BY DEF ErrorOf
  <2> QED
    BY <1>1, <2>1, <2>2, <2>3
<1> QED
  BY <1>3, <1>4, <1>5 DEF TabTypeOK

LEMMA InitTab == TabInit => TabInv
<1> SUFFICES ASSUME TabInit PROVE TabInv
  OBVIOUS
<1>1. TabTypeOK
  BY DEF TabInit, TabTypeOK
<1>2. InTrouble => doubt /\ astray
  BY RolesAre DEF TabInit, InTrouble, SignedIn
<1>3. CauseOK
  BY <1>2 DEF TabInit, CauseOK
<1> QED
  BY <1>1, <1>3 DEF TabInv

LEMMA GoToIs ==
  ASSUME TabTypeOK, NEW p, GoTo(p)
  PROVE  /\ tab' = p /\ dirty' \in BOOLEAN /\ overlap' \in BOOLEAN
         /\ UNCHANGED <<refused, report, shown, saving>>
BY DEF GoTo, form_, TabTypeOK

Pages == {"gate", "book", "login", "onboard"}

(* A step that neither asks nor is answered, and what the effects of a     *)
(* page may do with the tab.                                               *)
LEMMA QuietStep ==
  ASSUME TabInv, UNCHANGED <<server, cache>>, tab' \in Pages, dirty' \in BOOLEAN, overlap' \in BOOLEAN
  PROVE  TabInv'
<1>1. TabTypeOK'
  BY DEF TabInv, TabTypeOK, server, cache, Pages
<1>2. CauseOK'
  BY DEF TabInv, CauseOK, InTrouble, SignedIn, server, cache
<1> QED
  BY <1>1, <1>2 DEF TabInv

(* Somebody is sent away, by the gate or by a page that asked itself.      *)
AwayHasCause == tab' # tab /\ tab' \in {"login", "onboard"} => astray'

LEMMA GateStep ==
  ASSUME TabInv, GateReacts \/ HintAnswers \/ LoginLooks \/ OnboardLooks
  PROVE  TabInv' /\ AwayHasCause
<1>1. UNCHANGED <<server, cache>> /\ astray' = astray
  BY DEF GateReacts, HintAnswers, LoginLooks, OnboardLooks, cache
<1>2. tab \in Pages /\ dirty \in BOOLEAN /\ overlap \in BOOLEAN
  BY DEF TabInv, TabTypeOK, Pages
<1>3. CASE UNCHANGED <<tab, editor>>
  <2>1. tab' = tab /\ dirty' = dirty /\ overlap' = overlap
    BY <1>3 DEF editor, form_
  <2> QED
    BY <1>1, <1>2, <2>1, QuietStep DEF AwayHasCause
<1>4. ASSUME NEW p \in Pages, GoTo(p), p \in {"login", "onboard"} => astray
      PROVE  TabInv' /\ AwayHasCause
  <2>1. tab' = p /\ dirty' \in BOOLEAN /\ overlap' \in BOOLEAN
    BY <1>4, GoToIs DEF TabInv
  <2> QED
    BY <1>1, <1>4, <2>1, QuietStep DEF AwayHasCause
<1>5. CASE GateReacts
  <2>1. CASE me = "anon" /\ GoTo("login")
    BY <1>4, <2>1 DEF TabInv, CauseOK, Pages
  <2>2. CASE me = "needsOrg" /\ GoTo("onboard")
    BY <1>4, <2>2 DEF TabInv, CauseOK, Pages
  <2>3. CASE me = "unknown" /\ failed # "none" /\ ~isWakeError(failed) /\ GoTo("login")
    BY <1>4, <2>3 DEF TabInv, CauseOK, Pages, isWakeError
  <2>4. CASE Ready /\ tab = "gate" /\ tab' = "book" /\ UNCHANGED <<looking, refused, editor>>
    <3>1. tab' = "book" /\ dirty' = dirty /\ overlap' = overlap
      BY <2>4 DEF editor, form_
    <3> QED
      BY <1>1, <1>2, <3>1, QuietStep DEF AwayHasCause, Pages
  <2> QED
    BY <1>5, <2>1, <2>2, <2>3, <2>4 DEF GateReacts
<1>6. CASE HintAnswers
  <2>1. CASE cookie
    BY <1>3, <1>6, <2>1 DEF HintAnswers, Stay
  <2>2. CASE ~cookie
    <3>1. astray
      BY <2>2 DEF TabInv, CauseOK, InTrouble, SignedIn
    <3>2. GoTo("login")
      BY <1>6, <2>2 DEF HintAnswers
    <3> QED
      BY <1>4, <3>1, <3>2 DEF Pages
  <2> QED
    BY <2>1, <2>2
<1>7. CASE LoginLooks
  <2>1. PICK answer \in Answers : IF answer \in Roles \cup {"needsOrg"} THEN After(answer)
                                                                      ELSE looking' = FALSE /\ Stay
    BY <1>7 DEF LoginLooks
  <2>2. CASE answer = "needsOrg"
    <3>1. astray
      BY <2>2, AnswersAre DEF TabInv, CauseOK
    <3>2. GoTo("onboard")
      BY <2>1, <2>2 DEF After
    <3> QED
      BY <1>4, <3>1, <3>2 DEF Pages
  <2>3. CASE answer \in Roles /\ answer # "needsOrg"
    <3>1. GoTo("gate")
      BY <2>1, <2>3 DEF After
    <3> QED
      BY <1>4, <3>1 DEF Pages
  <2>4. CASE answer \notin Roles \cup {"needsOrg"}
    BY <1>3, <2>1, <2>4 DEF Stay
  <2> QED
    BY <2>2, <2>3, <2>4
<1>8. CASE OnboardLooks
  <2>1. PICK answer \in Answers :
          \/ answer \in {"anon", "own"} /\ GoTo("login")
          \/ answer \in Roles /\ GoTo("gate")
          \/ answer = "needsOrg" /\ looking' = FALSE /\ Stay
    BY <1>8 DEF OnboardLooks
  <2>2. CASE answer \in {"anon", "own"} /\ GoTo("login")
    <3>1. astray
      BY <2>2, AnswersAre DEF TabInv, CauseOK
    <3> QED
      BY <1>4, <2>2, <3>1 DEF Pages
  <2>3. CASE answer \in Roles /\ GoTo("gate")
    BY <1>4, <2>3 DEF Pages
  <2>4. CASE answer = "needsOrg" /\ looking' = FALSE /\ Stay
    BY <1>3, <2>4 DEF Stay
  <2> QED
    BY <2>1, <2>2, <2>3, <2>4
<1> QED
  BY <1>5, <1>6, <1>7, <1>8

LEMMA TabStep == TabInv /\ [TabNext]_tabVars => TabInv' /\ AwayHasCause
<1> SUFFICES ASSUME TabInv, [TabNext]_tabVars PROVE TabInv' /\ AwayHasCause
  OBVIOUS
<1>1. tab \in Pages /\ dirty \in BOOLEAN /\ overlap \in BOOLEAN
  BY DEF TabInv, TabTypeOK, Pages
<1>2. ASSUME UNCHANGED <<server, cache, tab>>, dirty' \in BOOLEAN, overlap' \in BOOLEAN
      PROVE  TabInv' /\ AwayHasCause
  BY <1>1, <1>2, QuietStep DEF AwayHasCause
<1>3. CASE AskMe \/ WakeRetry
  <2>1. /\ fresh' = TRUE /\ doubt' = InTrouble
        /\ UNCHANGED <<tab, me, failed, astray, server, editor>> /\ asked' = "sent"
    BY <1>3 DEF AskMe, WakeRetry, Ask
  <2>2. TabTypeOK'
    <3>1. doubt' \in BOOLEAN
      BY <2>1 DEF InTrouble
    <3> QED
      BY <2>1, <3>1 DEF TabInv, TabTypeOK, server, editor, form_
  <2>3. CauseOK'
    <3>1. InTrouble' = InTrouble
      BY <2>1 DEF InTrouble, SignedIn, server
    <3> QED
      BY <2>1, <3>1 DEF TabInv, CauseOK
  <2> QED
    BY <2>1, <2>2, <2>3 DEF TabInv, AwayHasCause
<1>4. CASE DedupeEnds
  <2>1. UNCHANGED <<tab, me, failed, asked, doubt, astray, server, editor>>
    BY <1>4 DEF DedupeEnds
  <2>2. TabTypeOK'
    BY <2>1 DEF TabInv, TabTypeOK, server, editor, form_
  <2>3. CauseOK'
    BY <2>1 DEF TabInv, CauseOK, InTrouble, SignedIn, server
  <2> QED
    BY <2>1, <2>2, <2>3 DEF TabInv, AwayHasCause
<1>5. CASE MeAnswered
  <2>1. UNCHANGED <<tab, me, failed, doubt, astray, server, editor>> /\ asked' \in Answers
    BY <1>5 DEF MeAnswered
  <2>2. TabTypeOK'
    BY <2>1 DEF TabInv, TabTypeOK, server, editor, form_
  <2>3. asked' \in {"anon", "needsOrg", "own"} => doubt
    BY <2>1, AnswersAre DEF TabInv, CauseOK
  <2>4. CauseOK'
    BY <2>1, <2>3 DEF TabInv, CauseOK, InTrouble, SignedIn, server
  <2> QED
    BY <2>1, <2>2, <2>4 DEF TabInv, AwayHasCause
<1>6. CASE MeArrives
  <2>1. UNCHANGED <<tab, doubt, server, editor>> /\ asked' = "no"
    BY <1>6 DEF MeArrives
  <2>2. \/ /\ asked \in {"unreachable", "own"} /\ failed' = asked /\ me' = me
           /\ astray' = (astray \/ doubt)
        \/ /\ asked \notin {"unreachable", "own"} /\ failed' = "none" /\ me' = asked
           /\ astray' = doubt
    BY <1>6 DEF MeArrives
  <2>3. TabTypeOK'
    <3>1. astray' \in BOOLEAN
      BY <2>2 DEF TabInv, TabTypeOK
    <3> QED
      BY <2>1, <3>1 DEF TabInv, TabTypeOK, server, editor, form_
  <2>4. InTrouble' = InTrouble
    BY <2>1 DEF InTrouble, SignedIn, server
  <2>5. CauseOK'
    BY <2>1, <2>2, <2>4 DEF TabInv, CauseOK
  <2> QED
    BY <2>1, <2>3, <2>5 DEF TabInv, AwayHasCause
<1>7. CASE GateReacts \/ HintAnswers \/ LoginLooks \/ OnboardLooks
  BY <1>7, GateStep
<1>8. ASSUME UNCHANGED <<me, failed, asked, doubt, astray>>,
             api' \in {"up", "cold", "broken"}, session' \in BOOLEAN, cookie' \in BOOLEAN,
             member' \in Roles \cup {"none"}, InTrouble' => InTrouble,
             tab' \in Pages, dirty' \in BOOLEAN, overlap' \in BOOLEAN
      PROVE  TabInv'
  <2>1. TabTypeOK'
    BY <1>8 DEF TabInv, TabTypeOK, Pages
  <2>2. CauseOK'
    BY <1>8 DEF TabInv, CauseOK
  <2> QED
    BY <2>1, <2>2 DEF TabInv
<1>9. CASE SignIn
  <2>1. /\ session' = TRUE /\ cookie' = TRUE /\ UNCHANGED <<api, member, cache>>
        /\ \/ After(IF member = "none" THEN "needsOrg" ELSE member)
           \/ UNCHANGED <<tab, editor>>
    BY <1>9 DEF SignIn, Stay
  <2>2. InTrouble' => InTrouble
    BY <2>1 DEF InTrouble, SignedIn
  <2>3. api' \in {"up", "cold", "broken"} /\ member' \in Roles \cup {"none"}
    BY <2>1 DEF TabInv, TabTypeOK
  <2>4. UNCHANGED <<me, failed, asked, doubt, astray>>
    BY <2>1 DEF cache
  <2>5. CASE UNCHANGED <<tab, editor>>
    <3>1. tab' = tab /\ dirty' = dirty /\ overlap' = overlap
      BY <2>5 DEF editor, form_
    <3> QED
      BY <1>1, <1>8, <2>1, <2>2, <2>3, <2>4, <3>1 DEF AwayHasCause
  <2>6. CASE After(IF member = "none" THEN "needsOrg" ELSE member)
    <3>1. \/ GoTo("gate")
          \/ member = "none" /\ GoTo("onboard")
      <4>1. CASE member = "none"
        BY <2>6, <4>1 DEF After
      <4>2. CASE member # "none"
        <5>1. member # "needsOrg"
          BY <4>2, RolesAre DEF TabInv, TabTypeOK
        <5> QED
          BY <2>6, <4>2, <5>1 DEF After
      <4> QED
        BY <4>1, <4>2
    <3>2. PICK p \in {"gate", "onboard"} : GoTo(p) /\ (p = "onboard" => member = "none")
      BY <3>1
    <3>3. tab' = p /\ dirty' \in BOOLEAN /\ overlap' \in BOOLEAN
      BY <3>2, GoToIs DEF TabInv
    <3>4. member = "none" => astray
      BY DEF TabInv, CauseOK, InTrouble
    <3>5. TabInv'
      BY <1>8, <2>1, <2>2, <2>3, <2>4, <3>3 DEF Pages
    <3> QED
      BY <2>4, <3>2, <3>3, <3>4, <3>5 DEF AwayHasCause
  <2> QED
    BY <2>1, <2>5, <2>6
<1>10. CASE CreateOrg
  <2>1. member' = "org_admin" /\ GoTo("gate") /\ UNCHANGED <<api, session, cookie, cache>>
    BY <1>10 DEF CreateOrg
  <2>2. InTrouble' => InTrouble
    BY <2>1 DEF InTrouble, SignedIn
  <2>3. tab' = "gate" /\ dirty' \in BOOLEAN /\ overlap' \in BOOLEAN
    BY <2>1, GoToIs DEF TabInv
  <2>4. UNCHANGED <<me, failed, asked, doubt, astray>>
    BY <2>1 DEF cache
  <2>5. /\ api' \in {"up", "cold", "broken"} /\ session' \in BOOLEAN /\ cookie' \in BOOLEAN
        /\ member' \in Roles \cup {"none"}
    BY <2>1 DEF TabInv, TabTypeOK, Roles
  <2> QED
    BY <1>8, <2>2, <2>3, <2>4, <2>5 DEF AwayHasCause, Pages
(* Once both histories know, anything may have happened. *)
<1>11. ASSUME doubt' = TRUE, astray' = TRUE, failed' \in {failed, "none"},
              api' \in {"up", "cold", "broken"}, session' \in BOOLEAN, cookie' \in BOOLEAN,
              member' \in Roles \cup {"none"}, tab' \in Pages, dirty' \in BOOLEAN, overlap' \in BOOLEAN
       PROVE  TabInv' /\ AwayHasCause
  <2>1. TabTypeOK'
    BY <1>11 DEF TabTypeOK, Pages
  <2>2. CauseOK'
    BY <1>11 DEF TabInv, CauseOK
  <2> QED
    BY <1>11, <2>1, <2>2 DEF TabInv, AwayHasCause
<1>12. CASE SignOut
  <2>1. /\ session' = FALSE /\ cookie' = FALSE /\ failed' = "none" /\ doubt' = TRUE /\ astray' = TRUE
        /\ GoTo("login") /\ UNCHANGED <<api, member>>
    BY <1>12 DEF SignOut
  <2>2. tab' = "login" /\ dirty' \in BOOLEAN /\ overlap' \in BOOLEAN
    BY <2>1, GoToIs DEF TabInv
  <2>3. api' \in {"up", "cold", "broken"} /\ member' \in Roles \cup {"none"}
    BY <2>1 DEF TabInv, TabTypeOK
  <2> QED
    BY <1>11, <2>1, <2>2, <2>3 DEF Pages
<1>13. CASE SessionEnds \/ MembershipEnds
  <2>1. /\ Troubled /\ UNCHANGED <<api, tab, failed, editor>>
        /\ session' \in {session, FALSE} /\ cookie' \in {cookie, FALSE} /\ member' \in {member, "none"}
    BY <1>13 DEF SessionEnds, MembershipEnds
  <2>2. dirty' = dirty /\ overlap' = overlap
    BY <2>1 DEF editor, form_
  <2>3. doubt' = TRUE /\ astray' = TRUE
    BY <2>1 DEF Troubled
  <2>4. /\ api' \in {"up", "cold", "broken"} /\ session' \in BOOLEAN /\ cookie' \in BOOLEAN
        /\ member' \in Roles \cup {"none"}
    BY <2>1 DEF TabInv, TabTypeOK
  <2> QED
    BY <1>1, <1>11, <2>1, <2>2, <2>3, <2>4
<1>14. CASE RoleChanges
  <2>1. member' \in Roles /\ UNCHANGED <<api, session, cookie, cache, tab, editor>>
    BY <1>14 DEF RoleChanges, gate
  <2>2. InTrouble' => InTrouble
    BY <2>1, RolesAre DEF InTrouble, SignedIn
  <2>3. dirty' = dirty /\ overlap' = overlap /\ UNCHANGED <<me, failed, asked, doubt, astray>>
    BY <2>1 DEF editor, form_, cache
  <2>4. api' \in {"up", "cold", "broken"} /\ session' \in BOOLEAN /\ cookie' \in BOOLEAN
    BY <2>1 DEF TabInv, TabTypeOK
  <2> QED
    BY <1>1, <1>8, <2>1, <2>2, <2>3, <2>4 DEF AwayHasCause
<1>15. CASE ApiTurns
  <2>1. /\ api' \in {"up", "cold", "broken"}
        /\ UNCHANGED <<session, cookie, member, tab, me, failed, asked, editor>>
        /\ IF api' = "broken" THEN Troubled ELSE UNCHANGED <<doubt, astray>>
    BY <1>15 DEF ApiTurns
  <2>2. dirty' = dirty /\ overlap' = overlap
    BY <2>1 DEF editor, form_
  <2>3. session' \in BOOLEAN /\ cookie' \in BOOLEAN /\ member' \in Roles \cup {"none"}
    BY <2>1 DEF TabInv, TabTypeOK
  <2>4. CASE api' = "broken"
    BY <1>1, <1>11, <2>1, <2>2, <2>3, <2>4 DEF Troubled
  <2>5. CASE api' # "broken"
    <3>1. InTrouble' => InTrouble
      BY <2>1, <2>5 DEF InTrouble, SignedIn
    <3> QED
      BY <1>1, <1>8, <2>1, <2>2, <2>3, <2>5, <3>1 DEF AwayHasCause
  <2> QED
    BY <2>4, <2>5
<1>16. CASE ColleagueSaves \/ RenderEnds
  <2>1. UNCHANGED <<api, session, cookie, member, cache, tab, dirty>> /\ overlap' = (overlap \/ dirty \/ saving # None)
    BY <1>16 DEF ColleagueSaves, RenderEnds, gate
  <2>2. overlap' \in BOOLEAN /\ dirty' \in BOOLEAN
    BY <1>1, <2>1
  <2>3. InTrouble' = InTrouble
    BY <2>1 DEF InTrouble, SignedIn
  <2>4. /\ api' \in {"up", "cold", "broken"} /\ session' \in BOOLEAN /\ cookie' \in BOOLEAN
        /\ member' \in Roles \cup {"none"} /\ UNCHANGED <<me, failed, asked, doubt, astray>>
    BY <2>1 DEF TabInv, TabTypeOK, cache
  <2> QED
    BY <1>1, <1>8, <2>1, <2>2, <2>3, <2>4 DEF AwayHasCause
<1>17. CASE \/ Click \/ (\E piece \in Pieces : Type(piece))
            \/ Save \/ SaveLands \/ SaveFails \/ Reload \/ FocusReport \/ UNCHANGED tabVars
  <2>1. UNCHANGED <<server, cache, tab>>
    BY <1>17 DEF Click, Type, Save, SaveLands, SaveFails, Reload, FocusReport, tabVars, gate
  <2>2. dirty' \in BOOLEAN
    BY <1>1, <1>17 DEF Click, Type, Save, SaveLands, SaveFails, Reload, FocusReport, Reset, tabVars, editor, form_
  <2>3. overlap' \in BOOLEAN
    BY <1>1, <1>17 DEF Click, Type, Save, SaveLands, SaveFails, Reload, FocusReport, tabVars, editor, form_
  <2> QED
    BY <1>2, <2>1, <2>2, <2>3
<1> QED
  BY <1>3, <1>4, <1>5, <1>6, <1>7, <1>9, <1>10, <1>12, <1>13, <1>14, <1>15, <1>16, <1>17 DEF TabNext

(* Nobody is sent away from the gate or the book for a slow, cold or cut   *)
(* answer: only if the session, the cookie or the membership was gone, or  *)
(* the API broken, since the answer in the cache was asked for (Shell.tsx, *)
(* bff-proxy.ts, wake.ts).                                                 *)
THEOREM NobodyIsThrownOut == TabSpec => AwayOnlyWithCause
<1>1. TabInv /\ [TabNext]_tabVars => [AwayHasCause]_tabVars
  BY TabStep
<1> QED
  BY InitTab, TabStep, <1>1, PTL DEF TabSpec, AwayOnlyWithCause, AwayHasCause

-----------------------------------------------------------------------------
(* What a page offers to a role the API permits it.                        *)
LEMMA OffersArePermitted ==
  ASSUME NEW role \in Roles, NEW offer \in Offers(role)
  PROVE  Permits(role, offer)
<1>1. \A x \in {"export", "ask", "download"} : Permits(role, x)
  BY DEF Permits, requireOrg
<1>2. ASSUME isWriteRole(role), NEW x \in requireWrite \cup requireOrg PROVE Permits(role, x)
  <2>1. role \in WriteRoles
    BY <1>2 DEF isWriteRole, WriteRoles, Roles
  <2> QED
    BY <1>2, <2>1 DEF Permits
<1>3. ASSUME isLockRole(role), NEW x \in requireLock \cup requireOrg PROVE Permits(role, x)
  BY <1>3 DEF isLockRole, LockRoles, Permits
<1>4. ASSUME isAdminRole(role), NEW x \in requireAdmin PROVE Permits(role, x)
  BY <1>4 DEF isAdminRole, Permits
<1>5. CASE offer \in {"export", "ask", "download"}
  BY <1>1, <1>5
<1>6. CASE isWriteRole(role) /\ offer \in requireWrite \cup requireOrg
  BY <1>2, <1>6
<1>7. CASE isLockRole(role) /\ offer \in requireLock \cup requireOrg
  BY <1>3, <1>7
<1>8. CASE isAdminRole(role) /\ offer \in requireAdmin
  BY <1>4, <1>8
<1>9. CASE offer \in ConfirmOffers(role) \cup FlagsOffers(role) \cup NavMarkOffers(role) \cup ReportsOffers(role)
                         \cup CompanyOffers(role) \cup CompanyLinksOffers(role) \cup NewCompanyOffers(role)
  <2>1. isWriteRole(role) /\ offer \in requireWrite
    BY <1>9 DEF ConfirmOffers, FlagsOffers, NavMarkOffers, ReportsOffers, CompanyOffers, CompanyLinksOffers,
      NewCompanyOffers, If, requireWrite
  <2> QED
    BY <1>6, <2>1
<1>10. CASE offer \in NavLockOffers(role)
  <2>1. isLockRole(role) /\ offer \in requireLock \cup requireOrg
    BY <1>10 DEF NavLockOffers, If, requireLock, requireOrg
  <2> QED
    BY <1>7, <2>1
<1>11. CASE offer \in SettingsFirmOffers(role) \cup SettingsPeopleOffers(role) \cup ConnectorsOffers(role)
  <2>1. isAdminRole(role) /\ offer \in requireAdmin
    BY <1>11 DEF SettingsFirmOffers, SettingsPeopleOffers, ConnectorsOffers, If, requireAdmin
  <2> QED
    BY <1>8, <2>1
<1>12. CASE offer \in ReportOffers(role) \cup SettingsPolicyOffers(role) \cup AskOffers(role) \cup SourcesOffers(role)
  <2>1. \/ offer \in {"export", "ask", "download"}
        \/ isWriteRole(role) /\ offer \in requireWrite
        \/ isAdminRole(role) /\ offer \in requireAdmin
    BY <1>12 DEF ReportOffers, SettingsPolicyOffers, AskOffers, SourcesOffers, If, requireWrite, requireAdmin
  <2> QED
    BY <1>5, <1>6, <1>8, <2>1
<1> QED
  BY <1>9, <1>10, <1>11, <1>12 DEF Offers

(* A control that a page shows is refused for the role only when the role in the cache is no     *)
(* longer that of the membership: what the pages offer to a role, the API's guards permit it,    *)
(* request by request (lib/roles.ts and the pages against requireWrite and requireAdmin of      *)
(* context.ts).                                                                                  *)
THEOREM RefusalsAreStale == TabSpec => RefusedOnlyWhenStale
<1>1. ASSUME [TabNext]_tabVars PROVE refused' /\ ~refused => me # member
  <2>1. CASE Click
    <3>1. SUFFICES ASSUME refused', me = member PROVE FALSE
      OBVIOUS
    <3>2. PICK offer \in Offers(me) : refused' = (CanRead /\ ~Permits(member, offer))
      BY <2>1 DEF Click
    <3>3. me \in Roles
      BY <2>1 DEF Click, Ready
    <3> QED
      BY <3>1, <3>2, <3>3, OffersArePermitted
  <2>2. CASE ~Click
    <3>1. refused' = refused
      BY <1>1, <2>2 DEF TabNext, AskMe, WakeRetry, Ask, DedupeEnds, MeAnswered, MeArrives, GateReacts, HintAnswers,
        LoginLooks, SignIn, OnboardLooks, CreateOrg, SignOut, Type, Save, SaveLands, SaveFails, Reload,
        FocusReport, SessionEnds, MembershipEnds, RoleChanges, ApiTurns, ColleagueSaves, RenderEnds,
        GoTo, After, Stay, tabVars
    <3> QED
      BY <3>1
  <2> QED
    BY <2>1, <2>2
<1> QED
  BY <1>1, PTL DEF TabSpec, RefusedOnlyWhenStale

-----------------------------------------------------------------------------
(* Unless unsaved text met a save or another row: what was typed is in the *)
(* form, and at the API as soon as the editor has nothing to save or shows *)
(* another row than the API has; a save on its way carries all of it.      *)
Kept == typed \ Overlong

TextOK ==
  /\ DOMAIN report = {"text", "artifact"}
  /\ saving # None => DOMAIN saving = {"text", "landed"}
  /\ ~overlap =>
       /\ Kept \subseteq form
       /\ ~dirty \/ shown # report => Kept \subseteq report.text
       /\ saving # None /\ ~saving.landed => Kept \subseteq saving.text

LEMMA ResetKeeps ==
  ASSUME TextOK, Reset(report), UNCHANGED <<report, typed, overlap>>, saving' \in {saving, None}
  PROVE  TextOK'
BY DEF TextOK, Reset, Kept

LEMMA LeavingKeeps ==
  ASSUME TextOK, NEW p, GoTo(p)
  PROVE  TextOK'
<1>1. CASE tab = "book"
  BY <1>1 DEF GoTo, TextOK, Kept
<1>2. CASE tab # "book"
  BY <1>2 DEF GoTo, TextOK, form_, Kept
<1> QED
  BY <1>1, <1>2

LEMMA TextStep == TextOK /\ [TabNext]_tabVars => TextOK'
<1> SUFFICES ASSUME TextOK, [TabNext]_tabVars PROVE TextOK'
  OBVIOUS
<1>1. ASSUME UNCHANGED editor PROVE TextOK'
  BY <1>1 DEF editor, form_, TextOK, Kept
<1>2. CASE AskMe \/ WakeRetry \/ DedupeEnds \/ MeAnswered \/ MeArrives \/ Click
           \/ SessionEnds \/ MembershipEnds \/ RoleChanges \/ ApiTurns \/ UNCHANGED tabVars
  BY <1>1, <1>2 DEF AskMe, WakeRetry, Ask, DedupeEnds, MeAnswered, MeArrives, Click,
    SessionEnds, MembershipEnds, RoleChanges, ApiTurns, tabVars
<1>3. CASE GateReacts \/ HintAnswers \/ LoginLooks \/ SignIn \/ OnboardLooks \/ CreateOrg \/ SignOut
  <2>1. UNCHANGED editor \/ \E p : GoTo(p)
    BY <1>3 DEF GateReacts, HintAnswers, LoginLooks, SignIn, OnboardLooks, CreateOrg, SignOut, After, Stay
  <2> QED
    BY <1>1, <2>1, LeavingKeeps
<1>4. ASSUME NEW piece \in Pieces, Type(piece) PROVE TextOK'
  <2>1. /\ form' = form \cup {piece} /\ typed' = typed \cup {piece} /\ dirty' = TRUE
        /\ overlap' = (overlap \/ saving # None \/ shown # report)
        /\ UNCHANGED <<report, shown, saving>>
    BY <1>4 DEF Type
  <2>2. ASSUME ~overlap' PROVE ~overlap /\ saving = None /\ shown = report
    BY <2>1, <2>2
  <2> QED
    BY <2>1, <2>2 DEF TextOK, Kept
<1>5. CASE Save
  <2>1. /\ dirty /\ saving' = [text |-> form, landed |-> FALSE]
        /\ UNCHANGED <<report, shown, form, dirty, typed, overlap>>
    BY <1>5 DEF Save, form_
  <2>2. saving'.text = form /\ DOMAIN saving' = {"text", "landed"}
    BY <2>1
  <2> QED
    BY <2>1, <2>2 DEF TextOK, Kept
<1>6. CASE SaveLands
  <2>1. /\ saving # None /\ ~saving.landed /\ report' = [report EXCEPT !.text = saving.text \ Overlong]
        /\ UNCHANGED <<shown, form, typed, overlap>>
        /\ saving' = [saving EXCEPT !.landed = TRUE] \/ saving' = None
    BY <1>6 DEF SaveLands
  <2>2. saving' # None => DOMAIN saving' = {"text", "landed"} /\ saving'.landed
    BY <2>1 DEF TextOK
  <2>3. DOMAIN report' = {"text", "artifact"} /\ report'.text = saving.text \ Overlong
    BY <2>1 DEF TextOK
  <2> QED
    BY <2>1, <2>2, <2>3 DEF TextOK, Kept
<1>7. CASE SaveFails
  BY <1>7 DEF SaveFails, form_, TextOK, Kept
<1>8. CASE Reload
  <2>1. CASE CanRead
    BY <1>8, <2>1, ResetKeeps DEF Reload
  <2>2. CASE ~CanRead
    BY <1>8, <2>2 DEF Reload, TextOK, Kept
  <2> QED
    BY <2>1, <2>2
<1>9. CASE FocusReport
  BY <1>9, ResetKeeps DEF FocusReport
<1>10. CASE ColleagueSaves \/ RenderEnds
  <2>1. /\ \/ report' = [report EXCEPT !.text = @ \cup {Theirs}]
           \/ \E a : report' = [report EXCEPT !.artifact = a]
        /\ overlap' = (overlap \/ dirty \/ saving # None)
        /\ UNCHANGED <<shown, saving, form, dirty, typed>>
    BY <1>10 DEF ColleagueSaves, RenderEnds
  <2>2. ASSUME ~overlap' PROVE ~overlap /\ ~dirty /\ saving = None
    BY <2>1, <2>2
  <2>3. DOMAIN report' = {"text", "artifact"} /\ report.text \subseteq report'.text
    BY <2>1 DEF TextOK
  <2> QED
    BY <2>1, <2>2, <2>3 DEF TextOK, Kept
<1> QED
  BY <1>2, <1>3, <1>4, <1>5, <1>6, <1>7, <1>8, <1>9, <1>10 DEF TabNext

(* What was typed into an open report is in the editor or at the API, as   *)
(* far as the API keeps it, unless it met a save, a text of others or the  *)
(* end of a render (reports/[id]/page.tsx).                                *)
THEOREM TypingSurvives == TabSpec => []TypedIsKept
<1>1. TabInit => TextOK
  BY DEF TabInit, TextOK, Kept
<1>2. TextOK => TypedIsKept
  BY DEF TextOK, Kept, TypedIsKept
<1> QED
  BY <1>1, <1>2, TextStep, PTL DEF TabSpec

-----------------------------------------------------------------------------
(* The Confirm page.                                                       *)

AllPending(list) == \A i \in DOMAIN list : list[i] = "pending"

(* The list of pending items, held or on its way, holds what was pending   *)
(* when it was read.                                                       *)
ListsOK ==
  /\ DOMAIN lists = Filters /\ DOMAIN reading = Filters
  /\ lists["pending"] # Nil => AllPending(lists["pending"])
  /\ reading["pending"] \notin {Nil, Sent} => AllPending(reading["pending"])

RequestFields == {"item", "what", "stage", "here", "drawn", "seen", "keptOver"}

(* A click was on a row seen as pending, or on one of another status that  *)
(* stood in.                                                               *)
RequestOK(r) ==
  /\ DOMAIN r = RequestFields /\ r.item \in Items
  /\ r.seen = "pending" \/ r.keptOver

SentOK == DOMAIN request = Slots /\ \A k \in Slots : request[k] # Nil => RequestOK(request[k])

(* An item whose figure is booked stays decided. *)
DecidedOK ==
  /\ DOMAIN inbox = Items
  /\ \A i \in booked : i \in Items /\ inbox[i] \in {"confirmed", "rejected"}

(* The request of an item that was never beside another is the page's only *)
(* one, and has its buttons disabled.                                      *)
AloneOK ==
  \A i \in Items \ beside : \A k \in Of(i) :
    /\ request[k].here /\ busy = i
    /\ \A x \in UnderWay : request[x].here => x = k
    /\ Of(i) = {k}

PageInv == ListsOK /\ SentOK /\ DecidedOK /\ AloneOK

(* What is drawn of the rows does not matter to the requests. *)
SameRequests ==
  /\ DOMAIN request' = Slots
  /\ \A k \in Slots : request[k] = Nil => request'[k] = Nil
  /\ \A k \in Slots : request[k] # Nil =>
       /\ DOMAIN request'[k] = RequestFields
       /\ \A f \in RequestFields \ {"drawn"} : request'[k][f] = request[k][f]

(* A question is asked, or none. *)
LEMMA AskingKeeps ==
  ASSUME ListsOK, NEW s, OnMount(s) \/ Question(s) \/ UNCHANGED reading, UNCHANGED lists
  PROVE  ListsOK'
<1>1. reading' = reading \/ reading' = [reading EXCEPT ![s] = Sent]
  BY DEF OnMount, Question
<1>2. DOMAIN reading' = Filters /\ reading'["pending"] \in {reading["pending"], Sent}
  BY <1>1, ConfirmPageAssumption DEF ListsOK
<1> QED
  BY <1>2 DEF ListsOK, AllPending

LEMMA SameSent ==
  ASSUME SentOK, SameRequests
  PROVE  SentOK'
BY DEF SentOK, SameRequests, RequestOK, RequestFields

(* Fewer requests are under way, each as it was. *)
LEMMA FewerAlone ==
  ASSUME AloneOK, UnderWay' \subseteq UnderWay, UNCHANGED busy, beside \subseteq beside',
         \A k \in UnderWay' : request'[k].here = request[k].here /\ request'[k].item = request[k].item
  PROVE  AloneOK'
<1>1. \A i : Of(i)' \subseteq Of(i)
  BY DEF Of
<1> QED
  BY <1>1 DEF AloneOK, Of

LEMMA SameAlone ==
  ASSUME SentOK, AloneOK, SameRequests, UNCHANGED <<busy, beside>>
  PROVE  AloneOK'
<1>1. \A k \in Slots : request[k] # Nil =>
        request'[k].stage = request[k].stage /\ request'[k].here = request[k].here /\ request'[k].item = request[k].item
  BY DEF SameRequests, RequestFields
<1>2. UnderWay' \subseteq UnderWay /\ \A k \in UnderWay : request'[k].here = request[k].here /\ request'[k].item = request[k].item
  BY <1>1 DEF UnderWay, SameRequests
<1> QED
  BY <1>2, FewerAlone

LEMMA ShowKeeps ==
  ASSUME SentOK, AloneOK, Show, UNCHANGED <<busy, beside>>
  PROVE  SentOK' /\ AloneOK'
<1>1. SameRequests
  <2>1. DOMAIN request' = Slots
    BY DEF Show
  <2>2. ASSUME NEW k \in Slots
        PROVE  request'[k] \in {request[k], [request[k] EXCEPT !.drawn = FALSE]} /\ (request[k] = Nil => request'[k] = Nil)
    BY DEF Show
  <2>3. \A k \in Slots : request[k] # Nil => DOMAIN request[k] = RequestFields
    BY DEF SentOK, RequestOK
  <2>4. ASSUME NEW k \in Slots, request[k] # Nil
        PROVE  /\ DOMAIN request'[k] = RequestFields
               /\ \A f \in RequestFields \ {"drawn"} : request'[k][f] = request[k][f]
    BY <2>2, <2>3, <2>4
  <2> QED
    BY <2>1, <2>2, <2>4 DEF SameRequests
<1> QED
  BY <1>1, SameSent, SameAlone

LEMMA InitPage == PageInit => PageInv
<1> SUFFICES ASSUME PageInit PROVE PageInv
  OBVIOUS
<1>1. ListsOK
  BY ConfirmPageAssumption DEF PageInit, ListsOK
<1>2. SentOK /\ DecidedOK
  BY DEF PageInit, SentOK, DecidedOK
<1>3. AloneOK
  BY DEF PageInit, AloneOK, Of, UnderWay
<1> QED
  BY <1>1, <1>2, <1>3 DEF PageInv

(* A click is on a row that is enabled, so that no request of its item is  *)
(* under way alone; and whoever was alone before is beside it now.         *)
LEMMA SendKeeps ==
  ASSUME PageInv, NEW i \in Items, NEW what, Enabled(i), Send(i, what)
  PROVE  SentOK' /\ AloneOK'
<1> DEFINE others == {x \in UnderWay \ Of(i) : request[x].here}
           new == Posted(i, what)
<1>1. i \in visible /\ filter = "pending" /\ busy # i
  BY DEF Enabled, WithButtons
<1>2. List # Nil /\ i \in DOMAIN List
  BY <1>1 DEF visible
<1>3. List[i] = "pending" \/ KeptOver
  BY <1>1, <1>2 DEF PageInv, ListsOK, AllPending, List, KeptOver
<1>4. PICK k \in Slots :
        /\ request[k] = Nil
        /\ request' = [request EXCEPT ![k] = new]
        /\ beside' = IF others = {} THEN beside ELSE beside \cup {i} \cup ItemsOf(others)
        /\ busy' = i
  BY DEF Send, Post
<1>5. RequestOK(new) /\ new.here /\ new.item = i
  BY <1>3 DEF Posted, RequestOK, RequestFields
<1> HIDE DEF new, others
<1>6. /\ DOMAIN request = Slots /\ DOMAIN request' = Slots
      /\ request'[k] = new /\ \A x \in Slots \ {k} : request'[x] = request[x]
  BY <1>4 DEF PageInv, SentOK
<1>7. SentOK'
  BY <1>5, <1>6 DEF PageInv, SentOK, RequestOK
<1>8. UnderWay' \subseteq UnderWay \cup {k} /\ k \notin UnderWay
  BY <1>4, <1>6 DEF UnderWay
<1>9. ASSUME NEW j \in Items \ beside', NEW x \in Of(j)'
      PROVE  /\ request'[x].here /\ busy' = j
             /\ \A y \in UnderWay' : request'[y].here => y = x
             /\ Of(j)' = {x}
  <2>1. beside \subseteq beside' /\ j \notin beside
    BY <1>4, <1>9
  <2>2. x \in UnderWay'
    BY <1>9 DEF Of
  <2>3. CASE j # i
    <3>1. x # k
      BY <1>5, <1>6, <1>9, <2>3 DEF Of
    <3>2. x \in Of(j) /\ x \in UnderWay
      BY <1>6, <1>8, <1>9, <2>2, <3>1 DEF Of, UnderWay
    <3>3. request[x].here /\ request[x].item = j
      BY <1>9, <2>1, <3>2 DEF PageInv, AloneOK, Of
    <3>4. x \in others
      BY <2>3, <3>2, <3>3 DEF others, Of
    <3>5. j \in beside'
      BY <1>4, <3>3, <3>4 DEF ItemsOf
    <3> QED
      BY <1>9, <3>5
  <2>4. CASE j = i
    <3>1. others = {}
      BY <1>4, <1>9, <2>4
    <3>2. Of(i) = {}
      BY <1>1, <2>1, <2>4 DEF PageInv, AloneOK
    <3>3. ASSUME NEW y \in UnderWay', request'[y].here PROVE y = k
      <4>1. CASE y # k
        <5>1. y \in UnderWay /\ request[y].here
          BY <1>6, <1>8, <3>3, <4>1 DEF UnderWay
        <5> QED
          BY <3>1, <3>2, <5>1 DEF others
      <4> QED
        BY <4>1
    <3>4. \A y \in Of(i)' : y = k
      BY <1>6, <1>8, <3>2 DEF Of, UnderWay
    <3>5. x = k /\ Of(i)' = {x}
      BY <1>9, <2>4, <3>4
    <3> QED
      BY <1>4, <1>5, <1>6, <2>4, <3>3, <3>5
  <2> QED
    BY <2>3, <2>4
<1> QED
  BY <1>7, <1>9 DEF AloneOK

(* An answer enables the buttons of every row, but only on the page its    *)
(* request was sent from, where another's that is alone is not under way.  *)
LEMMA ReturnKeeps ==
  ASSUME PageInv, NEW k \in Slots, request[k] # Nil, request[k].stage # "adrift", NEW stage, Return(k, stage)
  PROVE  SentOK' /\ AloneOK'
<1> DEFINE r == request[k]
           left == IF stage = "sent" THEN [r EXCEPT !.stage = "adrift"] ELSE Nil
<1>1. /\ busy' = IF r.here THEN Nil ELSE busy
      /\ beside' = IF Of(r.item) = {k} THEN beside \ {r.item} ELSE beside
      /\ request' = [request EXCEPT ![k] = left]
  BY DEF Return
<1>2. k \in UnderWay /\ RequestOK(r)
  BY DEF UnderWay, PageInv, SentOK
<1>3. left # Nil => RequestOK(left) /\ left.stage = "adrift"
  BY <1>2 DEF RequestOK, RequestFields
<1> HIDE DEF left
<1>4. /\ DOMAIN request = Slots /\ DOMAIN request' = Slots
      /\ request'[k] = left /\ \A x \in Slots \ {k} : request'[x] = request[x]
  BY <1>1 DEF PageInv, SentOK
<1>5. SentOK'
  BY <1>3, <1>4 DEF PageInv, SentOK, RequestOK
<1>6. UnderWay' \subseteq UnderWay /\ k \notin UnderWay' /\ \A x \in UnderWay' : request'[x] = request[x]
  BY <1>3, <1>4 DEF UnderWay
<1>7. ASSUME NEW j \in Items \ beside', NEW x \in Of(j)'
      PROVE  /\ request'[x].here /\ busy' = j
             /\ \A y \in UnderWay' : request'[y].here => y = x
             /\ Of(j)' = {x}
  <2>1. x \in UnderWay' /\ x \in Of(j) /\ x # k
    BY <1>6, <1>7 DEF Of
  <2>2. j \notin beside
    BY <1>1, <1>7, <2>1
  <2>3. /\ request[x].here /\ busy = j /\ Of(j) = {x}
        /\ \A y \in UnderWay : request[y].here => y = x
    BY <1>7, <2>1, <2>2 DEF PageInv, AloneOK
  <2>4. busy' = j
    BY <1>1, <1>2, <2>1, <2>3
  <2>5. Of(j)' \subseteq Of(j)
    BY <1>6 DEF Of
  <2> QED
    BY <1>6, <1>7, <2>1, <2>3, <2>4, <2>5
<1> QED
  BY <1>5, <1>7 DEF AloneOK

LEMMA AnsweredKeeps ==
  ASSUME PageInv, NEW k \in Slots, request[k] # Nil, NEW how, how # "adrift", request[k].stage \in {"sent", "adrift"},
         Answered(k, how), UNCHANGED <<busy, beside>>
  PROVE  SentOK' /\ AloneOK'
<1> DEFINE left == IF request[k].stage = "adrift" THEN Nil ELSE [request[k] EXCEPT !.stage = how]
<1>1. RequestOK(request[k]) /\ DOMAIN request = Slots
  BY DEF PageInv, SentOK
<1>2. left # Nil =>
        RequestOK(left) /\ left.here = request[k].here /\ left.item = request[k].item /\ request[k].stage = "sent"
  BY <1>1 DEF RequestOK, RequestFields
<1>3. /\ DOMAIN request' = Slots
      /\ request'[k] = left /\ \A x \in Slots \ {k} : request'[x] = request[x]
  BY <1>1 DEF Answered
<1> HIDE DEF left
<1>4. SentOK'
  BY <1>2, <1>3 DEF PageInv, SentOK, RequestOK
<1>5. /\ UnderWay' \subseteq UnderWay
      /\ \A x \in UnderWay' : request'[x].here = request[x].here /\ request'[x].item = request[x].item
  BY <1>2, <1>3 DEF UnderWay
<1> QED
  BY <1>4, <1>5, FewerAlone DEF PageInv

(* The page is opened anew: whatever is under way is beside what it sends. *)
LEMMA ReopenKeeps ==
  ASSUME PageInv, Reopen
  PROVE  SentOK' /\ AloneOK'
<1>1. /\ request' = [k \in Slots |-> IF request[k] = Nil THEN Nil
                                      ELSE [request[k] EXCEPT !.here = FALSE, !.drawn = FALSE]]
      /\ beside' = beside \cup ItemsOf(UnderWay)
  BY DEF Reopen
<1>2. \A k \in Slots : request[k] # Nil => RequestOK(request[k])
  BY DEF PageInv, SentOK
<1>3. ASSUME NEW k \in Slots, request'[k] # Nil
      PROVE  /\ request[k] # Nil /\ RequestOK(request'[k])
             /\ request'[k].item = request[k].item /\ request'[k].stage = request[k].stage
  BY <1>1, <1>2, <1>3 DEF RequestOK, RequestFields
<1>4. SentOK'
  BY <1>1, <1>3 DEF SentOK, RequestOK
<1>5. ASSUME NEW j \in Items \ beside', NEW x \in Of(j)' PROVE FALSE
  <2>1. x \in UnderWay /\ request[x].item = j
    BY <1>3, <1>5 DEF Of, UnderWay
  <2>2. j \in beside'
    BY <1>1, <2>1 DEF ItemsOf
  <2> QED
    BY <1>5, <2>2
<1> QED
  BY <1>4, <1>5 DEF AloneOK

(* Nobody rejects what they were shown as booked. *)
RejectedUnseen ==
  \A i \in booked :
    inbox[i] # "rejected" /\ inbox'[i] = "rejected" =>
      \E k \in Slots : request[k] # Nil /\ request[k].item = i /\ (request[k].seen = "pending" \/ request[k].keptOver)

LEMMA PageStep == PageInv /\ [PageNext]_pageVars => PageInv' /\ RejectedUnseen
<1> SUFFICES ASSUME PageInv, [PageNext]_pageVars PROVE PageInv' /\ RejectedUnseen
  OBVIOUS
<1> USE DEF PageInv
<1>1. ASSUME UNCHANGED book PROVE DecidedOK' /\ RejectedUnseen
  BY <1>1 DEF book, DecidedOK, RejectedUnseen
<1>2. ASSUME UNCHANGED <<request, busy, beside>> PROVE SentOK' /\ AloneOK'
  BY <1>2 DEF SentOK, RequestOK, AloneOK, Of, UnderWay
<1>3. ASSUME UNCHANGED <<lists, reading>> PROVE ListsOK'
  BY <1>3 DEF ListsOK, AllPending
<1>4. CASE AskList
  <2>1. ListsOK'
    BY <1>4, AskingKeeps DEF AskList
  <2> QED
    BY <1>1, <1>2, <1>4, <2>1 DEF AskList, page
<1>5. ASSUME NEW s \in Filters, Choose(s) PROVE PageInv' /\ RejectedUnseen
  <2>1. ListsOK'
    BY <1>5, AskingKeeps DEF Choose
  <2>2. SentOK' /\ AloneOK'
    BY <1>5, ShowKeeps DEF Choose
  <2> QED
    BY <1>1, <1>5, <2>1, <2>2 DEF Choose
<1>6. ASSUME NEW s \in Filters, ListIsRead(s) PROVE PageInv' /\ RejectedUnseen
  <2>1. AllPending(getInbox("pending"))
    BY DEF AllPending, getInbox, Restrict
  <2>2. reading' = [reading EXCEPT ![s] = getInbox(s)] /\ lists' = lists
    BY <1>6 DEF ListIsRead
  <2>3. ListsOK'
    BY <2>1, <2>2, ConfirmPageAssumption DEF ListsOK, AllPending
  <2> QED
    BY <1>1, <1>2, <1>6, <2>3 DEF ListIsRead, page
<1>7. ASSUME NEW s \in Filters, ListArrives(s) PROVE PageInv' /\ RejectedUnseen
  <2>1. /\ reading' = [reading EXCEPT ![s] = Nil] /\ lists' = [lists EXCEPT ![s] = reading[s]]
        /\ reading[s] \notin {Nil, Sent}
    BY <1>7 DEF ListArrives
  <2>2. ListsOK'
    BY <2>1, ConfirmPageAssumption DEF ListsOK, AllPending
  <2>3. SentOK' /\ AloneOK'
    BY <1>7, ShowKeeps DEF ListArrives
  <2> QED
    BY <1>1, <1>7, <2>2, <2>3 DEF ListArrives
<1>8. ASSUME NEW s \in Filters, ListFails(s) PROVE PageInv' /\ RejectedUnseen
  <2>1. reading' = [reading EXCEPT ![s] = Nil] /\ lists' = lists
    BY <1>8 DEF ListFails
  <2>2. ListsOK'
    BY <2>1, ConfirmPageAssumption DEF ListsOK, AllPending
  <2> QED
    BY <1>1, <1>2, <1>8, <2>2 DEF ListFails, page
<1>9. CASE Reopen
  <2>1. ListsOK'
    BY <1>9, AskingKeeps DEF Reopen
  <2> QED
    BY <1>1, <1>9, <2>1, ReopenKeeps DEF Reopen
<1>10. ASSUME NEW i \in Items, SetUnit(i) \/ ClickReject(i) \/ ClickNo(i) PROVE PageInv' /\ RejectedUnseen
  BY <1>1, <1>2, <1>3, <1>10 DEF SetUnit, ClickReject, ClickNo, listed
<1>11. ASSUME NEW i \in Items, ClickConfirm(i) \/ ClickYes(i) PROVE PageInv' /\ RejectedUnseen
  <2>1. Enabled(i) /\ UNCHANGED <<book, listed>> /\ \E what : Send(i, what)
    BY <1>11 DEF ClickConfirm, ClickYes
  <2> QED
    BY <1>1, <1>3, <2>1, SendKeeps DEF listed
<1>12. ASSUME NEW k \in Slots, Returns(k) \/ Fails(k) PROVE PageInv' /\ RejectedUnseen
  <2>1. request[k] # Nil /\ request[k].stage # "adrift" /\ \E stage : Return(k, stage)
    BY <1>12 DEF Returns, Fails
  <2>2. UNCHANGED <<book, lists>> /\ (Question(filter) \/ UNCHANGED reading)
    BY <2>1 DEF Return
  <2>3. ListsOK'
    BY <2>2, AskingKeeps
  <2> QED
    BY <1>1, <2>1, <2>2, <2>3, ReturnKeeps
<1>13. ASSUME NEW k \in Slots, ConfirmLands(k) PROVE PageInv' /\ RejectedUnseen
  <2>1. /\ request[k] # Nil /\ request[k].stage \in {"sent", "adrift"}
        /\ Answered(k, "ok") \/ Answered(k, "error")
        /\ UNCHANGED <<page, listed, beside>>
    BY <1>13 DEF ConfirmLands, Landing
  <2>2. \/ UNCHANGED book
        \/ /\ inbox' = [inbox EXCEPT ![request[k].item] = "confirmed"]
           /\ booked' = booked \cup {request[k].item}
    BY <1>13 DEF ConfirmLands
  <2>3. request[k].item \in Items
    BY <2>1 DEF SentOK, RequestOK
  <2>4. DecidedOK' /\ RejectedUnseen
    BY <1>1, <2>2, <2>3 DEF DecidedOK, RejectedUnseen
  <2> QED
    BY <1>3, <2>1, <2>4, AnsweredKeeps DEF page, listed
<1>14. ASSUME NEW k \in Slots, RejectLands(k) PROVE PageInv' /\ RejectedUnseen
  <2>1. /\ request[k] # Nil /\ request[k].stage \in {"sent", "adrift"}
        /\ Answered(k, "ok") /\ UNCHANGED <<booked, page, listed, beside>>
        /\ inbox' = [inbox EXCEPT ![request[k].item] = "rejected"]
    BY <1>14 DEF RejectLands, Landing
  <2>2. RequestOK(request[k])
    BY <2>1 DEF SentOK
  <2>3. DecidedOK'
    BY <2>1, <2>2 DEF DecidedOK, RequestOK
  <2>4. RejectedUnseen
    BY <2>1, <2>2 DEF DecidedOK, RequestOK, RejectedUnseen
  <2> QED
    BY <1>3, <2>1, <2>3, <2>4, AnsweredKeeps DEF page, listed
<1>15. ASSUME NEW i \in Items, Others(i) PROVE PageInv' /\ RejectedUnseen
  <2>1. /\ inbox[i] \in {"none", "pending"} /\ UNCHANGED <<page, listed, request, beside>>
        /\ \E s : inbox' = [inbox EXCEPT ![i] = s]
        /\ booked' = IF inbox'[i] = "confirmed" THEN booked \cup {i} ELSE booked
    BY <1>15 DEF Others
  <2>2. i \notin booked
    BY <2>1 DEF DecidedOK
  <2>3. DecidedOK' /\ RejectedUnseen
    BY <2>1, <2>2 DEF DecidedOK, RejectedUnseen
  <2> QED
    BY <1>2, <1>3, <2>1, <2>3 DEF page, listed
<1>16. CASE UNCHANGED pageVars
  BY <1>1, <1>2, <1>3, <1>16 DEF pageVars, page, listed
<1> QED
  BY <1>4, <1>5, <1>6, <1>7, <1>8, <1>9, <1>10, <1>11, <1>12, <1>13, <1>14, <1>15, <1>16 DEF PageNext

(* An item whose figure is booked is rejected through the page only by     *)
(* someone who saw it as pending, or saw the rows of another status in the *)
(* place of the pending ones (GET /api/inbox, confirm/page.tsx).           *)
THEOREM NobodyRejectsTheBooked == PageSpec => BookedIsRejectedUnseen
<1>1. PageInv /\ [PageNext]_pageVars => [RejectedUnseen]_pageVars
  BY PageStep
<1> QED
  BY InitPage, PageStep, <1>1, PTL DEF PageSpec, BookedIsRejectedUnseen, RejectedUnseen

(* Two requests about one item are under way at once only if another row's *)
(* was under way beside the first, or the page was opened anew: busy holds *)
(* one item for all rows (confirm/page.tsx).                               *)
THEOREM RequestsComeAlone == PageSpec => []TwiceOnlyBesideOthers
<1>1. PageInv => TwiceOnlyBesideOthers
  <2> SUFFICES ASSUME PageInv, NEW i \in Items, Cardinality(Of(i)) > 1, i \notin beside PROVE FALSE
    BY DEF TwiceOnlyBesideOthers
  <2>1. CASE Of(i) = {}
    BY <2>1, FS_EmptySet
  <2>2. CASE Of(i) # {}
    <3>1. PICK k \in Of(i) : Of(i) = {k}
      BY <2>2 DEF PageInv, AloneOK
    <3>2. Cardinality({k}) = 1
      BY FS_Singleton
    <3> QED
      BY <3>1, <3>2
  <2> QED
    BY <2>1, <2>2
<1> QED
  BY <1>1, InitPage, PageStep, PTL DEF PageSpec

-----------------------------------------------------------------------------
(* The limiter.                                                            *)

Hit == [at : Nat, nr : Nat]

(* The window a counter decides by.                                        *)
WindowOf(c) == IF c = Redis THEN shared ELSE buckets[c]

LimitTypeOK ==
  /\ clock \in Nat /\ requests \in Nat
  /\ DOMAIN through = Counters /\ through = [c \in Counters |-> through[c]]
  /\ DOMAIN buckets = Processes /\ buckets = [p \in Processes |-> buckets[p]]
  /\ \A c \in Counters : WindowOf(c) \subseteq Hit /\ IsFiniteSet(WindowOf(c))
  /\ \A c \in Counters : through[c] \subseteq Hit /\ IsFiniteSet(through[c])

(* Nothing is of a time to come, and who waits has not waited too long. *)
PastOK ==
  /\ waiting \subseteq Hit /\ \A h \in waiting : h.at <= clock /\ clock <= h.at + Patience
  /\ scripts \subseteq Hit /\ \A h \in scripts : h.at <= clock
  /\ \A c \in Counters : \A h \in through[c] : h.at <= clock

(* What a counter has let through it still counts, for a window from then. *)
StillCounted == \A c \in Counters : \A h \in through[c] : clock - h.at < Span => h \in WindowOf(c)

(* Each counter alone keeps the limit in every window less the patience. *)
EachBounded == \A c \in Counters, t \in Nat : Cardinality(Inside(through[c], t)) <= Limit

LimitInv == LimitTypeOK /\ PastOK /\ StillCounted /\ EachBounded

(* A counted hit leaves of its window what is recent. *)
LEMMA CountedIs ==
  ASSUME NEW hits \in SUBSET Hit, IsFiniteSet(hits), NEW h \in Hit
  PROVE  /\ Recent(hits, h.at) \in SUBSET Counted(hits, h)
         /\ Counted(hits, h) \subseteq Hit /\ IsFiniteSet(Counted(hits, h))
         /\ IsFiniteSet(Recent(hits, h.at))
<1>1. Recent(hits, h.at) \subseteq hits
  BY DEF Recent
<1>2. IsFiniteSet(Recent(hits, h.at))
  BY <1>1, FS_Subset
<1>3. IsFiniteSet(Recent(hits, h.at) \cup {h})
  BY <1>2, FS_AddElement
<1>4. Counted(hits, h) \subseteq Recent(hits, h.at) \cup {h}
  BY DEF Counted
<1>5. IsFiniteSet(Counted(hits, h))
  BY <1>3, <1>4, FS_Subset
<1> QED
  BY <1>1, <1>2, <1>4, <1>5 DEF Counted

(* A counter that decides about a request that waits lets it through only  *)
(* if every window it falls into has room: what is Span less Patience      *)
(* older than it, or younger, is still counted.                            *)
LEMMA DecideKeeps ==
  ASSUME LimitInv, NEW c \in Counters, NEW h \in waiting, clock' = clock, requests' = requests,
         Passes(c, h, WindowOf(c)), WindowOf(c)' = Counted(WindowOf(c), h),
         \A d \in Counters : d # c => WindowOf(d)' = WindowOf(d),
         DOMAIN buckets' = Processes, buckets' = [p \in Processes |-> buckets'[p]],
         waiting' \subseteq waiting, scripts' \subseteq scripts
  PROVE  LimitInv'
<1> USE RateLimitAssumption
<1> DEFINE W == WindowOf(c)
           G == IF Admits(W, h.at) THEN {h} ELSE {}
<1>0. h \in Hit /\ h.at \in Nat /\ h.at <= clock /\ clock <= h.at + Patience
  BY DEF LimitInv, PastOK, Hit
<1>1. /\ clock \in Nat /\ requests \in Nat
      /\ W \subseteq Hit /\ IsFiniteSet(W)
      /\ DOMAIN through = Counters
      /\ through[c] \subseteq Hit /\ IsFiniteSet(through[c])
  BY DEF LimitInv, LimitTypeOK
<1>2. /\ DOMAIN through' = Counters /\ through' = [d \in Counters |-> through'[d]]
      /\ through'[c] = through[c] \cup G
      /\ \A d \in Counters : d # c => through'[d] = through[d]
  BY <1>1 DEF Passes, LimitInv, LimitTypeOK
<1>3. /\ Recent(W, h.at) \subseteq WindowOf(c)' /\ G \subseteq WindowOf(c)'
      /\ WindowOf(c)' \subseteq Hit /\ IsFiniteSet(WindowOf(c)')
      /\ IsFiniteSet(Recent(W, h.at))
  <2>1. /\ Recent(W, h.at) \subseteq Counted(W, h) /\ Counted(W, h) \subseteq Hit
        /\ IsFiniteSet(Counted(W, h)) /\ IsFiniteSet(Recent(W, h.at))
    BY <1>0, <1>1, CountedIs
  <2>2. G \subseteq Counted(W, h)
    BY DEF Counted
  <2> QED
    BY <2>1, <2>2
<1>4. /\ through'[c] \subseteq Hit /\ IsFiniteSet(through'[c])
      /\ \A g \in through'[c] : g.at <= clock
  <2>1. IsFiniteSet(through[c] \cup {h})
    BY <1>1, FS_AddElement
  <2>2. through'[c] \subseteq through[c] \cup {h}
    BY <1>2
  <2> QED
    BY <1>0, <1>1, <2>1, <2>2, FS_Subset DEF LimitInv, PastOK
<1>5. LimitTypeOK'
  <2>1. \A d \in Counters : WindowOf(d)' \subseteq Hit /\ IsFiniteSet(WindowOf(d)')
    BY <1>3 DEF LimitInv, LimitTypeOK
  <2>2. \A d \in Counters : through'[d] \subseteq Hit /\ IsFiniteSet(through'[d])
    BY <1>2, <1>4 DEF LimitInv, LimitTypeOK
  <2>3. clock' \in Nat /\ requests' \in Nat
    BY <1>1
  <2> QED
    BY <1>2, <2>1, <2>2, <2>3 DEF LimitTypeOK
<1>6. PastOK'
  <2>1. \A d \in Counters : \A g \in through'[d] : g.at <= clock
    BY <1>2, <1>4 DEF LimitInv, PastOK
  <2>2. /\ waiting' \subseteq Hit /\ \A g \in waiting' : g.at <= clock /\ clock <= g.at + Patience
        /\ scripts' \subseteq Hit /\ \A g \in scripts' : g.at <= clock
    BY DEF LimitInv, PastOK
  <2> QED
    BY <2>1, <2>2 DEF PastOK
<1>7. StillCounted'
  <2> SUFFICES ASSUME NEW d \in Counters, NEW g \in through'[d], clock - g.at < Span
               PROVE  g \in WindowOf(d)'
    BY DEF StillCounted
  <2>1. CASE d # c
    BY <1>2, <2>1 DEF LimitInv, StillCounted
  <2>2. CASE d = c /\ g \in G
    BY <1>3, <2>2
  <2>3. CASE d = c /\ g \in through[c]
    <3>1. g \in W /\ g.at \in Nat
      BY <1>1, <2>3 DEF LimitInv, StillCounted, Hit
    <3>2. h.at - g.at < Span
      BY <1>0, <1>1, <3>1
    <3> QED
      BY <1>3, <2>3, <3>1, <3>2 DEF Recent
  <2> QED
    BY <1>2, <2>1, <2>2, <2>3
<1>8. EachBounded'
  <2> SUFFICES ASSUME NEW d \in Counters, NEW t \in Nat
               PROVE  Cardinality(Inside(through'[d], t)) <= Limit
    BY DEF EachBounded
  <2>1. CASE d # c
    BY <1>2, <2>1 DEF LimitInv, EachBounded
  <2>2. CASE d = c /\ Inside(through'[c], t) = Inside(through[c], t)
    BY <2>2 DEF LimitInv, EachBounded
  <2>3. CASE d = c /\ Inside(through'[c], t) # Inside(through[c], t)
    <3>1. G = {h} /\ h.at <= t /\ Inside(through'[c], t) = Inside(through[c], t) \cup {h}
      BY <1>1, <1>2, <2>3 DEF Inside
    <3>2. Cardinality(Recent(W, h.at)) < Limit
      <4>1. h \in G
        BY <3>1
      <4> QED
        BY <4>1 DEF Admits
    <3>3. Inside(through[c], t) \subseteq Recent(W, h.at)
      <4> SUFFICES ASSUME NEW g \in Inside(through[c], t) PROVE g \in Recent(W, h.at)
        OBVIOUS
      <4>1. g \in through[c] /\ g.at \in Nat /\ t - g.at < Span - Patience
        BY <1>1 DEF Inside, Hit
      <4>2. clock - g.at < Span /\ h.at - g.at < Span
        BY <1>0, <1>1, <3>1, <4>1
      <4>3. g \in W
        BY <4>1, <4>2 DEF LimitInv, StillCounted
      <4> QED
        BY <4>2, <4>3 DEF Recent
    <3>4. /\ IsFiniteSet(Inside(through[c], t)) /\ Cardinality(Inside(through[c], t)) \in Nat
          /\ Cardinality(Inside(through[c], t)) <= Cardinality(Recent(W, h.at))
          /\ Cardinality(Recent(W, h.at)) \in Nat
      BY <1>3, <3>3, FS_Subset, FS_CardinalityType
    <3>5. Cardinality(Inside(through[c], t) \cup {h})
            \in {Cardinality(Inside(through[c], t)), Cardinality(Inside(through[c], t)) + 1}
      <4> DEFINE I == Inside(through[c], t)
      <4>1. IsFiniteSet(I)
        BY <3>4
      <4> HIDE DEF I
      <4>2. Cardinality(I \cup {h}) = IF h \in I THEN Cardinality(I) ELSE Cardinality(I) + 1
        BY <4>1, FS_AddElement
      <4>3. Cardinality(I \cup {h}) \in {Cardinality(I), Cardinality(I) + 1}
        BY <4>2
      <4> QED
        BY <4>3 DEF I
    <3>7. Cardinality(Inside(through[c], t) \cup {h}) <= Limit
      <4> HIDE DEF W
      <4> QED
        BY <3>2, <3>4, <3>5
    <3> QED
      BY <2>3, <3>1, <3>7
  <2> QED
    BY <2>1, <2>2, <2>3
<1> QED
  BY <1>5, <1>6, <1>7, <1>8 DEF LimitInv

LEMMA InitLimit == LimitInit => LimitInv
<1> USE RateLimitAssumption
<1> SUFFICES ASSUME LimitInit PROVE LimitInv
  OBVIOUS
<1>1. IsFiniteSet({}) /\ Cardinality({}) = 0
  BY FS_EmptySet
<1>2. \A c \in Counters : WindowOf(c) = {} /\ through[c] = {}
  BY DEF LimitInit, WindowOf, Counters
<1>3. \A c \in Counters, t \in Nat : Inside(through[c], t) = {}
  BY <1>2 DEF Inside
<1>4. EachBounded
  BY <1>1, <1>3 DEF EachBounded
<1>5. LimitTypeOK
  BY <1>1, <1>2 DEF LimitTypeOK, LimitInit
<1>6. PastOK /\ StillCounted
  BY <1>2 DEF PastOK, StillCounted, LimitInit
<1> QED
  BY <1>4, <1>5, <1>6 DEF LimitInv

(* What runs in Redis without an answer only counts one more hit, or none. *)
LEMMA RedisKeeps ==
  ASSUME LimitInv, UNCHANGED <<clock, buckets, waiting, requests, through>>,
         shared' \subseteq Hit, IsFiniteSet(shared'), scripts' \subseteq scripts,
         \A g \in shared : clock - g.at < Span => g \in shared'
  PROVE  LimitInv'
<1>1. WindowOf(Redis)' = shared' /\ \A c \in Counters : c # Redis => WindowOf(c)' = WindowOf(c)
  BY DEF WindowOf
<1>2. LimitTypeOK'
  BY <1>1 DEF LimitInv, LimitTypeOK
<1>3. PastOK' /\ EachBounded'
  BY DEF LimitInv, PastOK, EachBounded
<1>4. StillCounted'
  <2> SUFFICES ASSUME NEW c \in Counters, NEW g \in through[c], clock - g.at < Span
               PROVE  g \in WindowOf(c)'
    BY DEF StillCounted
  <2>1. g \in WindowOf(c)
    BY DEF LimitInv, StillCounted
  <2> QED
    BY <1>1, <2>1 DEF WindowOf
<1> QED
  BY <1>2, <1>3, <1>4 DEF LimitInv

LEMMA StepLimit == LimitInv /\ [LimitNext]_limitVars => LimitInv'
<1> USE RateLimitAssumption
<1> SUFFICES ASSUME LimitInv, [LimitNext]_limitVars PROVE LimitInv'
  OBVIOUS
<1>0. /\ DOMAIN buckets = Processes /\ buckets = [p \in Processes |-> buckets[p]]
      /\ clock \in Nat /\ requests \in Nat
  BY DEF LimitInv, LimitTypeOK
<1>1. CASE TimePasses
  <2>1. /\ clock' = clock + 1 /\ UNCHANGED <<shared, buckets, waiting, scripts, requests, through>>
        /\ \A h \in waiting : clock - h.at < Patience
    BY <1>1 DEF TimePasses
  <2>2. \A c \in Counters : WindowOf(c)' = WindowOf(c)
    BY <2>1 DEF WindowOf
  <2>3. LimitTypeOK' /\ EachBounded'
    BY <1>0, <2>1, <2>2 DEF LimitInv, LimitTypeOK, EachBounded
  <2>4. \A c \in Counters : \A h \in through[c] : h.at \in Nat /\ h.at <= clock
    BY DEF LimitInv, LimitTypeOK, PastOK, Hit
  <2>5. PastOK'
    <3>1. \A c \in Counters : \A h \in through[c] : h.at <= clock + 1
      BY <1>0, <2>4
    <3>2. \A h \in scripts : h.at <= clock + 1
      BY <1>0 DEF LimitInv, PastOK, Hit
    <3>3. \A h \in waiting : h.at <= clock + 1 /\ clock + 1 <= h.at + Patience
      BY <1>0, <2>1 DEF LimitInv, PastOK, Hit
    <3> QED
      BY <2>1, <3>1, <3>2, <3>3 DEF PastOK, LimitInv
  <2>6. StillCounted'
    <3> SUFFICES ASSUME NEW c \in Counters, NEW h \in through'[c], clock' - h.at < Span
                 PROVE  h \in WindowOf(c)'
      BY DEF StillCounted
    <3>1. h \in through[c] /\ h.at \in Nat
      BY <2>1, <2>4
    <3>2. clock - h.at < Span
      BY <1>0, <2>1, <3>1
    <3> QED
      BY <2>2, <3>1, <3>2 DEF LimitInv, StillCounted
  <2> QED
    BY <2>3, <2>5, <2>6 DEF LimitInv
<1>2. CASE allowRequestShared
  <2> DEFINE h == [at |-> clock, nr |-> requests]
  <2>1. /\ requests' = requests + 1 /\ waiting' = waiting \cup {h} /\ scripts' = scripts \cup {h}
        /\ UNCHANGED <<clock, shared, buckets, through>>
    BY <1>2 DEF allowRequestShared
  <2>2. h \in Hit /\ h.at = clock /\ clock <= clock + Patience
    BY <1>0 DEF Hit
  <2> HIDE DEF h
  <2>3. \A c \in Counters : WindowOf(c)' = WindowOf(c)
    BY <2>1 DEF WindowOf
  <2>4. LimitTypeOK' /\ EachBounded' /\ StillCounted'
    BY <1>0, <2>1, <2>3 DEF LimitInv, LimitTypeOK, EachBounded, StillCounted
  <2>5. PastOK'
    BY <1>0, <2>1, <2>2 DEF LimitInv, PastOK
  <2> QED
    BY <2>4, <2>5 DEF LimitInv
<1>3. ASSUME NEW h \in waiting \cap scripts, redisAllow(h) PROVE LimitInv'
  <2>1. /\ Passes(Redis, h, WindowOf(Redis)) /\ WindowOf(Redis)' = Counted(WindowOf(Redis), h)
        /\ \A d \in Counters : d # Redis => WindowOf(d)' = WindowOf(d)
        /\ UNCHANGED <<clock, buckets, requests>> /\ Redis \in Counters /\ h \in waiting
        /\ waiting' \subseteq waiting /\ scripts' \subseteq scripts
    BY <1>3 DEF redisAllow, WindowOf, Counters
  <2> QED
    BY <1>0, <2>1, DecideKeeps
<1>4. ASSUME NEW h \in waiting, NEW p \in Processes, allowRequest(p, h) PROVE LimitInv'
  <2>1. p \in Counters /\ p # Redis
    BY DEF Counters
  <2>2. /\ Passes(p, h, WindowOf(p)) /\ buckets' = [buckets EXCEPT ![p] = Counted(@, h)]
        /\ waiting' \subseteq waiting /\ scripts' \subseteq scripts
        /\ UNCHANGED <<clock, shared, requests>>
    BY <1>4, <2>1 DEF allowRequest, WindowOf
  <2>3. /\ DOMAIN buckets' = Processes /\ buckets' = [q \in Processes |-> buckets'[q]]
        /\ buckets'[p] = Counted(buckets[p], h)
        /\ \A q \in Processes : q # p => buckets'[q] = buckets[q]
    BY <1>0, <2>2
  <2>4. /\ WindowOf(p)' = Counted(WindowOf(p), h)
        /\ \A d \in Counters : d # p => WindowOf(d)' = WindowOf(d)
    BY <2>1, <2>2, <2>3 DEF WindowOf, Counters
  <2> QED
    BY <2>1, <2>2, <2>3, <2>4, DecideKeeps
<1>5. ASSUME NEW h \in scripts, LateScript(h) PROVE LimitInv'
  <2>1. h \in Hit /\ h.at \in Nat /\ h.at <= clock
    BY DEF LimitInv, PastOK, Hit
  <2>2. Redis \in Counters /\ WindowOf(Redis) = shared /\ shared \subseteq Hit /\ IsFiniteSet(shared)
    BY DEF Counters, WindowOf, LimitInv, LimitTypeOK
  <2>3. Recent(shared, h.at) \subseteq shared' /\ shared' \subseteq Hit /\ IsFiniteSet(shared')
    BY <1>5, <2>1, <2>2, CountedIs DEF LateScript
  <2>4. ASSUME NEW g \in shared, clock - g.at < Span PROVE g \in shared'
    <3>1. g.at \in Nat
      BY <2>2 DEF Hit
    <3>2. h.at - g.at < Span
      BY <1>0, <2>1, <2>4, <3>1
    <3> QED
      BY <2>3, <3>2 DEF Recent
  <2> QED
    BY <1>5, <2>3, <2>4, RedisKeeps DEF LateScript
<1>6. CASE KeyExpires
  <2>1. /\ \A g \in shared : clock - g.at >= Span
        /\ shared' = {} /\ scripts' = scripts
        /\ UNCHANGED <<clock, buckets, waiting, requests, through>>
    BY <1>6 DEF KeyExpires
  <2>2. shared \subseteq Hit
    BY DEF Counters, WindowOf, LimitInv, LimitTypeOK
  <2>3. ASSUME NEW g \in shared PROVE ~(clock - g.at < Span)
    BY <1>0, <2>1, <2>2 DEF Hit
  <2>4. IsFiniteSet({})
    BY FS_EmptySet
  <2> QED
    BY <2>1, <2>3, <2>4, RedisKeeps
<1>7. CASE UNCHANGED limitVars
  <2>1. \A c \in Counters : WindowOf(c)' = WindowOf(c)
    BY <1>7 DEF limitVars, WindowOf
  <2> QED
    BY <1>7, <2>1 DEF limitVars, LimitInv, LimitTypeOK, PastOK, StillCounted, EachBounded
<1> QED
  BY <1>1, <1>2, <1>3, <1>4, <1>5, <1>6, <1>7 DEF LimitNext

(* Finitely many sets of at most n elements have together at most n each. *)
LEMMA UnionIsBounded ==
  ASSUME NEW C, IsFiniteSet(C), NEW f, NEW n \in Nat,
         \A c \in C : IsFiniteSet(f[c]) /\ Cardinality(f[c]) <= n
  PROVE  Cardinality(UNION {f[c] : c \in C}) <= n * Cardinality(C)
<1> DEFINE U == UNION {f[c] : c \in C}
           Owner(u) == CHOOSE c \in C : u \in f[c]
           Places(c) == 1..Cardinality(f[c])
           Number(c) == CHOOSE b : b \in Bijection(Places(c), f[c])
           Place(u) == CHOOSE i \in Places(Owner(u)) : Number(Owner(u))[i] = u
           g == [u \in U |-> <<Owner(u), Place(u)>>]
<1>1. ASSUME NEW u \in U PROVE Owner(u) \in C /\ u \in f[Owner(u)]
  OBVIOUS
<1>2. ASSUME NEW c \in C
      PROVE  /\ Number(c) \in Bijection(Places(c), f[c])
             /\ Cardinality(f[c]) \in Nat
  <2>1. Cardinality(f[c]) \in Nat /\ ExistsBijection(Places(c), f[c])
    BY FS_CardinalityType
  <2> QED
    BY <2>1 DEF ExistsBijection
<1>3. ASSUME NEW c \in C, NEW u \in f[c] PROVE \E i \in Places(c) : Number(c)[i] = u
  <2> HIDE DEF Places, Number
  <2> QED
    BY <1>2, <1>3 DEF Bijection, Surjection
<1>4. ASSUME NEW u \in U PROVE Place(u) \in Places(Owner(u)) /\ Number(Owner(u))[Place(u)] = u
  <2>1. \E i \in Places(Owner(u)) : Number(Owner(u))[i] = u
    <3> HIDE DEF U, Owner, Places, Number
    <3> QED
      BY <1>1, <1>3
  <2> HIDE DEF U, Owner, Places, Number
  <2> QED
    BY <2>1
<1>5. ASSUME NEW u \in U PROVE g[u] \in C \X (1..n)
  <2>1. Owner(u) \in C /\ Place(u) \in Places(Owner(u))
    BY <1>1, <1>4
  <2>2. \A c \in C : Places(c) \subseteq 1..n
    <3>1. \A c \in C : Cardinality(f[c]) \in Nat /\ Cardinality(f[c]) <= n
      BY <1>2
    <3>2. ASSUME NEW m \in Nat, m <= n PROVE 1..m \subseteq 1..n
      BY <3>2
    <3> QED
      BY <3>1, <3>2
  <2> HIDE DEF U, Owner, Places, Place
  <2> QED
    BY <2>1, <2>2
<1>6. ASSUME NEW u \in U, NEW v \in U, g[u] = g[v] PROVE u = v
  <2>1. Owner(u) = Owner(v) /\ Place(u) = Place(v)
    <3> HIDE DEF U, Owner, Place
    <3> QED
      BY <1>6
  <2> HIDE DEF U, Owner, Place, Number
  <2> QED
    BY <1>4, <2>1
<1>7. g \in Injection(U, C \X (1..n))
  <2>1. g \in [U -> C \X (1..n)]
    <3> HIDE DEF U, Owner, Place
    <3> QED
      BY <1>5
  <2> HIDE DEF g, U
  <2> QED
    BY <1>6, <2>1 DEF Injection, IsInjective
<1>8. IsFiniteSet(1..n) /\ Cardinality(1..n) = n
  BY FS_Interval
<1>9. IsFiniteSet(C \X (1..n)) /\ Cardinality(C \X (1..n)) = Cardinality(C) * n
  BY <1>8, FS_Product
<1>10. Cardinality(U) <= Cardinality(C \X (1..n))
  <2> HIDE DEF g, U
  <2> QED
    BY <1>7, <1>9, FS_Injection
<1>11. Cardinality(C) \in Nat
  BY FS_CardinalityType
<1> QED
  BY <1>9, <1>10, <1>11

(* In any window less the patience at most the limit passes for each       *)
(* process and for Redis, for any limit, window, patience and number of    *)
(* processes, whatever requests come when, in whatever order they are      *)
(* decided and however Redis comes and goes (rate-limit.ts).               *)
THEOREM GuessingIsBounded == LimitSpec => []AttemptsBounded
<1>1. LimitInv => AttemptsBounded
  <2> SUFFICES ASSUME LimitInv, NEW t \in 0..MaxClock
               PROVE  /\ \A c \in Counters : Cardinality(Inside(through[c], t)) <= Limit
                      /\ Cardinality(Inside(UNION {through[c] : c \in Counters}, t))
                           <= Limit * (1 + Cardinality(Processes))
    BY DEF AttemptsBounded
  <2> DEFINE f == [c \in Counters |-> Inside(through[c], t)]
  <2>1. t \in Nat
    BY RateLimitAssumption
  <2>2. \A c \in Counters : f[c] \subseteq through[c] /\ IsFiniteSet(through[c])
    BY DEF Inside, LimitInv, LimitTypeOK
  <2>8. \A c \in Counters : Cardinality(Inside(through[c], t)) <= Limit
    BY <2>1 DEF LimitInv, EachBounded
  <2>3. \A c \in Counters : IsFiniteSet(f[c]) /\ Cardinality(f[c]) <= Limit
    <3>1. \A c \in Counters : Cardinality(f[c]) <= Limit
      BY <2>8
    <3> HIDE DEF f
    <3> QED
      BY <2>2, <3>1, FS_Subset
  <2>4. /\ IsFiniteSet(Counters) /\ Cardinality(Counters) = Cardinality(Processes) + 1
        /\ Cardinality(Processes) \in Nat
    BY RateLimitAssumption, FS_AddElement, FS_CardinalityType DEF Counters
  <2>5. Inside(UNION {through[c] : c \in Counters}, t) = UNION {f[c] : c \in Counters}
    BY DEF Inside
  <2>6. Cardinality(UNION {f[c] : c \in Counters}) <= Limit * Cardinality(Counters)
    <3> HIDE DEF f
    <3> QED
      BY <2>3, <2>4, RateLimitAssumption, UnionIsBounded
  <2>7. Cardinality(Counters) = 1 + Cardinality(Processes)
    BY <2>4
  <2> HIDE DEF f
  <2> QED
    BY <2>5, <2>6, <2>7, <2>8
<1> QED
  BY <1>1, InitLimit, StepLimit, PTL DEF LimitSpec

-----------------------------------------------------------------------------
(* The folds.  What is true of every set that lacks one of its elements    *)
(* less is shown of the least set of which it is not.                      *)

(* Of sets of elements of a finite set one has none of the others in it.   *)
LEMMA LeastSet ==
  ASSUME NEW S, IsFiniteSet(S), NEW B \in SUBSET (SUBSET S), B # {}
  PROVE  \E s \in B : \A w \in B : w \subseteq s => w = s
<1> DEFINE Sizes == {Cardinality(s) : s \in B}
<1>1. \A s \in B : IsFiniteSet(s) /\ Cardinality(s) \in Nat
  BY FS_Subset, FS_CardinalityType
<1>2. Sizes \subseteq Nat /\ Sizes # {}
  BY <1>1
<1>3. PICK n \in Sizes : \A k \in Sizes : ~(<<k, n>> \in OpToRel(<, Nat))
  <2> HIDE DEF Sizes
  <2> QED
    BY <1>2, WFMin, NatLessThanWellFounded
<1>4. n \in Nat /\ \A k \in Sizes : ~(k < n)
  <2> HIDE DEF Sizes
  <2> QED
    BY <1>2, <1>3 DEF OpToRel
<1>5. PICK s \in B : n = Cardinality(s)
  BY <1>3
<1>6. ASSUME NEW w \in B, w \subseteq s PROVE w = s
  <2>1. Cardinality(w) <= Cardinality(s) /\ (Cardinality(s) = Cardinality(w) => s = w)
    BY <1>1, <1>6, FS_Subset
  <2>2. Cardinality(w) \in Sizes
    OBVIOUS
  <2> HIDE DEF Sizes
  <2> QED
    BY <1>1, <1>4, <1>5, <2>1, <2>2
<1> QED
  BY <1>6

(* The sum of v over the sets of elements of S, as the folds compute it:   *)
(* one element at a time.                                                  *)
OneOf(s) == CHOOSE x \in s : TRUE
Rest(s) == s \ {OneOf(s)}
Sums(S, v, sum) == sum = [s \in SUBSET S |-> IF s = {} THEN 0 ELSE v[OneOf(s)] + sum[Rest(s)]]
Total(S, v) == (CHOOSE sum : Sums(S, v, sum))[S]

LEMMA RestIs ==
  ASSUME NEW s, s # {}
  PROVE  OneOf(s) \in s /\ Rest(s) \subseteq s /\ Rest(s) # s
BY DEF OneOf, Rest

LEMMA SumsIs ==
  ASSUME NEW S, NEW v, NEW sum, Sums(S, v, sum), NEW s \in SUBSET S
  PROVE  sum[s] = IF s = {} THEN 0 ELSE v[OneOf(s)] + sum[Rest(s)]
BY DEF Sums

(* Two sums of the same values agree where both are defined. *)
LEMMA SumsAgree ==
  ASSUME NEW S, NEW T, IsFiniteSet(S), NEW v, NEW a, NEW b, Sums(S, v, a), Sums(T, v, b)
  PROVE  \A s \in SUBSET S : s \subseteq T => a[s] = b[s]
<1> DEFINE B == {s \in SUBSET S : s \subseteq T /\ a[s] # b[s]}
<1> SUFFICES ASSUME B # {} PROVE FALSE
  OBVIOUS
<1>1. PICK s \in B : \A w \in B : w \subseteq s => w = s
  <2>1. B \in SUBSET (SUBSET S)
    OBVIOUS
  <2> HIDE DEF B
  <2> QED
    BY <2>1, LeastSet
<1>2. a[s] = (IF s = {} THEN 0 ELSE v[OneOf(s)] + a[Rest(s)])
  BY SumsIs
<1>3. b[s] = (IF s = {} THEN 0 ELSE v[OneOf(s)] + b[Rest(s)])
  BY SumsIs
<1>4. CASE s = {}
  BY <1>2, <1>3, <1>4
<1>5. CASE s # {}
  <2>1. Rest(s) \subseteq s /\ Rest(s) # s
    BY <1>5, RestIs
  <2>2. Rest(s) \notin B
    BY <1>1, <2>1
  <2> QED
    BY <1>2, <1>3, <1>5, <2>1, <2>2
<1> QED
  BY <1>4, <1>5

(* There is such a sum. *)
LEMMA SumsExist ==
  ASSUME NEW S, IsFiniteSet(S), NEW v
  PROVE  \E sum : Sums(S, v, sum)
<1> DEFINE B == {s \in SUBSET S : ~\E sum : Sums(s, v, sum)}
<1> SUFFICES ASSUME B # {} PROVE FALSE
  OBVIOUS
<1>1. PICK s \in B : \A w \in B : w \subseteq s => w = s
  <2>1. B \in SUBSET (SUBSET S)
    OBVIOUS
  <2> HIDE DEF B
  <2> QED
    BY <2>1, LeastSet
<1> DEFINE Part(w) == CHOOSE sum : Sums(w, v, sum)
           SumTo(w) == Part(w)[w]
           sum == [w \in SUBSET s |-> IF w = {} THEN 0 ELSE v[OneOf(w)] + SumTo(Rest(w))]
<1>2. ASSUME NEW w \in SUBSET s, w # s PROVE Sums(w, v, Part(w))
  <2>1. w \notin B /\ w \in SUBSET S
    BY <1>1, <1>2
  <2>2. \E x : Sums(w, v, x)
    BY <2>1
  <2> QED
    BY <2>2
<1> HIDE DEF Part
<1>3. ASSUME NEW w \in SUBSET s, w # s PROVE SumTo(w) = sum[w]
  <2>1. Sums(w, v, Part(w)) /\ IsFiniteSet(w)
    <3>1. s \in SUBSET S /\ w \in SUBSET S
      BY <1>1
    <3> QED
      BY <1>2, <1>3, <3>1, FS_Subset
  <2>2. SumTo(w) = IF w = {} THEN 0 ELSE v[OneOf(w)] + Part(w)[Rest(w)]
    BY <2>1, SumsIs
  <2>3. CASE w = {}
    BY <2>2, <2>3
  <2>4. CASE w # {}
    <3>1. Rest(w) \in SUBSET w /\ Rest(w) \in SUBSET s /\ Rest(w) # s
      BY <1>3, <2>4, RestIs
    <3>2. Sums(Rest(w), v, Part(Rest(w)))
      BY <1>2, <3>1
    <3>3. Part(w)[Rest(w)] = SumTo(Rest(w))
      BY <2>1, <3>1, <3>2, SumsAgree
    <3> QED
      BY <2>2, <2>4, <3>3
  <2> QED
    BY <2>3, <2>4
<1>4. Sums(s, v, sum)
  <2>1. ASSUME NEW w \in SUBSET s, w # {} PROVE SumTo(Rest(w)) = sum[Rest(w)]
    <3>1. Rest(w) \in SUBSET s /\ Rest(w) # s
      BY <2>1, RestIs
    <3> HIDE DEF SumTo, sum
    <3> QED
      BY <1>3, <3>1
  <2>2. sum = [w \in SUBSET s |-> IF w = {} THEN 0 ELSE v[OneOf(w)] + sum[Rest(w)]]
    <3> HIDE DEF SumTo
    <3> QED
      BY <2>1
  <2> HIDE DEF sum
  <2> QED
    BY <2>2 DEF Sums
<1> QED
  BY <1>4

(* So a total has a sum that ends in it. *)
LEMMA TotalIs ==
  ASSUME NEW S, IsFiniteSet(S), NEW v
  PROVE  \E sum : Sums(S, v, sum) /\ sum[S] = Total(S, v)
<1> DEFINE sum == CHOOSE sum : Sums(S, v, sum)
<1>1. Sums(S, v, sum)
  BY SumsExist
<1> QED
  BY <1>1 DEF Total

(* The core package's sums are totals. *)
LEMMA SumOfIs ==
  ASSUME NEW v PROVE SumOf(v) = Total({x \in DOMAIN v : isPresent(v[x])}, v)
BY DEF SumOf, MapThenSumSet, MapThenFoldSet, Sums, Total, OneOf, Rest

LEMMA BurnsIs ==
  ASSUME NEW cash, NEW burns
  PROVE  runwayMonthsFromBurns(cash, burns)
           = LET S == {i \in DOMAIN burns : isPresent(burns[i])}
             IN  IF isPresent(cash) /\ S # {} /\ Total(S, burns) > 0
                 THEN [num |-> cash * Cardinality(S), den |-> Total(S, burns)] ELSE Null
BY DEF runwayMonthsFromBurns, MapThenSumSet, MapThenFoldSet, Sums, Total, OneOf, Rest

LEMMA TotalIsInt ==
  ASSUME NEW S, IsFiniteSet(S), NEW v, \A x \in S : v[x] \in Int,
         NEW sum, Sums(S, v, sum)
  PROVE  \A s \in SUBSET S : sum[s] \in Int
<1> DEFINE B == {s \in SUBSET S : sum[s] \notin Int}
<1> SUFFICES ASSUME B # {} PROVE FALSE
  OBVIOUS
<1>1. PICK s \in B : \A w \in B : w \subseteq s => w = s
  <2>1. B \in SUBSET (SUBSET S)
    OBVIOUS
  <2> HIDE DEF B
  <2> QED
    BY <2>1, LeastSet
<1>2. sum[s] = IF s = {} THEN 0 ELSE v[OneOf(s)] + sum[Rest(s)]
  <2>1. s \in SUBSET S
    OBVIOUS
  <2> HIDE DEF B
  <2> QED
    BY <2>1, SumsIs
<1>3. s # {}
  BY <1>2
<1>4. OneOf(s) \in S /\ Rest(s) \in SUBSET S /\ sum[Rest(s)] \in Int
  BY <1>1, <1>3, RestIs
<1> QED
  BY <1>2, <1>3, <1>4

(* Sums of differences are differences of sums. *)
LEMMA TotalOfDifferences ==
  ASSUME NEW S, IsFiniteSet(S), NEW u, NEW v, NEW d,
         \A x \in S : u[x] \in Int /\ v[x] \in Int /\ d[x] = u[x] - v[x]
  PROVE  Total(S, d) = Total(S, u) - Total(S, v)
<1>1. PICK a : Sums(S, u, a) /\ a[S] = Total(S, u)
  BY TotalIs
<1>2. PICK b : Sums(S, v, b) /\ b[S] = Total(S, v)
  BY TotalIs
<1>3. PICK c : Sums(S, d, c) /\ c[S] = Total(S, d)
  BY TotalIs
<1> DEFINE B == {s \in SUBSET S : c[s] # a[s] - b[s]}
<1> SUFFICES ASSUME B # {} PROVE FALSE
  BY <1>1, <1>2, <1>3
<1>4. PICK s \in B : \A w \in B : w \subseteq s => w = s
  <2>1. B \in SUBSET (SUBSET S)
    OBVIOUS
  <2> HIDE DEF B
  <2> QED
    BY <2>1, LeastSet
<1>5. /\ a[s] = IF s = {} THEN 0 ELSE u[OneOf(s)] + a[Rest(s)]
      /\ b[s] = IF s = {} THEN 0 ELSE v[OneOf(s)] + b[Rest(s)]
      /\ c[s] = IF s = {} THEN 0 ELSE d[OneOf(s)] + c[Rest(s)]
  <2>1. s \in SUBSET S
    OBVIOUS
  <2> HIDE DEF B
  <2>2. a[s] = IF s = {} THEN 0 ELSE u[OneOf(s)] + a[Rest(s)]
    BY <1>1, <2>1, SumsIs
  <2>3. b[s] = IF s = {} THEN 0 ELSE v[OneOf(s)] + b[Rest(s)]
    BY <1>2, <2>1, Zenon DEF Sums
  <2>4. c[s] = IF s = {} THEN 0 ELSE d[OneOf(s)] + c[Rest(s)]
    BY <1>3, <2>1, Zenon DEF Sums
  <2> QED
    BY <2>2, <2>3, <2>4
<1>6. s # {}
  BY <1>5
<1>7. OneOf(s) \in S /\ Rest(s) \in SUBSET S /\ c[Rest(s)] = a[Rest(s)] - b[Rest(s)]
  BY <1>4, <1>6, RestIs
<1>8. a[Rest(s)] \in Int /\ b[Rest(s)] \in Int
  <2>1. \A x \in S : u[x] \in Int /\ v[x] \in Int
    OBVIOUS
  <2> QED
    BY <1>1, <1>2, <1>7, <2>1, TotalIsInt
<1> QED
  BY <1>5, <1>6, <1>7, <1>8

(* If no value, times n, exceeds m, their total, times n, does not exceed  *)
(* as many m.                                                              *)
LEMMA TotalIsBounded ==
  ASSUME NEW S, IsFiniteSet(S), NEW v, NEW n \in Nat, NEW m \in Int,
         \A x \in S : v[x] \in Int /\ n * v[x] <= m
  PROVE  n * Total(S, v) <= m * Cardinality(S)
<1>1. PICK a : Sums(S, v, a) /\ a[S] = Total(S, v)
  BY TotalIs
<1> DEFINE B == {s \in SUBSET S : ~(n * a[s] <= m * Cardinality(s))}
<1> SUFFICES ASSUME B # {} PROVE FALSE
  BY <1>1
<1>2. PICK s \in B : \A w \in B : w \subseteq s => w = s
  <2>1. B \in SUBSET (SUBSET S)
    OBVIOUS
  <2> HIDE DEF B
  <2> QED
    BY <2>1, LeastSet
<1>3. a[s] = IF s = {} THEN 0 ELSE v[OneOf(s)] + a[Rest(s)]
  <2>1. s \in SUBSET S
    OBVIOUS
  <2> HIDE DEF B
  <2> QED
    BY <1>1, <2>1, SumsIs
<1>4. s # {}
  <2> SUFFICES ASSUME s = {} PROVE FALSE
    OBVIOUS
  <2>1. a[s] = 0 /\ Cardinality(s) = 0
    BY <1>3, FS_EmptySet
  <2>2. n * 0 = 0 /\ m * 0 = 0
    OBVIOUS
  <2> QED
    BY <2>1, <2>2
<1>5. OneOf(s) \in S /\ Rest(s) \in SUBSET S /\ n * a[Rest(s)] <= m * Cardinality(Rest(s))
  BY <1>2, <1>4, RestIs
<1>6. a[Rest(s)] \in Int
  <2>1. \A x \in S : v[x] \in Int
    OBVIOUS
  <2> QED
    BY <1>1, <1>5, <2>1, TotalIsInt
<1>7. Cardinality(s) = Cardinality(Rest(s)) + 1 /\ Cardinality(Rest(s)) \in Nat
  <2>1. IsFiniteSet(s) /\ OneOf(s) \in s
    BY <1>4, FS_Subset, RestIs
  <2>2. Cardinality(s \ {OneOf(s)}) = Cardinality(s) - 1 /\ Cardinality(s) \in Nat
        /\ IsFiniteSet(s \ {OneOf(s)})
    BY <2>1, FS_RemoveElement, FS_CardinalityType
  <2> QED
    BY <2>2, FS_CardinalityType DEF Rest
<1>8. n * a[s] <= m * Cardinality(s)
  <2>1. a[s] = v[OneOf(s)] + a[Rest(s)]
    BY <1>3, <1>4
  <2>2. v[OneOf(s)] \in Int /\ n * v[OneOf(s)] <= m
    BY <1>5
  <2> DEFINE x == v[OneOf(s)]  y == a[Rest(s)]  k == Cardinality(Rest(s))
  <2>3. x \in Int /\ y \in Int /\ k \in Nat /\ n * x <= m /\ n * y <= m * k
    BY <1>5, <1>6, <1>7, <2>2
  <2> HIDE DEF x, y, k
  <2>4. n * (x + y) = n * x + n * y /\ m * (k + 1) = m * k + m
    BY <2>3
  <2>5. n * x \in Int /\ n * y \in Int /\ m * k \in Int
    BY <2>3
  <2>6. n * (x + y) <= m * (k + 1)
    BY <2>3, <2>4, <2>5
  <2> QED
    BY <1>7, <2>1, <2>6 DEF x, y, k
<1> QED
  BY <1>8

LEMMA TotalOfOne ==
  ASSUME NEW x, NEW v, v[x] \in Int
  PROVE  Total({x}, v) = v[x]
<1>1. IsFiniteSet({x})
  BY FS_Singleton
<1>2. PICK a : Sums({x}, v, a) /\ a[{x}] = Total({x}, v)
  BY <1>1, TotalIs
<1>3. a[{x}] = v[OneOf({x})] + a[Rest({x})] /\ a[{}] = 0
  <2>1. {x} \in SUBSET {x} /\ {} \in SUBSET {x} /\ {x} # {}
    OBVIOUS
  <2>2. a[{}] = IF {} = {} THEN 0 ELSE v[OneOf({})] + a[Rest({})]
    BY <1>2, <2>1, SumsIs
  <2>3. a[{x}] = IF {x} = {} THEN 0 ELSE v[OneOf({x})] + a[Rest({x})]
    BY <1>2, <2>1, SumsIs
  <2> QED
    BY <2>1, <2>2, <2>3
<1>4. OneOf({x}) = x /\ Rest({x}) = {}
  BY DEF OneOf, Rest
<1> QED
  BY <1>2, <1>3, <1>4

-----------------------------------------------------------------------------
(* Series.  Rows of different periods are ranked by how many are newer.    *)
Ranked(R) ==
  /\ IsFiniteSet(R) /\ \A r \in R : r.period \in Int
  /\ \A r, o \in R : r.period = o.period => r = o
Newer(R, r) == {o \in R : o.period > r.period}

LEMMA NewerIs ==
  ASSUME NEW R, Ranked(R), NEW r \in R
  PROVE  IsFiniteSet(Newer(R, r)) /\ Cardinality(Newer(R, r)) \in 0..(Cardinality(R) - 1)
<1>1. Newer(R, r) \in SUBSET R /\ r \notin Newer(R, r)
  BY DEF Newer, Ranked
<1>2. IsFiniteSet(R) /\ Newer(R, r) # R
  BY <1>1 DEF Ranked
<1>3. /\ IsFiniteSet(Newer(R, r)) /\ Cardinality(Newer(R, r)) <= Cardinality(R)
      /\ Cardinality(R) = Cardinality(Newer(R, r)) => R = Newer(R, r)
  BY <1>1, <1>2, FS_Subset
<1>4. Cardinality(Newer(R, r)) \in Nat /\ Cardinality(R) \in Nat
  BY <1>2, <1>3, FS_CardinalityType
<1> QED
  BY <1>2, <1>3, <1>4

LEMMA RanksDiffer ==
  ASSUME NEW R, Ranked(R), NEW r \in R, NEW o \in R, r.period > o.period
  PROVE  Cardinality(Newer(R, r)) < Cardinality(Newer(R, o))
<1>1. Newer(R, r) \in SUBSET Newer(R, o) /\ r \in Newer(R, o) /\ r \notin Newer(R, r)
  BY DEF Newer, Ranked
<1>2. IsFiniteSet(Newer(R, o)) /\ Cardinality(Newer(R, o)) \in Nat /\ Cardinality(Newer(R, r)) \in Nat
  BY NewerIs
<1>3. /\ Cardinality(Newer(R, r)) <= Cardinality(Newer(R, o))
      /\ Cardinality(Newer(R, o)) = Cardinality(Newer(R, r)) => Newer(R, o) = Newer(R, r)
  BY <1>1, <1>2, FS_Subset
<1> QED
  BY <1>1, <1>2, <1>3

(* Every place of the series is some row's, and only its own. *)
LEMMA SeriesIs ==
  ASSUME NEW R, Ranked(R)
  PROVE  /\ DOMAIN NewestFirst(R) = 1..Cardinality(R) /\ Cardinality(R) \in Nat
         /\ \A i \in 1..Cardinality(R) :
              NewestFirst(R)[i] \in R /\ Cardinality(Newer(R, NewestFirst(R)[i])) = i - 1
         /\ \A r \in R : Cardinality(Newer(R, r)) + 1 \in 1..Cardinality(R)
                         /\ NewestFirst(R)[Cardinality(Newer(R, r)) + 1] = r
<1> DEFINE n == Cardinality(R)
           rank == [r \in R |-> Cardinality(Newer(R, r))]
<1>1. IsFiniteSet(R) /\ n \in Nat
  BY FS_CardinalityType DEF Ranked
<1>2. rank \in Injection(R, 0..(n - 1))
  <2>1. \A r \in R : Cardinality(Newer(R, r)) \in 0..(n - 1)
    BY NewerIs
  <2>2. ASSUME NEW r \in R, NEW o \in R, Cardinality(Newer(R, r)) = Cardinality(Newer(R, o)) PROVE r = o
    <3>1. Cardinality(Newer(R, r)) \in Int /\ r.period \in Int /\ o.period \in Int
      BY <2>1 DEF Ranked
    <3>2. ~(r.period > o.period) /\ ~(o.period > r.period)
      BY <2>2, <3>1, RanksDiffer
    <3> QED
      BY <3>1, <3>2 DEF Ranked
  <2> HIDE DEF n
  <2> QED
    BY <2>1, <2>2 DEF Injection, IsInjective
<1>3. rank \in Surjection(R, 0..(n - 1))
  <2>1. IsFiniteSet(0..(n - 1)) /\ Cardinality(0..(n - 1)) = n
    BY <1>1, FS_Interval
  <2> HIDE DEF rank
  <2> QED
    BY <1>1, <1>2, <2>1, FS_Injection
<1>4. ASSUME NEW i \in 1..n PROVE \E r \in R : Cardinality(Newer(R, r)) = i - 1
  <2>1. i - 1 \in 0..(n - 1)
    BY <1>1
  <2>2. \E r \in R : rank[r] = i - 1
    <3> HIDE DEF rank, n
    <3> QED
      BY <1>3, <2>1 DEF Surjection
  <2> QED
    BY <2>2
<1>5. NewestFirst(R) = [i \in 1..n |-> CHOOSE r \in R : Cardinality(Newer(R, r)) = i - 1]
  BY DEF NewestFirst, Newer
<1>6. ASSUME NEW i \in 1..n
      PROVE  NewestFirst(R)[i] \in R /\ Cardinality(Newer(R, NewestFirst(R)[i])) = i - 1
  <2>1. NewestFirst(R)[i] = CHOOSE r \in R : Cardinality(Newer(R, r)) = i - 1
    BY <1>5
  <2> HIDE DEF n
  <2> QED
    BY <1>4, <2>1
<1>7. ASSUME NEW r \in R
      PROVE  Cardinality(Newer(R, r)) + 1 \in 1..n /\ NewestFirst(R)[Cardinality(Newer(R, r)) + 1] = r
  <2> DEFINE k == Cardinality(Newer(R, r))
             o == NewestFirst(R)[k + 1]
  <2>1. k \in 0..(n - 1) /\ k + 1 \in 1..n
    BY <1>1, NewerIs
  <2>2. o \in R /\ Cardinality(Newer(R, o)) = k
    <3> HIDE DEF n, k
    <3> QED
      BY <1>1, <1>6, <2>1
  <2>3. rank[o] = rank[r]
    BY <2>2
  <2>4. o = r
    <3> HIDE DEF rank, n, o
    <3> QED
      BY <1>2, <2>2, <2>3 DEF Injection, IsInjective
  <2> QED
    BY <2>1, <2>4
<1> QED
  BY <1>1, <1>5, <1>6, <1>7

(* The first of a series is its newest row, the second an older one. *)
LEMMA FirstIs ==
  ASSUME NEW R, Ranked(R), R # {}
  PROVE  /\ 1 \in DOMAIN NewestFirst(R) /\ NewestFirst(R)[1] \in R
         /\ \A o \in R : o.period <= NewestFirst(R)[1].period
<1> DEFINE r == NewestFirst(R)[1]
<1>1. Cardinality(R) \in Nat /\ Cardinality(R) # 0
  BY FS_CardinalityType, FS_EmptySet DEF Ranked
<1>2. 1 \in 1..Cardinality(R)
  BY <1>1
<1>3. r \in R /\ Cardinality(Newer(R, r)) = 0 /\ 1 \in DOMAIN NewestFirst(R)
  BY <1>2, SeriesIs
<1> HIDE DEF r
<1>4. Newer(R, r) = {}
  BY <1>3, NewerIs, FS_EmptySet
<1>5. \A o \in R : o.period <= r.period
  BY <1>3, <1>4 DEF Newer, Ranked
<1> QED
  BY <1>3, <1>5 DEF r

LEMMA SecondIs ==
  ASSUME NEW R, Ranked(R), 2 \in DOMAIN NewestFirst(R)
  PROVE  /\ R # {} /\ NewestFirst(R)[2] \in R
         /\ NewestFirst(R)[2].period < NewestFirst(R)[1].period
<1> DEFINE r == NewestFirst(R)[1]
           o == NewestFirst(R)[2]
<1>1. Cardinality(R) \in Nat /\ 1 \in 1..Cardinality(R) /\ 2 \in 1..Cardinality(R)
  BY SeriesIs
<1>2. r \in R /\ o \in R /\ Cardinality(Newer(R, r)) = 0 /\ Cardinality(Newer(R, o)) = 1
  BY <1>1, SeriesIs
<1>3. o.period <= r.period /\ o # r
  BY <1>2, FirstIs
<1> HIDE DEF r, o
<1>4. o.period < r.period
  BY <1>2, <1>3 DEF Ranked
<1> QED
  BY <1>2, <1>4 DEF r, o

(* Without its newest row a series moves up by one. *)
LEMMA SeriesMovesUp ==
  ASSUME NEW R, Ranked(R), NEW r \in R, \A o \in R : o.period <= r.period, NEW i \in Nat \ {0}
  PROVE  ValueAt(NewestFirst(R \ {r}), i) = ValueAt(NewestFirst(R), i + 1)
<1> DEFINE Q == R \ {r}
<1>1. Ranked(Q) /\ IsFiniteSet(R)
  <2>1. IsFiniteSet(R) /\ Q \in SUBSET R
    BY DEF Ranked
  <2>2. IsFiniteSet(Q)
    BY <2>1, FS_Subset
  <2> QED
    BY <2>1, <2>2 DEF Ranked
<1>2. Cardinality(Q) = Cardinality(R) - 1
  BY <1>1, FS_RemoveElement
<1>3. /\ DOMAIN NewestFirst(Q) = 1..Cardinality(Q) /\ Cardinality(Q) \in Nat
      /\ DOMAIN NewestFirst(R) = 1..Cardinality(R) /\ Cardinality(R) \in Nat
  BY <1>1, SeriesIs
<1>4. CASE i \notin 1..Cardinality(Q)
  <2>1. i + 1 \notin 1..Cardinality(R)
    BY <1>2, <1>3, <1>4
  <2> QED
    BY <1>3, <1>4, <2>1 DEF ValueAt
<1>5. CASE i \in 1..Cardinality(Q)
  <2> DEFINE o == NewestFirst(Q)[i]
  <2>1. o \in Q /\ Cardinality(Newer(Q, o)) = i - 1
    BY <1>1, <1>5, SeriesIs
  <2> HIDE DEF o
  <2>2. o \in R /\ o # r /\ o.period < r.period
    BY <2>1 DEF Ranked
  <2>3. Newer(R, o) = Newer(Q, o) \cup {r} /\ r \notin Newer(Q, o)
    BY <2>2 DEF Newer
  <2>4. IsFiniteSet(Newer(Q, o))
    BY <1>1, <2>1, NewerIs
  <2>5. Cardinality(Newer(R, o)) = i
    <3> DEFINE N == Newer(Q, o)
    <3>1. IsFiniteSet(N) /\ r \notin N /\ Cardinality(N) = i - 1
      BY <2>1, <2>3, <2>4
    <3> HIDE DEF N
    <3>2. Cardinality(N \cup {r}) = Cardinality(N) + 1
      BY <3>1, FS_AddElement
    <3>3. Cardinality(Newer(R, o)) = Cardinality(N \cup {r})
      BY <2>3 DEF N
    <3> QED
      BY <3>1, <3>2, <3>3
  <2>6. NewestFirst(R)[i + 1] = o /\ i + 1 \in 1..Cardinality(R)
    BY <2>2, <2>5, SeriesIs
  <2> QED
    BY <1>3, <1>5, <2>6 DEF ValueAt, o
<1> QED
  BY <1>4, <1>5

-----------------------------------------------------------------------------
(* The book.  The versions of a figure are counted, the last one is told.  *)
Versions(key, period, span) == {r \in rows : r.key = key /\ r.period = period /\ r.span = span}

VersionsAreCounted ==
  \A k \in Keys, p \in Periods, s \in SpanSet :
    LET V == Versions(k, p, s)
    IN /\ \A r \in V : r.version <= Cardinality(V)
       /\ \A r, o \in V : r.version = o.version => r = o
       /\ V # {} => \E r \in V : r.version = Cardinality(V) /\ r.value = told[k][p][s]

FiguresAreConfirmed == \A r \in rows : r.value \in ValuesOf[r.key]

NumbersIInv ==
  NumbersTypeOK /\ IsFiniteSet(rows) /\ VersionsAreCounted /\ FiguresAreConfirmed

LEMMA VersionsAreFinite ==
  ASSUME IsFiniteSet(rows), NEW k, NEW p, NEW s
  PROVE  /\ IsFiniteSet(Versions(k, p, s)) /\ Cardinality(Versions(k, p, s)) \in Nat
         /\ Cardinality(Versions(k, p, s)) <= Cardinality(rows) /\ Cardinality(rows) \in Nat
<1>1. Versions(k, p, s) \in SUBSET rows
  BY DEF Versions
<1>2. IsFiniteSet(Versions(k, p, s)) /\ Cardinality(Versions(k, p, s)) <= Cardinality(rows)
  BY <1>1, FS_Subset
<1> QED
  BY <1>2, FS_CardinalityType

LEMMA NumbersInitIInv == NumbersInit => NumbersIInv
<1> SUFFICES ASSUME NumbersInit PROVE NumbersIInv
  OBVIOUS
<1>1. NumbersTypeOK
  BY DEF NumbersInit, NumbersTypeOK, ValidPolicy
<1>2. IsFiniteSet(rows) /\ FiguresAreConfirmed
  BY FS_EmptySet DEF NumbersInit, FiguresAreConfirmed
<1>3. VersionsAreCounted
  BY DEF NumbersInit, VersionsAreCounted, Versions
<1> QED
  BY <1>1, <1>2, <1>3 DEF NumbersIInv

LEMMA ConfirmMetricKeeps ==
  ASSUME NumbersIInv, NEW k \in Keys, NEW p \in Periods, NEW s \in Spans(k), NEW v \in ValuesOf[k],
         NEW l \in Lanes(k), ConfirmMetric(k, p, s, v, l)
  PROVE  NumbersIInv'
<1> USE BookNumbersAssumption DEF NumbersIInv
<1> DEFINE V == Versions(k, p, s)
           n == Cardinality(V)
           added == [key |-> k, period |-> p, span |-> s, version |-> n + 1, value |-> v, lane |-> l]
           Figure == Int \cup {Null}
<1>0. s \in SpanSet
  BY DEF SpanSet
<1>1. n \in Nat /\ IsFiniteSet(V) /\ n <= Cardinality(rows) /\ Cardinality(rows) \in Nat
  BY VersionsAreFinite
<1>2. rows' = rows \cup {added} /\ told' = [told EXCEPT ![k][p][s] = v] /\ UNCHANGED <<marks, policy, today>>
  BY DEF ConfirmMetric, Versions
<1>3. n + 1 \in 1..MaxEntries
  <2>1. marks \in Seq(Mark)
    BY DEF NumbersTypeOK
  <2>2. Len(marks) \in Nat
    BY <2>1
  <2>3. Cardinality(rows) + Len(marks) < MaxEntries
    BY DEF ConfirmMetric
  <2> HIDE DEF n
  <2> QED
    BY <1>1, <2>2, <2>3
<1>4. added \notin rows
  <2> SUFFICES ASSUME added \in V PROVE FALSE
    BY DEF Versions
  <2>1. added.version <= n
    BY <1>0 DEF VersionsAreCounted
  <2> HIDE DEF n
  <2> QED
    BY <1>1, <2>1
<1>5. v \in Figure /\ l \in {"objective", "subjective"}
  OBVIOUS
<1> HIDE DEF n
<1>6. added \in Row
  BY <1>0, <1>3, <1>5 DEF Row
<1>7. /\ told' \in [Keys -> [Periods -> [SpanSet -> Figure]]]
      /\ told'[k][p][s] = v
      /\ \A c \in Keys, q \in Periods, z \in SpanSet :
           ~(c = k /\ q = p /\ z = s) => told'[c][q][z] = told[c][q][z]
  <2>1. told \in [Keys -> [Periods -> [SpanSet -> Figure]]]
    BY DEF NumbersTypeOK
  <2> HIDE DEF Figure
  <2>2. told[k] \in [Periods -> [SpanSet -> Figure]] /\ told[k][p] \in [SpanSet -> Figure]
    BY <2>1
  <2> DEFINE f == [told[k][p] EXCEPT ![s] = v]
             g == [told[k] EXCEPT ![p] = f]
  <2>3. f \in [SpanSet -> Figure] /\ f[s] = v /\ \A z \in SpanSet : z # s => f[z] = told[k][p][z]
    BY <1>0, <1>5, <2>2
  <2>4. told' = [told EXCEPT ![k] = g]
    BY <1>2
  <2> HIDE DEF f
  <2>5. g \in [Periods -> [SpanSet -> Figure]] /\ g[p] = f /\ \A q \in Periods : q # p => g[q] = told[k][q]
    BY <2>2, <2>3
  <2> HIDE DEF g
  <2>6. /\ told' \in [Keys -> [Periods -> [SpanSet -> Figure]]] /\ told'[k] = g
        /\ \A c \in Keys : c # k => told'[c] = told[c]
    BY <2>1, <2>4, <2>5
  <2> QED
    BY <2>3, <2>5, <2>6
<1>8. NumbersTypeOK'
  <2>1. rows' \subseteq Row
    BY <1>2, <1>6 DEF NumbersTypeOK
  <2>2. ValidPolicy(policy)' <=> ValidPolicy(policy)
    BY <1>2 DEF ValidPolicy
  <2> QED
    BY <1>2, <1>7, <2>1, <2>2 DEF NumbersTypeOK
<1>9. IsFiniteSet(rows')
  BY <1>2, FS_AddElement
<1>10. FiguresAreConfirmed'
  BY <1>2 DEF FiguresAreConfirmed
<1>11. VersionsAreCounted'
  <2> SUFFICES ASSUME NEW c \in Keys, NEW q \in Periods, NEW z \in SpanSet
               PROVE LET W == Versions(c, q, z)'
                     IN /\ \A r \in W : r.version <= Cardinality(W)
                        /\ \A r, o \in W : r.version = o.version => r = o
                        /\ W # {} => \E r \in W : r.version = Cardinality(W) /\ r.value = told'[c][q][z]
    BY DEF VersionsAreCounted
  <2>1. CASE c = k /\ q = p /\ z = s
    <3>1. Versions(c, q, z)' = V \cup {added}
      BY <1>2, <2>1 DEF Versions
    <3>2. Cardinality(V \cup {added}) = n + 1
      <4>1. added \notin V
        BY <1>4 DEF Versions
      <4> HIDE DEF V, added
      <4> QED
        BY <1>1, <4>1, FS_AddElement DEF n
    <3>3. told'[c][q][z] = v
      BY <1>7, <2>1
    <3>4. \A r \in V : r.version <= n /\ r.version \in Int
      <4>1. \A r \in V : r.version <= Cardinality(V)
        BY <1>0 DEF VersionsAreCounted
      <4>2. \A r \in V : r.version \in Int
        BY DEF NumbersTypeOK, Row, Versions
      <4> QED
        BY <4>1, <4>2 DEF n
    <3>5. \A r, o \in V : r.version = o.version => r = o
      BY <1>0 DEF VersionsAreCounted
    <3>6. added.version = n + 1 /\ added.value = v
      OBVIOUS
    <3> HIDE DEF V, added
    <3>7. \A r \in V : r.version # n + 1
      BY <1>1, <3>4
    <3>8. \A r \in V \cup {added} : r.version <= n + 1
      BY <1>1, <3>4, <3>6
    <3>9. \A r, o \in V \cup {added} : r.version = o.version => r = o
      BY <3>5, <3>6, <3>7
    <3>10. added \in V \cup {added}
      OBVIOUS
    <3> DEFINE W == V \cup {added}
    <3> HIDE DEF W
    <3>11. /\ \A r \in W : r.version <= Cardinality(W)
           /\ \A r, o \in W : r.version = o.version => r = o
           /\ \E r \in W : r.version = Cardinality(W) /\ r.value = told'[c][q][z]
      BY <3>2, <3>3, <3>6, <3>8, <3>9, <3>10 DEF W
    <3> QED
      BY <3>1, <3>11 DEF W
  <2>2. CASE ~(c = k /\ q = p /\ z = s)
    <3>1. Versions(c, q, z)' = Versions(c, q, z)
      BY <1>2, <2>2 DEF Versions
    <3>2. told'[c][q][z] = told[c][q][z]
      BY <1>7, <2>2
    <3> QED
      BY <3>1, <3>2 DEF VersionsAreCounted
  <2> QED
    BY <2>1, <2>2
<1> QED
  BY <1>8, <1>9, <1>10, <1>11

LEMMA NumbersNextIInv == NumbersIInv /\ [NumbersNext]_numbersVars => NumbersIInv'
<1> SUFFICES ASSUME NumbersIInv, [NumbersNext]_numbersVars PROVE NumbersIInv'
  OBVIOUS
<1>1. ASSUME NEW k \in Keys, NEW p \in Periods, NEW s \in Spans(k), NEW v \in ValuesOf[k],
             NEW l \in Lanes(k), ConfirmMetric(k, p, s, v, l)
      PROVE  NumbersIInv'
  BY <1>1, ConfirmMetricKeeps
<1>2. ASSUME rows' = rows, told' = told PROVE IsFiniteSet(rows)' /\ VersionsAreCounted' /\ FiguresAreConfirmed'
  BY <1>2 DEF NumbersIInv, VersionsAreCounted, FiguresAreConfirmed, Versions
<1>3. ASSUME NEW p \in Positions, NEW d \in MarkDates, NEW b \in MarkBodies, PostMark(p, d, b)
      PROVE  NumbersIInv'
  <2>1. rows' = rows /\ told' = told /\ policy' = policy /\ today' = today
    BY <1>3 DEF PostMark
  <2>2. marks' \in Seq(Mark)
    <3>1. [pos |-> p, asOf |-> d, value |-> b.value, sourced |-> b.sourced] \in Mark
      BY BookNumbersAssumption DEF Mark
    <3>2. marks \in Seq(Mark)
      BY DEF NumbersIInv, NumbersTypeOK
    <3> QED
      BY <1>3, <3>1, <3>2 DEF PostMark
  <2>3. ValidPolicy(policy)' <=> ValidPolicy(policy)
    BY <2>1 DEF ValidPolicy
  <2> QED
    BY <1>2, <2>1, <2>2, <2>3 DEF NumbersIInv, NumbersTypeOK
<1>4. ASSUME NEW p \in Policies, SavePolicy(p) PROVE NumbersIInv'
  <2>1. ValidPolicy(policy)'
    BY <1>4 DEF SavePolicy, ValidPolicy
  <2> QED
    BY <1>2, <1>4, <2>1 DEF NumbersIInv, NumbersTypeOK, SavePolicy
<1>5. CASE DayPasses
  <2>1. ValidPolicy(policy)' <=> ValidPolicy(policy)
    BY <1>5 DEF DayPasses, ValidPolicy
  <2> QED
    BY <1>2, <1>5, <2>1 DEF NumbersIInv, NumbersTypeOK, DayPasses
<1>6. CASE UNCHANGED numbersVars
  <2>1. ValidPolicy(policy)' <=> ValidPolicy(policy)
    BY <1>6 DEF numbersVars, ValidPolicy
  <2> QED
    BY <1>2, <1>6, <2>1 DEF NumbersIInv, NumbersTypeOK, numbersVars
<1> QED
  BY <1>1, <1>3, <1>4, <1>5, <1>6 DEF NumbersNext

(* The book is well formed in every state. *)
LEMMA NumbersIInvHolds == NumbersSpec => []NumbersIInv
BY NumbersInitIInv, NumbersNextIInv, PTL DEF NumbersSpec

(* The book holds rows of known keys and periods and as many versions as   *)
(* were confirmed, its marks are typed, and its thresholds are ones that   *)
(* validateFlagPolicyThresholds lets through.                              *)
THEOREM NumbersAreTyped == NumbersSpec => []NumbersTypeOK
<1>1. NumbersIInv => NumbersTypeOK
  BY DEF NumbersIInv
<1> QED
  BY <1>1, NumbersIInvHolds, PTL

-----------------------------------------------------------------------------
(* A finite set of integers has a largest. *)
LEMMA MaxIs ==
  ASSUME NEW S \in SUBSET Int, NEW m \in S, \A x \in S : x <= m
  PROVE  Max(S) = m
<1>1. Max(S) \in S /\ \A y \in S : Max(S) >= y
  BY DEF Max
<1>2. Max(S) \in Int /\ m \in Int /\ Max(S) >= m /\ Max(S) <= m
  BY <1>1
<1> QED
  BY <1>2

LEMMA MaxExists ==
  ASSUME NEW S, S \subseteq Int, IsFiniteSet(S), S # {}
  PROVE  Max(S) \in S /\ \A x \in S : x <= Max(S)
<1> DEFINE B == {{x \in S : x > y} : y \in S}
<1>1. B \in SUBSET (SUBSET S) /\ B # {} /\ IsFiniteSet(S)
  OBVIOUS
<1>2. PICK b \in B : \A w \in B : w \subseteq b => w = b
  <2> HIDE DEF B
  <2>1. \E b \in B : \A w \in B : w \subseteq b => w = b
    BY ONLY <1>1, LeastSet
  <2> QED
    BY <2>1
<1>3. PICK y \in S : b = {x \in S : x > y}
  BY <1>2
<1>4. ASSUME NEW x \in S PROVE x <= y
  <2> SUFFICES ASSUME x > y PROVE FALSE
    OBVIOUS
  <2>0. \A z \in S : z \in Int
    OBVIOUS
  <2> DEFINE w == {z \in S : z > x}
  <2>1. w \in B
    BY Zenon
  <2>2. \A z \in w : z \in S /\ z > x /\ z > y
    BY <2>0
  <2>3. w \subseteq b
    BY <1>3, <2>2
  <2>4. w = b
    <3> HIDE DEF w, B
    <3> QED
      BY <1>2, <2>1, <2>3
  <2> QED
    BY <1>3, <2>4
<1>5. Max(S) = y
  BY <1>4, MaxIs
<1> QED
  BY <1>4, <1>5

(* The periods of finitely many rows have a newest. *)
LEMMA NewestExists ==
  ASSUME NEW R, IsFiniteSet(R), R # {}, \A r \in R : r.period \in Int
  PROVE  LET P == {r.period : r \in R} IN Max(P) \in P /\ \A r \in R : r.period <= Max(P)
<1> DEFINE P == {r.period : r \in R}
           f == [r \in R |-> r.period]
<1>1. f \in Surjection(R, P)
  BY DEF Surjection
<1>2. IsFiniteSet(P)
  <2> HIDE DEF f, P
  <2> QED
    BY <1>1, FS_Surjection
<1>3. P \in SUBSET Int /\ P # {}
  OBVIOUS
<1>4. Max(P) \in P /\ \A x \in P : x <= Max(P)
  <2> HIDE DEF P
  <2> QED
    BY <1>2, <1>3, MaxExists
<1> QED
  BY <1>4

(* Of finitely many rows one has the highest version. *)
LEMMA HighestExists ==
  ASSUME NEW R, IsFiniteSet(R), R # {}, \A r \in R : r.version \in Int
  PROVE  \E r \in R : \A o \in R : o.version <= r.version
<1> DEFINE P == {r.version : r \in R}
           f == [r \in R |-> r.version]
<1>1. f \in Surjection(R, P)
  BY DEF Surjection
<1>2. IsFiniteSet(P)
  <2> HIDE DEF f, P
  <2> QED
    BY <1>1, FS_Surjection
<1>3. P \in SUBSET Int /\ P # {}
  OBVIOUS
<1>4. Max(P) \in P /\ \A x \in P : x <= Max(P)
  <2> HIDE DEF P
  <2> QED
    BY <1>2, <1>3, MaxExists
<1>5. PICK r \in R : r.version = Max(P)
  BY <1>4
<1>6. \A o \in R : o.version \in P
  OBVIOUS
<1> HIDE DEF P
<1> QED
  BY <1>4, <1>5, <1>6

(* The rows a page reads: of each key and reported period one, and that    *)
(* one holds what was confirmed last of its span.                          *)
Reported(key) == {r \in rows : r.key = key}
Highest(rs) == {r \in rs : \A o \in rs : SameFigure(o, r) => o.version <= r.version}
CurrentOf(current, key) == {r \in current : r.key = key}

LEMMA BooksAre ==
  ASSUME NumbersIInv, NEW current \in Books
  PROVE  /\ current \subseteq Highest(rows) /\ current \subseteq rows
         /\ \A r \in rows : \E o \in current : SameFigure(o, r)
         /\ \A r, o \in current : SameFigure(r, o) => r = o
<1>1. /\ current \in SUBSET Highest(rows)
      /\ \A r \in Highest(rows) : \E k \in current : \A l \in current : SameFigure(l, r) <=> l = k
  BY DEF Books, latestByMetricPeriod, OnePerPeriod, Highest
<1>2. Highest(rows) \subseteq rows
  BY DEF Highest
<1>3. ASSUME NEW r \in rows PROVE \E o \in current : SameFigure(o, r)
  <2> DEFINE R == {o \in rows : SameFigure(o, r)}
  <2>1. R \in SUBSET rows /\ R # {} /\ IsFiniteSet(rows) /\ \A o \in R : o.version \in Int
    BY DEF SameFigure, NumbersIInv, NumbersTypeOK, Row
  <2>2. IsFiniteSet(R)
    BY <2>1, FS_Subset
  <2>3. PICK h \in R : \A o \in R : o.version <= h.version
    <3> HIDE DEF R
    <3> QED
      BY <2>1, <2>2, HighestExists
  <2>4. h \in Highest(rows) /\ SameFigure(h, r)
    BY <2>3 DEF Highest, SameFigure
  <2>5. PICK k \in current : SameFigure(k, h)
    BY <1>1, <2>4
  <2> QED
    BY <2>4, <2>5 DEF SameFigure
<1>4. ASSUME NEW r \in current, NEW o \in current, SameFigure(r, o) PROVE r = o
  <2>1. PICK k \in current : \A l \in current : SameFigure(l, o) <=> l = k
    BY <1>1
  <2> QED
    BY <1>4, <2>1 DEF SameFigure
<1> QED
  BY <1>1, <1>2, <1>3, <1>4

LEMMA HighestIsLast ==
  ASSUME NumbersIInv, NEW r \in Highest(rows)
  PROVE  /\ r \in rows /\ r.key \in Keys /\ r.period \in Periods /\ r.span \in SpanSet /\ r.version \in Int
         /\ r.value = told[r.key][r.period][r.span] /\ r.value \in ValuesOf[r.key]
         /\ r.value \in Int \cup {Null}
<1> USE DEF NumbersIInv
<1>1. /\ r \in rows /\ \A o \in rows : SameFigure(o, r) => o.version <= r.version
  BY DEF Highest
<1>2. \A o \in rows : /\ o.key \in Keys /\ o.period \in Periods /\ o.span \in SpanSet
                      /\ o.version \in Int /\ o.value \in Int \cup {Null}
  BY DEF NumbersTypeOK, Row
<1> DEFINE V == Versions(r.key, r.period, r.span)
<1>3. r \in V
  BY <1>1 DEF Versions
<1>4. PICK o \in V : o.version = Cardinality(V) /\ o.value = told[r.key][r.period][r.span]
  BY <1>1, <1>2, <1>3 DEF VersionsAreCounted
<1>5. r.version <= Cardinality(V)
  BY <1>1, <1>2, <1>3 DEF VersionsAreCounted
<1>6. o \in rows /\ SameFigure(o, r)
  BY <1>4 DEF Versions, SameFigure
<1>7. o.version <= r.version
  BY <1>1, <1>6
<1>8. o.version = r.version
  <2> HIDE DEF V
  <2> QED
    BY <1>1, <1>2, <1>4, <1>5, <1>6, <1>7
<1>9. o = r
  BY <1>1, <1>2, <1>3, <1>4, <1>8 DEF VersionsAreCounted
<1> QED
  BY <1>1, <1>2, <1>4, <1>9 DEF FiguresAreConfirmed

LEMMA CurrentIs ==
  ASSUME NumbersIInv, NEW current \in Books, NEW k
  PROVE  /\ seriesFor(current, k) = NewestFirst(CurrentOf(current, k))
         /\ Ranked(CurrentOf(current, k)) /\ CurrentOf(current, k) \subseteq Reported(k)
         /\ \A r \in Reported(k) : \E o \in CurrentOf(current, k) : o.period = r.period
         /\ \A r \in CurrentOf(current, k) : /\ k \in Keys /\ r.period \in Periods
                                  /\ r.value = told[k][r.period][r.span]
                                  /\ r.value \in ValuesOf[k] /\ r.value \in Int \cup {Null}
<1> USE BookNumbersAssumption
<1>1. seriesFor(current, k) = NewestFirst(CurrentOf(current, k))
  BY DEF seriesFor, CurrentOf
<1>2. CurrentOf(current, k) \subseteq Reported(k) /\ CurrentOf(current, k) \in SUBSET rows
  BY BooksAre DEF CurrentOf, Reported
<1>3. IsFiniteSet(CurrentOf(current, k))
  BY <1>2, FS_Subset DEF NumbersIInv
<1>4. \A r \in Reported(k) : \E o \in CurrentOf(current, k) : o.period = r.period
  BY BooksAre DEF CurrentOf, Reported, SameFigure
<1>5. \A r \in CurrentOf(current, k) : r \in Highest(rows) /\ r.key = k
  BY BooksAre DEF CurrentOf
<1>6. \A r \in CurrentOf(current, k) : /\ k \in Keys /\ r.period \in Periods
                            /\ r.value = told[k][r.period][r.span]
                            /\ r.value \in ValuesOf[k] /\ r.value \in Int \cup {Null}
  BY <1>5, HighestIsLast
<1>7. \A r, o \in CurrentOf(current, k) : r.period = o.period => r = o
  BY BooksAre DEF CurrentOf, SameFigure
<1> QED
  BY <1>1, <1>2, <1>3, <1>4, <1>6, <1>7 DEF Ranked

(* When no end has two spans, every order leaves the same rows. *)
LEMMA OneReading ==
  ASSUME NumbersIInv, OneSpan, NEW current \in Books, NEW other \in Books
  PROVE  current \subseteq other
<1> SUFFICES ASSUME NEW r \in current PROVE r \in other
  OBVIOUS
<1>1. r \in Highest(rows) /\ r \in rows
  BY BooksAre
<1>2. PICK o \in other : SameFigure(o, r)
  BY <1>1, BooksAre
<1>3. o \in Highest(rows) /\ o \in rows
  BY BooksAre
<1>4. o.version <= r.version /\ r.version <= o.version /\ o.version \in Int /\ r.version \in Int
  <2>1. SameFigure(r, o)
    BY <1>2 DEF SameFigure
  <2> QED
    BY <1>1, <1>2, <1>3, <2>1, HighestIsLast DEF Highest
<1>5. o.version = r.version /\ o.span = r.span
  BY <1>1, <1>2, <1>3, <1>4 DEF OneSpan, SameFigure
<1>6. r.key \in Keys /\ r.period \in Periods /\ r.span \in SpanSet
  BY <1>1, HighestIsLast
<1>7. o \in Versions(r.key, r.period, r.span) /\ r \in Versions(r.key, r.period, r.span)
  BY <1>1, <1>2, <1>3, <1>5 DEF Versions, SameFigure
<1>8. o = r
  BY <1>5, <1>6, <1>7 DEF NumbersIInv, VersionsAreCounted
<1> QED
  BY <1>8

(* A place of a key's series holds a standing figure. *)
LEMMA PlaceIs ==
  ASSUME NumbersIInv, NEW current \in Books, NEW k, NEW i \in Nat, ValueAt(seriesFor(current, k), i) # Null
  PROVE  LET r == NewestFirst(CurrentOf(current, k))[i]
         IN /\ i \in DOMAIN NewestFirst(CurrentOf(current, k)) /\ r \in CurrentOf(current, k)
            /\ ValueAt(seriesFor(current, k), i) = r.value
<1>1. seriesFor(current, k) = NewestFirst(CurrentOf(current, k)) /\ Ranked(CurrentOf(current, k))
  BY CurrentIs
<1>2. i \in DOMAIN NewestFirst(CurrentOf(current, k)) /\ ValueAt(seriesFor(current, k), i) = NewestFirst(CurrentOf(current, k))[i].value
  BY <1>1 DEF ValueAt
<1> QED
  BY <1>1, <1>2, SeriesIs

LEMMA CurrentIsSaid ==
  ASSUME NumbersIInv, NEW current \in Books, NEW k, NEW r \in CurrentOf(current, k)
  PROVE  r.value \in Said(k, r.period)
<1>1. r.value = told[k][r.period][r.span] /\ r \in Reported(k)
  BY CurrentIs
<1>2. r.span \in {x.span : x \in {y \in rows : y.key = k /\ y.period = r.period}}
  BY <1>1 DEF Reported
<1> QED
  BY <1>1, <1>2 DEF Said

(* The newest figure of a key is what was confirmed last of it. *)
LEMMA FirstIsLastWord ==
  ASSUME NumbersIInv, NEW current \in Books, NEW k
  PROVE  FigureAt(current, k, 1) \in LastWords(k)
<1> DEFINE R == CurrentOf(current, k)
           P == {r.period : r \in Reported(k)}
<1>1. /\ Ranked(R) /\ R \subseteq Reported(k) /\ \A r \in Reported(k) : \E o \in R : o.period = r.period
      /\ seriesFor(current, k) = NewestFirst(R)
  BY CurrentIs
<1>2. LastWords(k) = IF P = {} THEN {Null} ELSE Said(k, Max(P))
  BY DEF Reported, LastWords
<1>3. FigureAt(current, k, 1) = ValueAt(NewestFirst(R), 1)
  BY <1>1 DEF FigureAt
<1>4. CASE Reported(k) = {}
  <2>1. R = {} /\ P = {}
    BY <1>1, <1>4
  <2>2. 1 \notin DOMAIN NewestFirst(R)
    <3>1. Cardinality(R) = 0
      BY <2>1, FS_EmptySet
    <3> HIDE DEF R
    <3> QED
      BY <1>1, <3>1, SeriesIs
  <2> QED
    BY <1>2, <1>3, <2>1, <2>2 DEF ValueAt
<1>5. CASE Reported(k) # {}
  <2>1. R # {} /\ P # {}
    BY <1>1, <1>5
  <2> DEFINE r == NewestFirst(R)[1]
  <2>2. 1 \in DOMAIN NewestFirst(R) /\ r \in R /\ \A o \in R : o.period <= r.period
    <3> HIDE DEF R
    <3> QED
      BY <1>1, <2>1, FirstIs
  <2> HIDE DEF r
  <2>3. Max(P) = r.period
    <3>1. \A o \in Reported(k) : o.period \in Int /\ o.period <= r.period
      BY <1>1, <2>2 DEF Ranked
    <3>2. P \in SUBSET Int /\ r.period \in P /\ \A x \in P : x <= r.period
      BY <1>1, <2>2, <3>1
    <3> HIDE DEF P
    <3> QED
      BY <3>2, MaxIs
  <2>4. r.value \in Said(k, Max(P))
    BY <2>2, <2>3, CurrentIsSaid
  <2> HIDE DEF P
  <2> QED
    BY <1>2, <1>3, <2>1, <2>2, <2>4 DEF ValueAt, r
<1> QED
  BY <1>4, <1>5

(* The place of a period in a series is what was confirmed last for it. *)
LEMMA PinnedIs ==
  ASSUME NumbersIInv, NEW current \in Books, NEW k, NEW p
  PROVE  PinnedAt(seriesFor(current, k), p) \in Said(k, p)
<1> DEFINE R == CurrentOf(current, k)
           s == seriesFor(current, k)
           at == {i \in DOMAIN s : s[i].period = p}
           j == CHOOSE i \in at : TRUE
<1>1. /\ Ranked(R) /\ R \subseteq Reported(k) /\ \A r \in Reported(k) : \E o \in R : o.period = r.period
      /\ s = NewestFirst(R)
  BY CurrentIs
<1>2. /\ \A i \in DOMAIN s : s[i] \in R
      /\ \A r \in R : \E i \in DOMAIN s : s[i] = r
  <2> HIDE DEF R, s
  <2> QED
    BY <1>1, SeriesIs
<1>3. PinnedAt(s, p) = IF at = {} THEN Null ELSE s[j].value
  BY DEF PinnedAt
<1> HIDE DEF s
<1>4. CASE at # {}
  <2>1. j \in at
    BY <1>4
  <2> HIDE DEF j
  <2>2. s[j] \in R /\ s[j].period = p
    BY <1>2, <2>1
  <2>3. s[j].value \in Said(k, p)
    BY <2>2, CurrentIsSaid
  <2> QED
    BY <1>3, <1>4, <2>3 DEF s
<1>5. CASE at = {}
  <2>1. \A r \in Reported(k) : r.period # p
    BY <1>1, <1>2, <1>5
  <2>2. {x.span : x \in {y \in rows : y.key = k /\ y.period = p}} = {}
    BY <2>1 DEF Reported
  <2> QED
    BY <1>3, <1>5, <2>2 DEF Said, s
<1> QED
  BY <1>4, <1>5

-----------------------------------------------------------------------------
ShownKeys == {"cash", "burn", "net_revenue"}
AllObjective == \A r \in rows : r.lane = "objective"

LEMMA FundSumIsItsFigure ==
  ASSUME NumbersIInv, NEW current \in Books, NEW k
  PROVE  fundOperating(current, k) = FigureAt(current, k, 1)
<1> DEFINE v == FigureAt(current, k, 1)
           one == <<v>>
<1>1. v \in Int \cup {Null}
  BY PlaceIs, CurrentIs DEF FigureAt
<1>2. fundOperating(current, k) = IF \E x \in DOMAIN one : isPresent(one[x]) THEN SumOf(one) ELSE Null
  BY DEF fundOperating, sumPresent
<1> HIDE DEF v
<1>3. DOMAIN one = {1} /\ one[1] = v
  OBVIOUS
<1> HIDE DEF one
<1>4. CASE v = Null
  BY <1>2, <1>3, <1>4 DEF isPresent, v
<1>5. CASE v # Null
  <2>1. {x \in DOMAIN one : isPresent(one[x])} = {1} /\ one[1] \in Int
    BY <1>1, <1>3, <1>5 DEF isPresent
  <2>2. SumOf(one) = v
    BY <1>3, <2>1, SumOfIs, TotalOfOne
  <2> QED
    BY <1>2, <1>3, <1>5, <2>2 DEF isPresent, v
<1> QED
  BY <1>4, <1>5

LEMMA FiguresAgree ==
  ASSUME NumbersIInv, NEW current \in Books, NEW k \in ShownKeys
  PROVE  /\ {CompanyPage(current)[k], CommandPage(current)[k], fundOperating(current, k)} \subseteq LastWords(k)
         /\ {OnePager(current)[k], Compare(current, Null)[k]} \subseteq LastWords(k)
         /\ \A p \in Periods : {PortfolioPoint(current, k, p), Compare(current, p)[k]} \subseteq Said(k, p)
<1>1. FigureAt(current, k, 1) \in LastWords(k) /\ fundOperating(current, k) = FigureAt(current, k, 1)
  BY FirstIsLastWord, FundSumIsItsFigure
<1>2. CompanyPage(current)[k] = FigureAt(current, k, 1) /\ CommandPage(current)[k] = FigureAt(current, k, 1)
  BY DEF CompanyPage, CommandPage, Headline, ShownKeys
<1>3. OnePager(current)[k] = FigureAt(current, k, 1)
  BY DEF OnePager, ShownKeys
<1>4. Compare(current, Null)[k] = FigureAt(current, k, 1)
  BY DEF Compare, ShownKeys
<1>5. ASSUME NEW p \in Periods PROVE {PortfolioPoint(current, k, p), Compare(current, p)[k]} \subseteq Said(k, p)
  <2>1. PinnedAt(seriesFor(current, k), p) \in Said(k, p)
    BY PinnedIs
  <2>2. PortfolioPoint(current, k, p) = PinnedAt(seriesFor(current, k), p)
    BY DEF PortfolioPoint
  <2>3. p # Null
    BY BookNumbersAssumption, FiguresAssumption
  <2>4. Compare(current, p)[k] = PinnedAt(seriesFor(current, k), p)
    BY <2>3 DEF Compare, ShownKeys
  <2> QED
    BY <2>1, <2>2, <2>4
<1> QED
  BY <1>1, <1>2, <1>3, <1>4, <1>5

(* A runway that is shown has a cash and a burn behind it. *)
LEMMA RunwayNeeds ==
  ASSUME NEW current, Runway(current) # Null
  PROVE  /\ 1 \in DOMAIN seriesFor(current, "cash") /\ seriesFor(current, "cash") # <<>>
         /\ seriesFor(current, "burn") # <<>>
<1> DEFINE cash == seriesFor(current, "cash")
           burn == seriesFor(current, "burn")
<1> HIDE DEF cash, burn
<1>1. Runway(current) = runwayMonthsFromBurns(ValueAt(cash, 1), Window(burn, 1))
  BY DEF Runway, FigureAt, cash, burn
<1>2. /\ isPresent(ValueAt(cash, 1))
      /\ \E i \in DOMAIN Window(burn, 1) : isPresent(Window(burn, 1)[i])
  BY <1>1, BurnsIs
<1>3. 1 \in DOMAIN cash
  BY <1>2 DEF isPresent, ValueAt
<1>4. PICK i \in 1..3 : isPresent(ValueAt(burn, 1 + i - 1))
  BY <1>2 DEF Window
<1>5. \E j : j \in DOMAIN burn
  BY <1>4 DEF isPresent, ValueAt
<1>6. cash # <<>> /\ burn # <<>>
  BY <1>3, <1>5
<1> QED
  BY <1>3, <1>6 DEF cash, burn

LEMMA RunwaysAgree ==
  ASSUME NEW current
  PROVE  /\ RunwayBar(current).months = Runway(current) /\ CompanyPage(current).runway = Runway(current)
         /\ Compare(current, Null).runway = Runway(current)
<1>1. RunwayBar(current).months = Runway(current)
  BY DEF RunwayBar
<1>2. CompanyPage(current).runway = Runway(current)
  <2>1. CompanyPage(current).runway =
          factOrDash(Runway(current), seriesFor(current, "cash") # <<>> /\ seriesFor(current, "burn") # <<>>)
    BY DEF CompanyPage, Headline
  <2> QED
    BY <2>1, RunwayNeeds DEF factOrDash
<1>3. Compare(current, Null).runway = Runway(current)
  <2> DEFINE has == \E i \in DOMAIN seriesFor(current, "cash") :
                      Null = Null \/ seriesFor(current, "cash")[i].period = Null
  <2>1. Compare(current, Null).runway = factOrDash(Runway(current), has /\ seriesFor(current, "burn") # <<>>)
    BY DEF Compare, Runway
  <2>2. CASE Runway(current) = Null
    BY <2>1, <2>2 DEF factOrDash
  <2>3. CASE Runway(current) # Null
    <3>1. has /\ seriesFor(current, "burn") # <<>>
      BY <2>3, RunwayNeeds
    <3> QED
      BY <2>1, <3>1 DEF factOrDash
  <2> QED
    BY <2>2, <2>3
<1> QED
  BY <1>1, <1>2, <1>3

LEMMA BookedRunwayIs ==
  ASSUME NumbersIInv, NEW current \in Books
  PROVE  \/ OnePager(current).runway = Runway(current) /\ Null \in LastWords("runway_months")
         \/ \E m \in LastWords("runway_months") \ {Null} : OnePager(current).runway = [num |-> m, den |-> 1]
<1> DEFINE m == FigureAt(current, "runway_months", 1)
<1>1. m \in LastWords("runway_months")
  BY FirstIsLastWord
<1>2. OnePager(current).runway = IF isPresent(m) THEN [num |-> m, den |-> 1] ELSE Runway(current)
  BY DEF OnePager
<1> HIDE DEF m
<1> QED
  BY <1>1, <1>2 DEF isPresent

(* Without the newest end a series that has it moves up by one. *)
Without(current, newest) == {r \in current : r.period # newest}

LEMMA WithoutIsRead ==
  ASSUME NEW current \in Books, NEW newest
  PROVE  Without(current, newest) \in latestByMetricPeriod(Without(rows, newest))
<1> DEFINE then == Without(current, newest)
           before == Without(rows, newest)
<1>1. /\ current \in SUBSET Highest(rows)
      /\ \A r \in Highest(rows) : \E k \in current : \A l \in current : SameFigure(l, r) <=> l = k
  BY DEF Books, latestByMetricPeriod, OnePerPeriod, Highest
<1>2. then \subseteq Highest(before)
  BY <1>1 DEF Without, Highest
<1>3. ASSUME NEW r \in Highest(before) PROVE \E k \in then : \A l \in then : SameFigure(l, r) <=> l = k
  <2>1. r \in Highest(rows) /\ r.period # newest
    BY DEF Without, Highest, SameFigure
  <2>2. PICK k \in current : \A l \in current : SameFigure(l, r) <=> l = k
    BY <1>1, <2>1
  <2>3. k \in then
    BY <2>1, <2>2 DEF Without, SameFigure
  <2> QED
    BY <2>2, <2>3 DEF Without
<1> HIDE DEF then, before
<1>4. then \in OnePerPeriod(Highest(before))
  BY <1>2, <1>3 DEF OnePerPeriod
<1> QED
  BY <1>4 DEF latestByMetricPeriod, Highest, then, before

LEMMA WithoutTheNewest ==
  ASSUME NumbersIInv, NEW current \in Books, NEW k, NEW newest \in Int, \A r \in rows : r.period <= newest,
         \E r \in rows : r.key = k /\ r.period = newest, NEW i \in Nat \ {0}
  PROVE  FigureAt(Without(current, newest), k, i) = FigureAt(current, k, i + 1)
<1> DEFINE R == CurrentOf(current, k)
<1>1. /\ Ranked(R) /\ R \subseteq Reported(k) /\ \A r \in Reported(k) : \E o \in R : o.period = r.period
      /\ seriesFor(current, k) = NewestFirst(R)
  BY CurrentIs
<1>2. PICK r \in R : r.period = newest
  BY <1>1 DEF Reported
<1>3. \A o \in R : o.period <= r.period
  BY <1>1, <1>2 DEF Reported
<1>4. {o \in Without(current, newest) : o.key = k} = R \ {r}
  <2>1. {o \in Without(current, newest) : o.key = k} = {o \in R : o.period # newest}
    BY DEF Without, CurrentOf
  <2>2. {o \in R : o.period # newest} = R \ {r}
    <3> HIDE DEF R
    <3> QED
      BY <1>1, <1>2 DEF Ranked
  <2> QED
    BY <2>1, <2>2
<1>5. seriesFor(Without(current, newest), k) = NewestFirst(R \ {r})
  BY <1>4 DEF seriesFor
<1> HIDE DEF R
<1> QED
  BY <1>1, <1>3, <1>5, SeriesMovesUp DEF FigureAt

LEMMA RunwayBeforeIs ==
  ASSUME NumbersIInv, NEW current \in Books,
         \A k \in {"cash", "burn"} : \E r \in rows : r.key = k /\ r.period = Latest({x.period : x \in rows})
  PROVE  \E then \in latestByMetricPeriod(Without(rows, Latest({x.period : x \in rows}))) :
           RunwayBar(current).before = Runway(then)
<1> DEFINE P == {x.period : x \in rows}
           newest == Latest(P)
<1>1. rows # {} /\ IsFiniteSet(rows) /\ \A r \in rows : r.period \in Int
  BY BookNumbersAssumption DEF NumbersIInv, NumbersTypeOK, Row
<1>2. newest \in Int /\ \A r \in rows : r.period <= newest
  <2>1. Max(P) \in P /\ \A r \in rows : r.period <= Max(P)
    BY <1>1, NewestExists
  <2>2. newest = Max(P)
    BY <1>1 DEF Latest
  <2> QED
    BY <1>1, <2>1, <2>2
<1>3. \A k \in {"cash", "burn"} : \E r \in rows : r.key = k /\ r.period = newest
  OBVIOUS
<1> HIDE DEF newest
<1> DEFINE then == Without(current, newest)
<1>4. ASSUME NEW k \in {"cash", "burn"}, NEW i \in Nat \ {0}
      PROVE  FigureAt(then, k, i) = FigureAt(current, k, i + 1)
  BY <1>2, <1>3, WithoutTheNewest
<1>5. FigureAt(then, "cash", 1) = FigureAt(current, "cash", 2)
  BY <1>4
<1> DEFINE a == seriesFor(then, "burn")
           b == seriesFor(current, "burn")
<1>6. Window(a, 1) = Window(b, 2)
  <2>1. ASSUME NEW j \in 1..3 PROVE ValueAt(a, 1 + j - 1) = ValueAt(b, 2 + j - 1)
    <3>1. ValueAt(a, j) = ValueAt(b, j + 1)
      BY <1>4 DEF FigureAt
    <3>2. 1 + j - 1 = j /\ 2 + j - 1 = j + 1
      OBVIOUS
    <3> QED
      BY <3>1, <3>2
  <2> HIDE DEF a, b
  <2> QED
    BY <2>1 DEF Window
<1>7. RunwayBar(current).before = runwayMonthsFromBurns(FigureAt(current, "cash", 2), Window(b, 2))
  BY DEF RunwayBar
<1>8. Runway(then) = runwayMonthsFromBurns(FigureAt(then, "cash", 1), Window(a, 1))
  BY DEF Runway
<1>9. RunwayBar(current).before = Runway(then)
  BY <1>5, <1>6, <1>7, <1>8
<1>10. then \in latestByMetricPeriod(Without(rows, newest))
  BY WithoutIsRead
<1> HIDE DEF then
<1> QED
  BY <1>9, <1>10 DEF newest

LEMMA PulseIsTheNavPage ==
  ASSUME NumbersIInv, \A i \in DOMAIN marks : marks[i].asOf <= today
  PROVE  CommandPulse = NavBook(today, today).rollup
<1>1. marks \in Seq(Mark) /\ today \in Int
  BY BookNumbersAssumption DEF NumbersIInv, NumbersTypeOK
<1>2. \A i \in DOMAIN marks : marks[i].asOf \in MarkDates
  <2>1. \A i \in DOMAIN marks : marks[i] \in Mark
    BY <1>1
  <2> QED
    BY <2>1 DEF Mark
<1>3. \A d \in MarkDates : d <= Max(MarkDates)
  BY BookNumbersAssumption, MaxExists
<1>4. ASSUME NEW p \in Positions PROVE MarkAt(p, Max(MarkDates)) = MarkAt(p, today)
  <2>1. MarksOf(p, Max(MarkDates)) = MarksOf(p, today)
    BY <1>2, <1>3 DEF MarksOf
  <2> QED
    BY <2>1 DEF MarkAt
<1>5. NavLines(Max(MarkDates)) = NavLines(today)
  BY <1>4 DEF NavLines
<1> QED
  BY <1>5 DEF CommandPulse, NavBook

LEMMA IInvTellsOneStory == NumbersIInv => PagesTellOneStory
<1> SUFFICES ASSUME NumbersIInv PROVE PagesTellOneStory
  OBVIOUS
<1> DEFINE newest == Latest({x.period : x \in rows})
<1>1. ASSUME NEW current \in Books
      PROVE  /\ \A k \in ShownKeys :
                  {CompanyPage(current)[k], CommandPage(current)[k], fundOperating(current, k)} \subseteq LastWords(k)
             /\ CashBar(current) \in LastWords("cash")
             /\ (\A k \in {"cash", "burn"} : \E r \in rows : r.key = k /\ r.period = newest) =>
                  \E then \in latestByMetricPeriod(Without(rows, newest)) : RunwayBar(current).before = Runway(then)
  BY FiguresAgree, FirstIsLastWord, RunwayBeforeIs DEF CashBar
<1>2. ASSUME AllObjective, NEW sheet \in Sheets
      PROVE  /\ \A k \in ShownKeys : {OnePager(sheet)[k], Compare(sheet, Null)[k]} \subseteq LastWords(k)
             /\ \A p \in Periods, k \in ShownKeys :
                  {PortfolioPoint(sheet, k, p), Compare(sheet, p)[k]} \subseteq Said(k, p)
             /\ \A current \in Books :
                  current = sheet \/ OneSpan =>
                    /\ RunwayBar(current).months = CompanyPage(current).runway
                    /\ Compare(sheet, Null).runway = CompanyPage(current).runway
                    /\ \/ OnePager(sheet).runway = CompanyPage(current).runway /\ Null \in LastWords("runway_months")
                       \/ \E m \in LastWords("runway_months") \ {Null} :
                            OnePager(sheet).runway = [num |-> m, den |-> 1]
  <2>1. sheet \in Books
    BY <1>2 DEF Books, Sheets, objectiveBook, AllObjective
  <2>2. ASSUME NEW current \in Books, current = sheet \/ OneSpan PROVE current = sheet
    <3>1. OneSpan => current \subseteq sheet /\ sheet \subseteq current
      BY <2>1, OneReading
    <3> QED
      BY <2>2, <3>1
  <2> QED
    BY <2>1, <2>2, FiguresAgree, RunwaysAgree, BookedRunwayIs
<1>3. (\A i \in DOMAIN marks : marks[i].asOf <= today) => CommandPulse = NavBook(today, today).rollup
  BY PulseIsTheNavPage
<1> QED
  BY <1>1, <1>2, <1>3, Zenon DEF PagesTellOneStory, ShownKeys, AllObjective, Without

(* Whatever was confirmed, restated and marked, in any order: the company  *)
(* page, the command page with its charts, compare, the one-pager and the  *)
(* fund's sums show of cash, burn and revenue what was confirmed last, one *)
(* runway, and the pulse shows the NAV page's book.                        *)
THEOREM OneStory == NumbersSpec => []PagesTellOneStory
BY IInvTellsOneStory, NumbersIInvHolds, PTL

-----------------------------------------------------------------------------
LEMMA ThresholdsAreNat ==
  ASSUME NumbersIInv
  PROVE  LET t == resolveFlagThresholds
         IN /\ t.runway_short \in Nat /\ t.burn_up \in Nat /\ t.revenue_down \in Nat
            /\ t.headcount_drop \in Nat /\ t.spend_without_revenue \in Nat
<1>1. \A k \in DOMAIN policy : policy[k] \in FlagBounds[k]
  BY DEF NumbersIInv, NumbersTypeOK, ValidPolicy
<1>2. ASSUME NEW k \in {"runway_short", "burn_up", "revenue_down", "headcount_drop", "spend_without_revenue"}
      PROVE  resolveFlagThresholds[k] \in Nat
  <2>1. k \in DOMAIN FlagCatalog /\ FlagCatalog[k] \in Nat
    BY DEF FlagCatalog
  <2>2. FlagBounds[k] \subseteq Nat
    BY <2>1 DEF FlagBounds
  <2>3. resolveFlagThresholds[k] = IF k \in DOMAIN policy THEN policy[k] ELSE FlagCatalog[k]
    BY <2>1 DEF resolveFlagThresholds
  <2> QED
    BY <1>1, <2>1, <2>2, <2>3
<1> QED
  BY <1>2

(* A figure that is shown first is a standing one of the newest period, the *)
(* one after it a standing one of an older period.                          *)
LEMMA CurrentStands ==
  ASSUME NumbersIInv, NEW current \in Books, NEW k, NEW r \in CurrentOf(current, k)
  PROVE  [period |-> r.period, value |-> r.value] \in Standing(k)
<1>1. r \in Reported(k) /\ r.value = told[k][r.period][r.span]
  BY CurrentIs
<1>2. Standing(k) = {[period |-> x.period, value |-> told[k][x.period][x.span]] : x \in Reported(k)}
  BY DEF Standing, Reported
<1> QED
  BY <1>1, <1>2

LEMMA NewestStands ==
  ASSUME NumbersIInv, NEW current \in Books, NEW k, CurrentOf(current, k) # {}
  PROVE  \A c \in Standing(k) : c.period <= NewestFirst(CurrentOf(current, k))[1].period
<1>1. /\ Ranked(CurrentOf(current, k)) /\ CurrentOf(current, k) \subseteq Reported(k)
      /\ \A x \in Reported(k) : \E o \in CurrentOf(current, k) : o.period = x.period
  BY CurrentIs
<1>2. \A o \in CurrentOf(current, k) : o.period <= NewestFirst(CurrentOf(current, k))[1].period
  BY <1>1, FirstIs
<1>3. \A c \in Standing(k) : \E x \in Reported(k) : c.period = x.period
  BY DEF Standing, Reported
<1> QED
  BY <1>1, <1>2, <1>3

LEMMA PlaceStands ==
  ASSUME NumbersIInv, NEW current \in Books, NEW k, NEW i \in Nat, FigureAt(current, k, i) # Null
  PROVE  /\ \E b \in Standing(k) : /\ b.value = FigureAt(current, k, i)
                                   /\ b.period = NewestFirst(CurrentOf(current, k))[i].period
         /\ FigureAt(current, k, i) \in Int
<1> DEFINE r == NewestFirst(CurrentOf(current, k))[i]
<1>1. r \in CurrentOf(current, k) /\ FigureAt(current, k, i) = r.value
  BY PlaceIs DEF FigureAt
<1>2. r.value \in Int \cup {Null}
  BY <1>1, CurrentIs
<1>3. [period |-> r.period, value |-> r.value] \in Standing(k)
  BY <1>1, CurrentStands
<1> HIDE DEF r
<1> QED
  BY <1>1, <1>2, <1>3 DEF r

(* Two figures that are compared are of two periods. *)
LEMMA ComparedStand ==
  ASSUME NumbersIInv, NEW current \in Books, NEW k,
         FigureAt(current, k, 1) # Null, FigureAt(current, k, 2) # Null
  PROVE  \E a, b \in Standing(k) :
           /\ a.value = FigureAt(current, k, 1) /\ b.value = FigureAt(current, k, 2)
           /\ a.period > b.period /\ \A c \in Standing(k) : c.period <= a.period
<1> DEFINE R == CurrentOf(current, k)
           r == NewestFirst(R)[1]
           o == NewestFirst(R)[2]
<1>1. PICK a \in Standing(k) : a.value = FigureAt(current, k, 1) /\ a.period = r.period
  BY PlaceStands
<1>2. PICK b \in Standing(k) : b.value = FigureAt(current, k, 2) /\ b.period = o.period
  BY PlaceStands
<1>3. Ranked(R) /\ r \in R /\ o \in R /\ 2 \in DOMAIN NewestFirst(R)
  BY CurrentIs, PlaceIs DEF FigureAt
<1>4. o.period < r.period /\ r.period \in Int /\ o.period \in Int
  BY <1>3, SecondIs DEF Ranked
<1>5. \A c \in Standing(k) : c.period <= r.period
  BY <1>3, NewestStands
<1> HIDE DEF r, o
<1> QED
  BY <1>1, <1>2, <1>4, <1>5

(* A missing newest figure after which a reported one comes. *)
LEMMA MissingStands ==
  ASSUME NumbersIInv, NEW current \in Books, NEW k,
         FigureAt(current, k, 1) = Null, FigureAt(current, k, 2) # Null
  PROVE  /\ Null \in LastWords(k)
         /\ \E c, a \in Standing(k) : c.value # Null /\ c.period < a.period
<1> DEFINE R == CurrentOf(current, k)
           r == NewestFirst(R)[1]
           o == NewestFirst(R)[2]
<1>1. PICK c \in Standing(k) : c.value = FigureAt(current, k, 2) /\ c.period = o.period
  BY PlaceStands
<1>2. Ranked(R) /\ 2 \in DOMAIN NewestFirst(R)
  BY CurrentIs, PlaceIs DEF FigureAt
<1>3. R # {} /\ o.period < r.period
  BY <1>2, SecondIs
<1>4. r \in R
  BY <1>2, <1>3, FirstIs
<1>5. [period |-> r.period, value |-> r.value] \in Standing(k)
  BY <1>4, CurrentStands
<1>6. Null \in LastWords(k)
  BY FirstIsLastWord
<1> HIDE DEF r, o
<1> QED
  BY <1>1, <1>3, <1>5, <1>6

-----------------------------------------------------------------------------
LEMMA FlagsAre ==
  ASSUME NEW current
  PROVE  LET t == resolveFlagThresholds
             hit == Flags(current)
             At(key, i) == FigureAt(current, key, i)
         IN /\ "burn_up" \in hit => detectBurnUp(At("burn", 1), At("burn", 2), t.burn_up)
            /\ "revenue_down" \in hit =>
                 detectRevenueDown(At("net_revenue", 1), At("net_revenue", 2), t.revenue_down)
            /\ "spend_without_revenue" \in hit =>
                 detectSpendWithoutRevenue(At("burn", 1), At("burn", 2), At("net_revenue", 1),
                                           At("net_revenue", 2), t.spend_without_revenue)
            /\ "headcount_drop" \in hit =>
                 detectHeadcountDrop(At("headcount", 1), At("headcount", 2), t.headcount_drop)
            /\ "runway_short" \in hit => detectRunwayShort(Runway(current), t.runway_short)
            /\ "cash_unreported" \in hit => detectCashUnreported(At("cash", 2), At("cash", 1))
BY DEF Flags, detectAll

(* A rising percentage takes a figure further from zero, a falling one     *)
(* does not, whichever side the earlier figure is on.                      *)
LEMMA RiseIsFurther ==
  ASSUME NEW c \in Int, NEW p \in Int, p # 0, NEW pct \in Nat, Rises(c, p, pct)
  PROVE  Further(c, p)
<1> DEFINE m == pct * p
<1>1. m \in Int /\ (p > 0 => m >= 0) /\ (p < 0 => m <= 0)
  OBVIOUS
<1>2. IF p > 0 THEN 100 * (c - p) > m ELSE 100 * (c - p) < m
  BY DEF Rises
<1> HIDE DEF m
<1> QED
  BY <1>1, <1>2 DEF Further

LEMMA FallIsNoFurther ==
  ASSUME NEW c \in Int, NEW p \in Int, p # 0, NEW pct \in Nat, Falls(c, p, pct)
  PROVE  NoFurther(c, p)
<1> DEFINE m == pct * p
<1>1. m \in Int /\ (p > 0 => m >= 0) /\ (p < 0 => m <= 0)
  OBVIOUS
<1>2. IF p > 0 THEN 100 * (p - c) >= m ELSE 100 * (p - c) <= m
  BY DEF Falls
<1> HIDE DEF m
<1> QED
  BY <1>1, <1>2 DEF NoFurther

LEMMA NoRiseIsNoFurther ==
  ASSUME NEW c \in Int, NEW p \in Int, p # 0, ~Rises(c, p, 0)
  PROVE  NoFurther(c, p)
BY DEF Rises, NoFurther

LEMMA WentUp ==
  ASSUME NumbersIInv, NEW current \in Books, NEW k, NEW pct \in Nat,
         Comparable(FigureAt(current, k, 1), FigureAt(current, k, 2)), Rises(FigureAt(current, k, 1), FigureAt(current, k, 2), pct)
  PROVE  Went(k, Further)
<1>1. FigureAt(current, k, 1) # Null /\ FigureAt(current, k, 2) # Null /\ FigureAt(current, k, 2) # 0
  BY DEF Comparable, isPresent
<1>2. FigureAt(current, k, 1) \in Int /\ FigureAt(current, k, 2) \in Int
  BY <1>1, PlaceStands
<1>3. PICK a \in Standing(k), b \in Standing(k) :
        /\ a.value = FigureAt(current, k, 1) /\ b.value = FigureAt(current, k, 2)
        /\ a.period > b.period /\ \A c \in Standing(k) : c.period <= a.period
  BY <1>1, ComparedStand
<1>4. Further(FigureAt(current, k, 1), FigureAt(current, k, 2))
  BY <1>1, <1>2, RiseIsFurther
<1> QED
  BY <1>1, <1>3, <1>4 DEF Went

LEMMA WentDown ==
  ASSUME NumbersIInv, NEW current \in Books, NEW k, NEW pct \in Nat,
         Comparable(FigureAt(current, k, 1), FigureAt(current, k, 2)),
         Falls(FigureAt(current, k, 1), FigureAt(current, k, 2), pct) \/ ~Rises(FigureAt(current, k, 1), FigureAt(current, k, 2), 0)
  PROVE  Went(k, NoFurther)
<1>1. FigureAt(current, k, 1) # Null /\ FigureAt(current, k, 2) # Null /\ FigureAt(current, k, 2) # 0
  BY DEF Comparable, isPresent
<1>2. FigureAt(current, k, 1) \in Int /\ FigureAt(current, k, 2) \in Int
  BY <1>1, PlaceStands
<1>3. PICK a \in Standing(k), b \in Standing(k) :
        /\ a.value = FigureAt(current, k, 1) /\ b.value = FigureAt(current, k, 2)
        /\ a.period > b.period /\ \A c \in Standing(k) : c.period <= a.period
  BY <1>1, ComparedStand
<1>4. NoFurther(FigureAt(current, k, 1), FigureAt(current, k, 2))
  BY <1>1, <1>2, FallIsNoFurther, NoRiseIsNoFurther
<1> QED
  BY <1>1, <1>3, <1>4 DEF Went

(* If the average of the reported burns eats the cash within the months,   *)
(* the largest of them does.                                               *)
LEMMA ShortRunwayIsEaten ==
  ASSUME NumbersIInv, NEW current \in Books, NEW months \in Nat, detectRunwayShort(Runway(current), months)
  PROVE  \E c \in LastWords("cash") \ {Null}, b \in Standing("burn") :
           b.value # Null /\ c < months * b.value
<1> DEFINE cash == FigureAt(current, "cash", 1)
           burns == Window(seriesFor(current, "burn"), 1)
           S == {i \in DOMAIN burns : isPresent(burns[i])}
<1>1. /\ Runway(current) # Null /\ Runway(current).num < months * Runway(current).den
      /\ Runway(current) = runwayMonthsFromBurns(cash, burns)
  BY DEF detectRunwayShort, isPresent, Runway
<1>2. /\ isPresent(cash)
      /\ runwayMonthsFromBurns(cash, burns) = [num |-> cash * Cardinality(S), den |-> Total(S, burns)]
  <2> HIDE DEF burns, cash
  <2> QED
    BY <1>1, BurnsIs
<1>3. cash * Cardinality(S) < months * Total(S, burns)
  BY <1>1, <1>2
<1>4. cash \in LastWords("cash") /\ cash # Null /\ cash \in Int
  BY <1>2, FirstIsLastWord, PlaceStands DEF isPresent
<1>5. ASSUME NEW i \in S
      PROVE  burns[i] \in Int /\ \E b \in Standing("burn") : b.value # Null /\ b.value = burns[i]
  <2>1. i \in 1..3 /\ burns[i] = FigureAt(current, "burn", 1 + i - 1) /\ burns[i] # Null
    BY DEF Window, FigureAt, isPresent
  <2>2. 1 + i - 1 = i /\ i \in Nat
    BY <2>1
  <2> HIDE DEF burns
  <2> QED
    BY <2>1, <2>2, PlaceStands
<1>6. IsFiniteSet(S)
  <2>1. DOMAIN burns = 1..3
    BY DEF Window
  <2>2. S \in SUBSET (1..3)
    BY <2>1
  <2>3. IsFiniteSet(1..3)
    <3>1. 1 \in Int /\ 3 \in Int
      OBVIOUS
    <3> QED
      BY ONLY <3>1, FS_Interval
  <2> QED
    BY <2>2, <2>3, FS_Subset
<1> HIDE DEF S, burns, cash
<1>7. SUFFICES ASSUME \A b \in Standing("burn") : b.value # Null => ~(cash < months * b.value) PROVE FALSE
  BY <1>4
<1>8. ASSUME NEW i \in S PROVE burns[i] \in Int /\ months * burns[i] <= cash
  <2>1. PICK b \in Standing("burn") : b.value # Null /\ b.value = burns[i]
    BY <1>5
  <2>2. burns[i] \in Int
    BY <1>5
  <2>3. months * burns[i] \in Int /\ ~(cash < months * burns[i])
    BY <1>7, <2>1, <2>2
  <2> QED
    BY <1>4, <2>2, <2>3
<1>9. months * Total(S, burns) <= cash * Cardinality(S)
  BY <1>4, <1>6, <1>8, TotalIsBounded
<1>10. months * Total(S, burns) \in Int /\ cash * Cardinality(S) \in Int
  <2>1. PICK sum : Sums(S, burns, sum) /\ sum[S] = Total(S, burns)
    BY <1>6, TotalIs
  <2>2. Total(S, burns) \in Int
    BY <1>5, <1>6, <2>1, TotalIsInt
  <2>3. Cardinality(S) \in Int
    BY <1>6, FS_CardinalityType
  <2> QED
    BY <1>4, <2>2, <2>3
<1> QED
  BY <1>3, <1>9, <1>10

LEMMA IInvHasEvidence ==
  ASSUME NumbersIInv
  PROVE  FlagsHaveEvidence
<1> DEFINE t == resolveFlagThresholds
<1>1. /\ t.runway_short \in Nat /\ t.burn_up \in Nat /\ t.revenue_down \in Nat
      /\ t.headcount_drop \in Nat /\ t.spend_without_revenue \in Nat
  BY ThresholdsAreNat
<1> HIDE DEF t
<1> SUFFICES ASSUME NEW current \in Books
             PROVE  LET hit == Flags(current)
                    IN /\ "burn_up" \in hit => Went("burn", Further)
                       /\ "revenue_down" \in hit => Went("net_revenue", NoFurther)
                       /\ "spend_without_revenue" \in hit =>
                            Went("burn", Further) /\ Went("net_revenue", NoFurther)
                       /\ "headcount_drop" \in hit => Went("headcount", NoFurther)
                       /\ "runway_short" \in hit =>
                            \E c \in LastWords("cash") \ {Null}, b \in Standing("burn") :
                              b.value # Null /\ c < t.runway_short * b.value
                       /\ "cash_unreported" \in hit =>
                            /\ Null \in LastWords("cash")
                            /\ \E c, a \in Standing("cash") : c.value # Null /\ c.period < a.period
  BY DEF FlagsHaveEvidence, t
<1>2. "burn_up" \in Flags(current) => Went("burn", Further)
  BY <1>1, FlagsAre, WentUp DEF detectBurnUp, t
<1>3. "revenue_down" \in Flags(current) => Went("net_revenue", NoFurther)
  BY <1>1, FlagsAre, WentDown DEF detectRevenueDown, t
<1>4. "spend_without_revenue" \in Flags(current) => Went("burn", Further) /\ Went("net_revenue", NoFurther)
  BY <1>1, FlagsAre, WentUp, WentDown DEF detectSpendWithoutRevenue, t
<1>5. "headcount_drop" \in Flags(current) => Went("headcount", NoFurther)
  BY <1>1, FlagsAre, WentDown DEF detectHeadcountDrop, t
<1>6. "runway_short" \in Flags(current) =>
        \E c \in LastWords("cash") \ {Null}, b \in Standing("burn") :
          b.value # Null /\ c < t.runway_short * b.value
  BY <1>1, FlagsAre, ShortRunwayIsEaten DEF t
<1>7. "cash_unreported" \in Flags(current) =>
        /\ Null \in LastWords("cash")
        /\ \E c, a \in Standing("cash") : c.value # Null /\ c.period < a.period
  <2>1. ASSUME "cash_unreported" \in Flags(current)
        PROVE  FigureAt(current, "cash", 2) # Null /\ FigureAt(current, "cash", 1) = Null
    BY <2>1, FlagsAre DEF detectCashUnreported, isPresent
  <2> QED
    BY <2>1, MissingStands
<1> QED
  BY <1>2, <1>3, <1>4, <1>5, <1>6, <1>7

(* A flag that runFlagJob raises is borne out by standing figures, never   *)
(* by a missing or a restated one: a rise or a fall by two figures that    *)
(* moved so, as a share of the earlier one, on either side of zero; a      *)
(* short runway, told by an average, by the largest burn of its months.    *)
THEOREM FlagsAreEvidenced == NumbersSpec => []FlagsHaveEvidence
<1>1. NumbersIInv => FlagsHaveEvidence
  BY IInvHasEvidence
<1> QED
  BY <1>1, NumbersIInvHolds, PTL

-----------------------------------------------------------------------------
AllSourced == \A i \in DOMAIN marks : marks[i].sourced

LEMMA MarksAre ==
  ASSUME NumbersIInv
  PROVE  \A i \in DOMAIN marks : /\ marks[i] \in Mark /\ marks[i].asOf \in Int /\ i \in Int
                                 /\ marks[i].value \in Int \cup {Null} /\ marks[i] # Null
<1>1. \A i \in DOMAIN marks : marks[i] \in Mark /\ i \in Int
  BY DEF NumbersIInv, NumbersTypeOK
<1> QED
  BY <1>1, BookNumbersAssumption DEF Mark

(* Of marks one was posted last of the newest date. *)
LEMMA LastIsOne ==
  ASSUME NumbersIInv, NEW ms \in SUBSET (DOMAIN marks), ms # {}
  PROVE  LastOf(ms) \in ms
<1>1. \A i \in ms : marks[i].asOf \in Int /\ i \in Int
  BY MarksAre
<1>2. IsFiniteSet(ms)
  <2>1. DOMAIN marks = 1..Len(marks) /\ Len(marks) \in Int
    BY DEF NumbersIInv, NumbersTypeOK
  <2>2. IsFiniteSet(DOMAIN marks)
    BY <2>1, FS_Interval
  <2> QED
    BY <2>2, FS_Subset
<1> DEFINE dates == {marks[i].asOf : i \in ms}
           f == [i \in ms |-> marks[i].asOf]
<1>3. f \in Surjection(ms, dates)
  BY DEF Surjection
<1>4. dates \in SUBSET Int /\ dates # {}
  BY <1>1
<1>5. Max(dates) \in dates /\ \A x \in dates : x <= Max(dates)
  <2> HIDE DEF f, dates
  <2> QED
    BY <1>2, <1>3, <1>4, FS_Surjection, MaxExists
<1> DEFINE newest == Max(dates)
           of == {i \in ms : marks[i].asOf = newest}
<1>6. of \in SUBSET Int /\ of \in SUBSET ms /\ of # {}
  BY <1>1, <1>5
<1>7. Max(of) \in of /\ \A x \in of : x <= Max(of)
  <2>1. IsFiniteSet(of)
    BY <1>2, <1>6, FS_Subset
  <2> HIDE DEF of
  <2> QED
    BY <1>6, <2>1, MaxExists
<1> DEFINE l == Max(of)
<1>8. l \in ms /\ marks[l].asOf = newest
  BY <1>7
<1>9. \A j \in ms : marks[j].asOf <= newest /\ (marks[j].asOf = newest => j <= l)
  BY <1>5, <1>7
<1> HIDE DEF l, newest
<1>10. \A j \in ms : \/ marks[l].asOf > marks[j].asOf
                     \/ marks[l].asOf = marks[j].asOf /\ l >= j
  BY <1>1, <1>8, <1>9
<1> QED
  BY <1>8, <1>10 DEF LastOf

(* What the book shows of a position. *)
Shows(d) == [p \in Positions |-> NavLines(d)[p].mark]

LEMMA LinesAre ==
  ASSUME NumbersIInv, AllSourced, NEW d, NEW p \in Positions
  PROVE  /\ NavLines(d)[p].mark \in Int \cup {Null} /\ NavLines(d)[p].cost = Cost[p]
         /\ isProvenanced(NavLines(d)[p]) <=> isPresent(NavLines(d)[p].mark)
<1> DEFINE ms == MarksOf(p, d)
           m == MarkAt(p, d)
<1>1. NavLines(d)[p] = [cost |-> Cost[p], mark |-> IF m = Null THEN Null ELSE m.value,
                        sourced |-> m # Null /\ m.sourced]
  BY DEF NavLines
<1>2. ms \in SUBSET (DOMAIN marks)
  BY DEF MarksOf
<1>3. m = Null \/ (m.value \in Int \cup {Null} /\ m.sourced)
  <2>1. CASE ms = {}
    BY <2>1 DEF MarkAt
  <2>2. CASE ms # {}
    <3>1. LastOf(ms) \in DOMAIN marks
      <4> HIDE DEF ms
      <4> QED
        BY <1>2, <2>2, LastIsOne
    <3>2. m = marks[LastOf(ms)]
      BY <2>2 DEF MarkAt
    <3> HIDE DEF ms, m
    <3> QED
      BY <3>1, <3>2, MarksAre DEF AllSourced
  <2> QED
    BY <2>1, <2>2
<1> HIDE DEF m
<1> DEFINE w == IF m = Null THEN Null ELSE m.value
           s == m # Null /\ m.sourced
<1>4. NavLines(d)[p].mark = w /\ NavLines(d)[p].cost = Cost[p] /\ NavLines(d)[p].sourced = s
  <2> HIDE DEF w, s
  <2>1. NavLines(d)[p] = [cost |-> Cost[p], mark |-> w, sourced |-> s]
    BY <1>1 DEF w, s
  <2> QED
    BY <2>1
<1>5. NavLines(d)[p].mark # Null => NavLines(d)[p].sourced
  BY <1>3, <1>4
<1> QED
  BY <1>3, <1>4, <1>5 DEF isProvenanced, isPresent

LEMMA NavIs ==
  ASSUME NumbersIInv, AllSourced, NEW d
  PROVE  rollupNav(NavLines(d)).nav = sumPresent(Shows(d))
<1>1. DOMAIN NavLines(d) = Positions
  BY DEF NavLines
<1>2. [p \in DOMAIN NavLines(d) |-> IF isProvenanced(NavLines(d)[p]) THEN NavLines(d)[p].mark ELSE Null]
        = Shows(d)
  BY <1>1, LinesAre DEF Shows, isPresent
<1>3. rollupNav(NavLines(d)).nav
        = sumPresent([p \in DOMAIN NavLines(d) |->
                        IF isProvenanced(NavLines(d)[p]) THEN NavLines(d)[p].mark ELSE Null])
  BY DEF rollupNav
<1> QED
  BY <1>2, <1>3

LEMMA ShowsAre ==
  ASSUME NumbersIInv, AllSourced, NEW d
  PROVE  /\ DOMAIN Shows(d) = Positions /\ \A p \in Positions : Shows(d)[p] \in Int \cup {Null}
         /\ sumPresent(Shows(d)).complete <=> \A p \in Positions : Shows(d)[p] # Null
         /\ sumPresent(Shows(d)).complete => sumPresent(Shows(d)).total = Total(Positions, Shows(d))
<1>1. DOMAIN Shows(d) = Positions /\ \A p \in Positions : Shows(d)[p] \in Int \cup {Null}
  BY LinesAre DEF Shows
<1> DEFINE v == Shows(d)
<1> HIDE DEF v
<1>2. sumPresent(v).complete <=> \A p \in Positions : v[p] # Null
  BY <1>1 DEF sumPresent, isPresent, v
<1>3. ASSUME sumPresent(v).complete PROVE sumPresent(v).total = Total(Positions, v)
  <2>1. {x \in DOMAIN v : isPresent(v[x])} = Positions
    BY <1>1, <1>2, <1>3 DEF isPresent, v
  <2>2. \E x \in DOMAIN v : isPresent(v[x])
    BY <2>1, BookNumbersAssumption
  <2>3. sumPresent(v).total = SumOf(v)
    BY <2>2 DEF sumPresent
  <2> QED
    BY <2>1, <2>3, SumOfIs
<1> QED
  BY <1>1, <1>2, <1>3 DEF v

LEMMA IInvBridges == NumbersIInv => BridgeIsTheDifference
<1> SUFFICES ASSUME NumbersIInv, AllSourced, NEW d \in MarkDates, NEW c \in MarkDates
             PROVE  navBridge(NavLines(d), NavLines(c)).deltaNav
                      = IF rollupNav(NavLines(d)).nav.complete /\ rollupNav(NavLines(c)).nav.complete
                        THEN rollupNav(NavLines(d)).nav.total - rollupNav(NavLines(c)).nav.total ELSE Null
  BY DEF BridgeIsTheDifference, NavBook, AllSourced
<1> DEFINE u == Shows(d)
           v == Shows(c)
           delta == [p \in Positions |-> IF isPresent(u[p]) /\ isPresent(v[p]) THEN u[p] - v[p] ELSE Null]
           both == sumPresent(u).complete /\ sumPresent(v).complete
<1>1. rollupNav(NavLines(d)).nav = sumPresent(u) /\ rollupNav(NavLines(c)).nav = sumPresent(v)
  BY NavIs
<1>2. /\ \A p \in Positions : u[p] = NavLines(d)[p].mark /\ v[p] = NavLines(c)[p].mark
      /\ DOMAIN NavLines(d) = Positions
  BY DEF Shows, NavLines
<1>3. /\ \A p \in Positions : u[p] \in Int \cup {Null} /\ v[p] \in Int \cup {Null}
      /\ sumPresent(u).complete <=> \A p \in Positions : u[p] # Null
      /\ sumPresent(v).complete <=> \A p \in Positions : v[p] # Null
      /\ sumPresent(u).complete => sumPresent(u).total = Total(Positions, u)
      /\ sumPresent(v).complete => sumPresent(v).total = Total(Positions, v)
  BY ShowsAre
<1> HIDE DEF u, v
<1>4. [p \in DOMAIN NavLines(d) |-> IF isPresent(NavLines(d)[p].mark) /\ isPresent(NavLines(c)[p].mark)
                                    THEN NavLines(d)[p].mark - NavLines(c)[p].mark ELSE Null] = delta
  BY <1>2
<1>5. /\ {p \in DOMAIN NavLines(d) : isPresent(NavLines(d)[p].mark) # isPresent(NavLines(c)[p].mark)}
           = {p \in Positions : isPresent(u[p]) # isPresent(v[p])}
      /\ (\A p \in DOMAIN NavLines(d) : isPresent(NavLines(d)[p].mark)) <=> \A p \in Positions : isPresent(u[p])
  BY <1>2
<1>6. navBridge(NavLines(d), NavLines(c)).deltaNav
        = IF /\ {p \in Positions : isPresent(u[p]) # isPresent(v[p])} = {}
             /\ \A p \in Positions : isPresent(u[p])
          THEN SumOf(delta) ELSE Null
  BY <1>2, <1>4, <1>5, BookNumbersAssumption DEF navBridge
<1>7. ( /\ {p \in Positions : isPresent(u[p]) # isPresent(v[p])} = {}
        /\ \A p \in Positions : isPresent(u[p]) ) <=> both
  BY <1>3 DEF isPresent
<1>8. ASSUME both PROVE SumOf(delta) = sumPresent(u).total - sumPresent(v).total
  <2>1. \A p \in Positions : u[p] \in Int /\ v[p] \in Int /\ delta[p] = u[p] - v[p]
    BY <1>3, <1>8 DEF isPresent
  <2>2. DOMAIN delta = Positions
    OBVIOUS
  <2> HIDE DEF delta
  <2>3. \A p \in Positions : delta[p] \in Int
    BY <2>1
  <2>4. {x \in DOMAIN delta : isPresent(delta[x])} = Positions
    BY <2>2, <2>3, FiguresAssumption DEF isPresent
  <2>5. SumOf(delta) = Total(Positions, delta)
    BY <2>4, SumOfIs
  <2>6. Total(Positions, delta) = Total(Positions, u) - Total(Positions, v)
    BY <2>1, BookNumbersAssumption, TotalOfDifferences
  <2> QED
    BY <1>3, <1>8, <2>5, <2>6
<1> HIDE DEF delta
<1> QED
  BY <1>1, <1>6, <1>7, <1>8

(* For any positions and marks that have their sources, the bridge of      *)
(* GET /api/nav, which adds up the positions' movements, tells exactly the *)
(* difference of the two totals of rollupNav, or nothing.                  *)
THEOREM BridgeTellsTheDifference == NumbersSpec => []BridgeIsTheDifference
BY IInvBridges, NumbersIInvHolds, PTL
=============================================================================
