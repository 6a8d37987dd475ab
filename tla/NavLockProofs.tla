---------------------------- MODULE NavLockProofs ----------------------------
(***************************************************************************)
(* Proofs about NavLock for any sets of positions, dates and requests.     *)
(***************************************************************************)
EXTENDS NavLock, TLAPS

(* The lines of a pack hold marks of the book that its date admits. *)
OfItsDate(k) ==
  \A p \in Positions :
    LET m == k.lines[p].mark
    IN  m # Absent => m \in marks /\ m.pos = p /\ m.asOf <= k.asOf

(* What a request holds follows from where it is.  TypeOK alone is not     *)
(* inductive without it.                                                   *)
HoldsPack(r) ==
  /\ r \in Lockers
  /\ req[r].pack \in Pack
  /\ req[r].pack.by = r
  /\ OfItsDate(req[r].pack)

RequestOK(r) ==
  /\ pc[r] = "mark" => r \in Markers /\ req[r] \in MarkLocal
  /\ pc[r] = "edit" => r \in Editors /\ req[r] \in EditLocal
  /\ pc[r] = "marks" => r \in Lockers /\ req[r] \in BookLocal
  /\ pc[r] = "put" => HoldsPack(r) /\ req[r] \in PackLocal
  /\ pc[r] = "select" => HoldsPack(r) /\ req[r] \in PackLocal /\ req[r].pack \in store
  /\ pc[r] = "write" => HoldsPack(r) /\ req[r] \in RowLocal /\ req[r].pack \in store
  /\ pc[r] = "unlock" => r \in Unlockers /\ req[r] \in UnlockLocal /\ period[req[r].asOf] # Absent

RequestsOK == \A r \in Requests : RequestOK(r)

(* A lock that has not ended is named by no period: its pack is a new one. *)
PackIsNew ==
  \A r \in Lockers, t \in LockDates :
    pc[r] # "done" /\ period[t] # Absent => period[t].pack.by # r

PeriodsOK == PackIsStored /\ PackIsOfItsDate /\ PackIsNew

Inv == TypeOK /\ RequestsOK /\ PeriodsOK
-----------------------------------------------------------------------------
(* What one request holds is not disturbed by the step of another: packs,  *)
(* marks and rows of periods never go away.                                *)
LEMMA OthersKeep ==
  ASSUME Inv, NEW r \in Requests, NEW from, NEW to, NEW l,
         Step(r, from, to, l), RequestOK(r)',
         store \subseteq store', marks \subseteq marks',
         \A t \in LockDates : period[t] # Absent => period'[t] # Absent
  PROVE  RequestsOK'
<1> SUFFICES ASSUME NEW q \in Requests, q # r PROVE RequestOK(q)'
  BY DEF RequestsOK
<1>1. pc'[q] = pc[q] /\ req'[q] = req[q]
  BY DEF Step, Inv, TypeOK
<1>2. RequestOK(q)
  BY DEF Inv, RequestsOK
<1>3. HoldsPack(q) => HoldsPack(q)'
  BY <1>1 DEF HoldsPack, OfItsDate
<1>4. pc[q] = "unlock" => req[q].asOf \in LockDates
  BY <1>2 DEF RequestOK, UnlockLocal
<1> QED
  BY <1>1, <1>2, <1>3, <1>4 DEF RequestOK

(* A step that leaves the periods alone and takes no mark or pack away     *)
(* keeps what is said of them.                                             *)
LEMMA PeriodsKeep ==
  ASSUME Inv, UNCHANGED period, store \subseteq store', marks \subseteq marks',
         \A r \in Lockers : pc'[r] # "done" => pc[r] # "done"
  PROVE  PeriodsOK'
<1>1. PackIsStored'
  BY DEF Inv, PeriodsOK, PackIsStored
<1>2. PackIsOfItsDate'
  BY DEF Inv, PeriodsOK, PackIsOfItsDate
<1>3. PackIsNew'
  BY DEF Inv, PeriodsOK, PackIsNew
<1> QED
  BY <1>1, <1>2, <1>3 DEF PeriodsOK

(* A request that ends holds nothing. *)
LEMMA FinishOK ==
  ASSUME Inv, NEW r \in Requests, NEW from, Finish(r, from)
  PROVE  /\ RequestOK(r)'
         /\ pc' \in [Requests -> {"idle", "mark", "edit", "marks", "put", "select", "write", "unlock", "done"}]
         /\ req' \in [Requests -> Locals \cup {Absent}]
         /\ \A q \in Requests : pc'[q] # "done" => pc[q] # "done" \/ (q = r /\ q \in Unlockers)
<1>1. pc'[r] \in {"idle", "done"} /\ req' = [req EXCEPT ![r] = Absent]
  BY DEF Finish, Step, Inv, TypeOK
<1>2. RequestOK(r)'
  BY <1>1 DEF RequestOK
<1> QED
  BY <1>1, <1>2 DEF Finish, Step, Inv, TypeOK

(* A step of a request to where it holds l. *)
LEMMA StepOK ==
  ASSUME Inv, NEW r \in Requests, NEW from, NEW to, NEW l \in Locals, Step(r, from, to, l),
         from # "done",
         to \in {"idle", "mark", "edit", "marks", "put", "select", "write", "unlock", "done"}
  PROVE  /\ pc'[r] = to /\ req'[r] = l
         /\ pc' \in [Requests -> {"idle", "mark", "edit", "marks", "put", "select", "write", "unlock", "done"}]
         /\ req' \in [Requests -> Locals \cup {Absent}]
         /\ \A q \in Requests : pc'[q] # "done" => pc[q] # "done"
BY DEF Step, Inv, TypeOK
-----------------------------------------------------------------------------
LEMMA InitOK == Init => Inv
<1> SUFFICES ASSUME Init PROVE Inv
  OBVIOUS
<1>1. TypeOK
  BY NavLockAssumption DEF Init, TypeOK
<1>2. RequestsOK
  BY DEF Init, RequestsOK, RequestOK
<1>3. PeriodsOK
  BY DEF Init, PeriodsOK, PackIsStored, PackIsOfItsDate, PackIsNew
<1> QED
  BY <1>1, <1>2, <1>3 DEF Inv

(* Every kind of request has requests of its own. *)
LEMMA Kinds ==
  /\ Markers \cup Editors \cup Lockers \cup Unlockers = Requests
  /\ Markers \cap (Editors \cup Lockers \cup Unlockers) = {}
  /\ Editors \cap (Lockers \cup Unlockers) = {}
  /\ Lockers \cap Unlockers = {}
BY NavLockAssumption DEF Requests

LEMMA PostMarkOK ==
  ASSUME Inv, NEW r \in Markers, PostMark(r)
  PROVE  Inv'
<1> USE Kinds
<1>1. ASSUME NEW p \in Positions, NEW t \in MarkDates, MarkCheck(r, p, t)
      PROVE  Inv'
  <2> DEFINE l == [pos |-> p, asOf |-> t, by |-> r]
  <2>1. l \in MarkLocal /\ l \in Locals
    BY DEF MarkLocal, Mark, Locals
  <2>2. Step(r, "idle", "mark", l)
    BY <1>1 DEF MarkCheck
  <2>3. RequestOK(r)'
    BY <2>1, <2>2, StepOK DEF RequestOK
  <2>4. TypeOK'
    BY <1>1, <2>1, <2>2, StepOK DEF MarkCheck, tables, Inv, TypeOK
  <2>5. RequestsOK'
    BY <1>1, <2>2, <2>3, OthersKeep DEF MarkCheck, tables
  <2>6. PeriodsOK'
    BY <1>1, <2>1, <2>2, StepOK, PeriodsKeep DEF MarkCheck, tables
  <2> QED
    BY <2>4, <2>5, <2>6 DEF Inv
<1>2. ASSUME MarkCommit(r)
      PROVE  Inv'
  <2>1. pc[r] = "mark" /\ req[r] \in Mark
    BY <1>2 DEF MarkCommit, Finish, Step, Inv, RequestsOK, RequestOK, MarkLocal
  <2>2. Finish(r, "mark") /\ marks' = marks \cup {req[r]} /\ UNCHANGED <<cost, period, store>>
    BY <1>2 DEF MarkCommit
  <2>3. TypeOK'
    BY <2>1, <2>2, FinishOK DEF Inv, TypeOK
  <2>4. RequestsOK'
    BY <2>2, FinishOK, OthersKeep DEF Finish
  <2>5. PeriodsOK'
    BY <2>2, FinishOK, PeriodsKeep
  <2> QED
    BY <2>3, <2>4, <2>5 DEF Inv
<1> QED
  BY <1>1, <1>2 DEF PostMark

LEMMA EditPositionOK ==
  ASSUME Inv, NEW r \in Editors, EditPosition(r)
  PROVE  Inv'
<1> USE Kinds
<1>1. ASSUME NEW p \in Positions, NEW c \in Costs \cup {Absent}, EditRead(r, p, c)
      PROVE  Inv'
  <2> DEFINE l == [pos |-> p, cost |-> IF c = Absent THEN cost[p] ELSE c]
  <2>1. l \in EditLocal /\ l \in Locals
    BY DEF EditLocal, Locals, Inv, TypeOK
  <2>2. Step(r, "idle", "edit", l)
    BY <1>1 DEF EditRead
  <2>3. RequestOK(r)'
    BY <2>1, <2>2, StepOK DEF RequestOK
  <2>4. TypeOK'
    BY <1>1, <2>1, <2>2, StepOK DEF EditRead, tables, Inv, TypeOK
  <2>5. RequestsOK'
    BY <1>1, <2>2, <2>3, OthersKeep DEF EditRead, tables
  <2>6. PeriodsOK'
    BY <1>1, <2>1, <2>2, StepOK, PeriodsKeep DEF EditRead, tables
  <2> QED
    BY <2>4, <2>5, <2>6 DEF Inv
<1>2. ASSUME EditCommit(r)
      PROVE  Inv'
  <2>1. pc[r] = "edit" /\ req[r] \in EditLocal
    BY <1>2 DEF EditCommit, Finish, Step, Inv, RequestsOK, RequestOK
  <2>2. Finish(r, "edit") /\ cost' = [cost EXCEPT ![req[r].pos] = req[r].cost]
        /\ UNCHANGED <<marks, period, store>>
    BY <1>2 DEF EditCommit
  <2>3. TypeOK'
    BY <2>1, <2>2, FinishOK DEF Inv, TypeOK, EditLocal
  <2>4. RequestsOK'
    BY <2>2, FinishOK, OthersKeep DEF Finish
  <2>5. PeriodsOK'
    BY <2>2, FinishOK, PeriodsKeep
  <2> QED
    BY <2>3, <2>4, <2>5 DEF Inv
<1> QED
  BY <1>1, <1>2 DEF EditPosition

(* A transaction that is rolled back, and a step that changes nothing. *)
LEMMA RollbackOK ==
  ASSUME Inv, NEW r \in Requests, Rollback(r)
  PROVE  Inv'
<1>1. Finish(r, pc[r]) /\ UNCHANGED <<cost, marks, period, store>>
  BY DEF Rollback, tables
<1>2. TypeOK'
  BY <1>1, FinishOK DEF Inv, TypeOK
<1>3. RequestsOK'
  BY <1>1, FinishOK, OthersKeep DEF Finish
<1>4. PeriodsOK'
  BY <1>1, FinishOK, PeriodsKeep, Kinds
<1> QED
  BY <1>2, <1>3, <1>4 DEF Inv
-----------------------------------------------------------------------------
(* The books assembled from a snapshot of the positions make a pack that   *)
(* is of its date.                                                         *)
LEMMA BooksOfDate ==
  ASSUME Inv, NEW c \in [Positions -> Costs], NEW t \in LockDates, NEW r \in Lockers,
         NEW b \in Books(c, t)
  PROVE  LET k == [asOf |-> t, by |-> r, lines |-> b]
         IN  k \in Pack /\ OfItsDate(k)
<1> DEFINE k == [asOf |-> t, by |-> r, lines |-> b]
<1>1. k \in Pack
  BY DEF Books, Pack
<1>2. ASSUME NEW p \in Positions, b[p].mark # Absent
      PROVE  b[p].mark \in marks /\ b[p].mark.pos = p /\ b[p].mark.asOf <= t
  BY <1>2 DEF Books, Found, UpTo
<1>3. OfItsDate(k)
  BY <1>2 DEF OfItsDate
<1> QED
  BY <1>1, <1>3

LEMMA LockBeforeCommitOK ==
  ASSUME Inv, NEW r \in Lockers,
         (\E t \in LockDates : LockPositions(r, t)) \/ LockMarks(r) \/ LockPut(r) \/ LockSelect(r)
  PROVE  Inv'
<1> USE Kinds
<1>1. ASSUME NEW t \in LockDates, LockPositions(r, t)
      PROVE  Inv'
  <2> DEFINE l == [asOf |-> t, costs |-> cost]
  <2>1. l \in BookLocal /\ l \in Locals
    BY DEF BookLocal, Locals, Inv, TypeOK
  <2>2. Step(r, "idle", "marks", l)
    BY <1>1 DEF LockPositions
  <2>3. RequestOK(r)'
    BY <2>1, <2>2, StepOK DEF RequestOK
  <2>4. TypeOK'
    BY <1>1, <2>1, <2>2, StepOK DEF LockPositions, tables, Inv, TypeOK
  <2>5. RequestsOK'
    BY <1>1, <2>2, <2>3, OthersKeep DEF LockPositions, tables
  <2>6. PeriodsOK'
    BY <1>1, <2>1, <2>2, StepOK, PeriodsKeep DEF LockPositions, tables
  <2> QED
    BY <2>4, <2>5, <2>6 DEF Inv
<1>2. ASSUME LockMarks(r)
      PROVE  Inv'
  <2>1. PICK b \in Books(req[r].costs, req[r].asOf) :
          Step(r, "marks", "put", [pack |-> [asOf |-> req[r].asOf, by |-> r, lines |-> b]])
    BY <1>2 DEF LockMarks
  <2> DEFINE k == [asOf |-> req[r].asOf, by |-> r, lines |-> b]
             l == [pack |-> k]
  <2>2. req[r] \in BookLocal
    BY <1>2 DEF LockMarks, Inv, RequestsOK, RequestOK
  <2>3. req[r].asOf \in LockDates /\ req[r].costs \in [Positions -> Costs]
    BY <2>2 DEF BookLocal
  <2>4. k \in Pack /\ OfItsDate(k)
    BY <2>3, BooksOfDate
  <2>5. l \in PackLocal /\ l \in Locals
    BY <2>4 DEF PackLocal, Locals
  <2>6. UNCHANGED <<cost, marks, period, store>>
    BY <1>2 DEF LockMarks, tables
  <2>7. Step(r, "marks", "put", l)
    BY <2>1
  <2>8. pc'[r] = "put" /\ req'[r] = l
    BY <2>5, <2>7, StepOK
  <2>9. HoldsPack(r)'
    BY <2>4, <2>6, <2>8 DEF HoldsPack, OfItsDate
  <2>10. RequestOK(r)'
    BY <2>5, <2>8, <2>9 DEF RequestOK
  <2>11. TypeOK'
    BY <2>5, <2>6, <2>7, StepOK DEF Inv, TypeOK
  <2>12. RequestsOK'
    BY <2>6, <2>7, <2>10, OthersKeep
  <2>13. PeriodsOK'
    BY <2>5, <2>6, <2>7, StepOK, PeriodsKeep
  <2> QED
    BY <2>11, <2>12, <2>13 DEF Inv
<1>3. ASSUME LockPut(r)
      PROVE  Inv'
  <2>1. Step(r, "put", "select", req[r]) /\ store' = store \cup {req[r].pack}
        /\ UNCHANGED <<cost, marks, period>>
    BY <1>3 DEF LockPut, tables
  <2>2. HoldsPack(r) /\ req[r] \in PackLocal
    BY <2>1 DEF Step, Inv, RequestsOK, RequestOK
  <2>3. req[r] \in Locals /\ req[r].pack \in Pack
    BY <2>2 DEF Locals, HoldsPack
  <2>4. pc'[r] = "select" /\ req'[r] = req[r]
    BY <2>1, <2>3, StepOK
  <2>5. HoldsPack(r)'
    BY <2>1, <2>2, <2>4 DEF HoldsPack, OfItsDate
  <2>6. RequestOK(r)'
    BY <2>1, <2>2, <2>4, <2>5 DEF RequestOK
  <2>7. TypeOK'
    BY <2>1, <2>3, StepOK DEF Inv, TypeOK
  <2>8. RequestsOK'
    BY <2>1, <2>6, OthersKeep
  <2>9. PeriodsOK'
    BY <2>1, <2>3, StepOK, PeriodsKeep
  <2> QED
    BY <2>7, <2>8, <2>9 DEF Inv
<1>4. ASSUME LockSelect(r)
      PROVE  Inv'
  <2> DEFINE l == [pack |-> req[r].pack, exists |-> period[req[r].pack.asOf] # Absent]
  <2>1. Step(r, "select", "write", l) /\ UNCHANGED <<cost, marks, period, store>>
    BY <1>4 DEF LockSelect, tables
  <2>2. HoldsPack(r) /\ req[r].pack \in store
    BY <2>1 DEF Step, Inv, RequestsOK, RequestOK
  <2>3. l \in RowLocal /\ l \in Locals
    BY <2>2 DEF HoldsPack, RowLocal, Locals
  <2>4. pc'[r] = "write" /\ req'[r] = l
    BY <2>1, <2>3, StepOK
  <2>5. HoldsPack(r)'
    BY <2>1, <2>2, <2>4 DEF HoldsPack, OfItsDate
  <2>6. RequestOK(r)'
    BY <2>1, <2>2, <2>3, <2>4, <2>5 DEF RequestOK
  <2>7. TypeOK'
    BY <2>1, <2>3, StepOK DEF Inv, TypeOK
  <2>8. RequestsOK'
    BY <2>1, <2>6, OthersKeep
  <2>9. PeriodsOK'
    BY <2>1, <2>3, StepOK, PeriodsKeep
  <2> QED
    BY <2>7, <2>8, <2>9 DEF Inv
<1> QED
  BY <1>1, <1>2, <1>3, <1>4

(* The commit of a lock names a pack that is stored, of its date and new.  *)
LEMMA LockCommitOK ==
  ASSUME Inv, NEW r \in Lockers, LockCommit(r)
  PROVE  Inv'
<1> USE Kinds
<1> DEFINE k == req[r].pack
           t == k.asOf
<1>1. /\ Finish(r, "write")
      /\ period' = [period EXCEPT ![t] = [status |-> "locked", pack |-> k]]
      /\ UNCHANGED <<cost, marks, store>>
  BY DEF LockCommit
<1>2. HoldsPack(r) /\ k \in store
  BY <1>1 DEF Finish, Step, Inv, RequestsOK, RequestOK
<1>3. k \in Pack /\ t \in LockDates /\ k.by = r /\ OfItsDate(k)
  BY <1>2 DEF HoldsPack, Pack
<1>4. [status |-> "locked", pack |-> k] \in Period
  BY <1>3 DEF Period
<1>5. period' \in [LockDates -> Period \cup {Absent}]
  BY <1>1, <1>3, <1>4 DEF Inv, TypeOK
<1>6. /\ period'[t].pack = k /\ period'[t] # Absent
      /\ \A u \in LockDates : u # t => period'[u] = period[u]
  BY <1>1, <1>3, <1>4, NavLockAssumption DEF Inv, TypeOK
<1>7. TypeOK'
  BY <1>1, <1>5, FinishOK DEF Inv, TypeOK
<1>8. RequestsOK'
  <2>1. \A u \in LockDates : period[u] # Absent => period'[u] # Absent
    BY <1>6
  <2> QED
    BY <1>1, <2>1, FinishOK, OthersKeep DEF Finish
<1>9. PackIsStored'
  BY <1>1, <1>2, <1>6 DEF Inv, PeriodsOK, PackIsStored
<1>10. PackIsOfItsDate'
  BY <1>1, <1>3, <1>6 DEF Inv, PeriodsOK, PackIsOfItsDate, OfItsDate
<1>11. PackIsNew'
  <2> SUFFICES ASSUME NEW q \in Lockers, NEW u \in LockDates, pc'[q] # "done", period'[u] # Absent
               PROVE  period'[u].pack.by # q
    BY DEF PackIsNew
  <2>1. pc[q] # "done" /\ q # r
    BY <1>1 DEF Finish, Step, Inv, TypeOK
  <2> QED
    BY <2>1, <1>3, <1>6 DEF Inv, PeriodsOK, PackIsNew
<1> QED
  BY <1>7, <1>8, <1>9, <1>10, <1>11 DEF Inv, PeriodsOK

LEMMA UnlockOK ==
  ASSUME Inv, NEW r \in Unlockers, Unlock(r)
  PROVE  Inv'
<1> USE Kinds
<1>1. ASSUME NEW t \in LockDates, UnlockSelect(r, t)
      PROVE  Inv'
  <2> DEFINE l == [asOf |-> t, pack |-> period[t].pack]
  <2>1. Step(r, "idle", "unlock", l) /\ UNCHANGED <<cost, marks, period, store>> /\ period[t] # Absent
    BY <1>1 DEF UnlockSelect, tables, Locked
  <2>2. period[t] \in Period
    BY <2>1 DEF Inv, TypeOK
  <2>3. l \in UnlockLocal /\ l \in Locals
    BY <2>2 DEF Period, UnlockLocal, Locals
  <2>4. pc'[r] = "unlock" /\ req'[r] = l
    BY <2>1, <2>3, StepOK
  <2>5. RequestOK(r)'
    BY <2>1, <2>3, <2>4 DEF RequestOK
  <2>6. TypeOK'
    BY <2>1, <2>3, StepOK DEF Inv, TypeOK
  <2>7. RequestsOK'
    BY <2>1, <2>5, OthersKeep
  <2>8. PeriodsOK'
    BY <2>1, <2>3, StepOK, PeriodsKeep
  <2> QED
    BY <2>6, <2>7, <2>8 DEF Inv
<1>2. ASSUME UnlockCommit(r)
      PROVE  Inv'
  <2> DEFINE t == req[r].asOf
  <2>1. /\ Finish(r, "unlock")
        /\ period' = [period EXCEPT ![t].status = "unofficial"]
        /\ UNCHANGED <<cost, marks, store>>
    BY <1>2 DEF UnlockCommit
  <2>2. t \in LockDates /\ period[t] # Absent
    BY <2>1 DEF Finish, Step, Inv, RequestsOK, RequestOK, UnlockLocal
  <2>3. period[t] \in Period
    BY <2>2 DEF Inv, TypeOK
  <2>4. period'[t] \in Period /\ period'[t].pack = period[t].pack
    BY <2>1, <2>2, <2>3 DEF Inv, TypeOK, Period
  <2>5. \A u \in LockDates : u # t => period'[u] = period[u]
    BY <2>1, <2>2 DEF Inv, TypeOK
  <2>6. period'[t] # Absent
    BY <2>4, NavLockAssumption
  <2>7. TypeOK'
    BY <2>1, <2>4, <2>5, FinishOK DEF Inv, TypeOK
  <2>8. RequestsOK'
    BY <2>1, <2>2, <2>5, <2>6, FinishOK, OthersKeep DEF Finish
  <2>9. PackIsStored'
    BY <2>1, <2>2, <2>4, <2>5 DEF Inv, PeriodsOK, PackIsStored
  <2>10. PackIsOfItsDate'
    <3> SUFFICES ASSUME NEW u \in LockDates, period'[u] # Absent
                 PROVE  /\ period'[u].pack.asOf = u
                        /\ \A p \in Positions :
                             LET m == period'[u].pack.lines[p].mark
                             IN  m # Absent => m \in marks' /\ m.pos = p /\ m.asOf <= u
      BY Zenon DEF PackIsOfItsDate
    <3>1. period[u] # Absent /\ period'[u].pack = period[u].pack
      BY <2>2, <2>4, <2>5
    <3>2. /\ period[u].pack.asOf = u
          /\ \A p \in Positions :
               LET m == period[u].pack.lines[p].mark
               IN  m # Absent => m \in marks /\ m.pos = p /\ m.asOf <= u
      BY <3>1, Zenon DEF Inv, PeriodsOK, PackIsOfItsDate
    <3>3. period'[u].pack.lines = period[u].pack.lines /\ marks' = marks
      BY <2>1, <3>1
    <3> QED
      BY <3>1, <3>2, <3>3
  <2>11. PackIsNew'
    <3>1. \A q \in Lockers : pc'[q] # "done" => pc[q] # "done"
      BY <2>1 DEF Finish, Step, Inv, TypeOK
    <3> QED
      BY <3>1, <2>2, <2>4, <2>5 DEF Inv, PeriodsOK, PackIsNew
  <2> QED
    BY <2>7, <2>8, <2>9, <2>10, <2>11 DEF Inv, PeriodsOK
<1> QED
  BY <1>1, <1>2 DEF Unlock

LEMMA StutterOK ==
  ASSUME Inv, UNCHANGED vars
  PROVE  Inv'
<1>1. UNCHANGED <<cost, marks, period, store, pc, req>>
  BY DEF vars, tables
<1>2. TypeOK'
  BY <1>1 DEF Inv, TypeOK
<1>3. RequestsOK'
  BY <1>1 DEF Inv, RequestsOK, RequestOK, HoldsPack, OfItsDate
<1>4. PeriodsOK'
  BY <1>1, PeriodsKeep
<1> QED
  BY <1>2, <1>3, <1>4 DEF Inv

LEMMA NextOK == Inv /\ [Next]_vars => Inv'
<1> SUFFICES ASSUME Inv, [Next]_vars PROVE Inv'
  OBVIOUS
<1>1. ASSUME NEW r \in Lockers, Lock(r) PROVE Inv'
  BY <1>1, LockBeforeCommitOK, LockCommitOK DEF Lock
<1> QED
  BY <1>1, PostMarkOK, EditPositionOK, UnlockOK, RollbackOK, StutterOK DEF Next
-----------------------------------------------------------------------------
LEMMA Invariance == Spec => []Inv
<1>1. Init => Inv
  BY InitOK
<1>2. Inv /\ [Next]_vars => Inv'
  BY NextOK
<1> QED
  BY <1>1, <1>2, PTL DEF Spec

(* Types of the state of POST /api/nav/marks, PATCH /api/positions/:id,    *)
(* POST /api/nav/lock and /unlock.                                         *)
THEOREM TypeCorrect == Spec => []TypeOK
<1>1. Inv => TypeOK
  BY DEF Inv
<1> QED
  BY <1>1, Invariance, PTL

(* Whatever requests overlap or fail, the pack that a period names is in   *)
(* the object store: the put comes before the row that names it.           *)
THEOREM OfficialPackIsStored == Spec => []PackIsStored
<1>1. Inv => PackIsStored
  BY DEF Inv, PeriodsOK
<1> QED
  BY <1>1, Invariance, PTL

(* The pack of a period is of its date and holds only marks of the book    *)
(* that this date admits, as assembleNavBook finds them.                   *)
THEOREM OfficialPackIsOfItsDate == Spec => []PackIsOfItsDate
<1>1. Inv => PackIsOfItsDate
  BY DEF Inv, PeriodsOK
<1> QED
  BY <1>1, Invariance, PTL
-----------------------------------------------------------------------------
(* What the abstract specification is about. *)
Open     == [t \in LockDates |-> ~Locked(t)]
Official == [t \in LockDates |-> IF period[t] = Absent THEN Absent ELSE period[t].pack]

(* A lock publishes nothing when it commits, and makes official a pack     *)
(* that was published and is official nowhere.                             *)
LEMMA LockCommitRefines ==
  ASSUME Inv, NEW r \in Lockers, LockCommit(r)
  PROVE  \E t \in LockDates : Record!Lock(t)
<1> DEFINE k == req[r].pack
<1>1. /\ Finish(r, "write")
      /\ period' = [period EXCEPT ![k.asOf] = [status |-> "locked", pack |-> k]]
      /\ UNCHANGED store
  BY DEF LockCommit
<1>2. r \in Requests /\ pc[r] = "write"
  BY <1>1, Kinds DEF Finish, Step
<1>3. HoldsPack(r) /\ k \in store
  BY <1>2 DEF Inv, RequestsOK, RequestOK
<1>4. k \in Pack /\ k.asOf \in LockDates /\ k.by = r
  BY <1>3 DEF HoldsPack, Pack
<1> PICK t \in LockDates : t = k.asOf
  BY <1>4
<1>5. [status |-> "locked", pack |-> k] # Absent
  BY <1>4, NavLockAssumption DEF Period
<1>6. period' = [u \in LockDates |-> IF u = t THEN [status |-> "locked", pack |-> k] ELSE period[u]]
  BY <1>1 DEF Inv, TypeOK
<1>7. Official' = [Official EXCEPT ![t] = k] /\ Official'[t] = k
  BY <1>4, <1>5, <1>6 DEF Official
<1>8. Open' = [Open EXCEPT ![t] = FALSE]
  BY <1>4, <1>5, <1>6, Zenon DEF Open, Locked
<1>9. \A u \in LockDates : Official[u] # k
  <2> SUFFICES ASSUME NEW u \in LockDates, period[u] # Absent PROVE period[u].pack # k
    BY <1>4, NavLockAssumption DEF Official
  <2> QED
    BY <1>2, <1>4 DEF Inv, PeriodsOK, PackIsNew
<1>10. Official'[t] \in store \ {Official[u] : u \in LockDates}
  BY <1>3, <1>7, <1>9
<1>11. Official' = [Official EXCEPT ![t] = Official'[t]]
  BY <1>7
<1>12. UNCHANGED store
  BY <1>1
<1>13. Record!Lock(t)
  BY <1>8, <1>10, <1>11, <1>12, Zenon DEF Record!Lock, Open, Official
<1> QED
  BY <1>13

(* An unlock leaves the official pack where it is. *)
LEMMA UnlockCommitRefines ==
  ASSUME Inv, NEW r \in Unlockers, UnlockCommit(r)
  PROVE  \E t \in LockDates : Record!Unlock(t)
<1> DEFINE t == req[r].asOf
<1>1. /\ Finish(r, "unlock")
      /\ period' = [period EXCEPT ![t].status = "unofficial"]
      /\ UNCHANGED store
  BY DEF UnlockCommit
<1>2. t \in LockDates /\ period[t] # Absent
  BY <1>1, Kinds DEF Finish, Step, Inv, RequestsOK, RequestOK, UnlockLocal
<1>3. period[t] \in Period
  BY <1>2 DEF Inv, TypeOK
<1>4. /\ period'[t] \in Period
      /\ period'[t].pack = period[t].pack
      /\ period'[t].status = "unofficial"
  BY <1>1, <1>2, <1>3 DEF Inv, TypeOK, Period
<1>5. \A u \in LockDates : u # t => period'[u] = period[u]
  BY <1>1, <1>2 DEF Inv, TypeOK
<1>6. period'[t] # Absent
  BY <1>4, NavLockAssumption
<1>7. Official' = Official
  BY <1>2, <1>4, <1>5, <1>6 DEF Official
<1>8. Open' = [Open EXCEPT ![t] = TRUE]
  BY <1>2, <1>4, <1>5, Zenon DEF Open, Locked
<1>9. Official[t] # Absent
  BY <1>2, <1>3, NavLockAssumption DEF Official, Period
<1>10. Record!Unlock(t)
  BY <1>1, <1>7, <1>8, <1>9 DEF Record!Unlock, Open, Official
<1> QED
  BY <1>2, <1>10

(* Every other step leaves the periods alone and at most adds a pack.      *)
LEMMA OthersPublish ==
  ASSUME Inv, UNCHANGED period, store \subseteq store'
  PROVE  Record!Publish
<1>1. Official' = Official /\ Open' = Open
  BY DEF Official, Open, Locked
<1> QED
  BY <1>1 DEF Record!Publish, Official, Open

LEMMA NextRefines ==
  ASSUME Inv, [Next]_vars
  PROVE  Record!Next \/ UNCHANGED <<store, Official, Open>>
<1>1. ASSUME NEW r \in Lockers, LockCommit(r) PROVE Record!Next
  BY <1>1, LockCommitRefines DEF Record!Next
<1>2. ASSUME NEW r \in Unlockers, UnlockCommit(r) PROVE Record!Next
  BY <1>2, UnlockCommitRefines DEF Record!Next
<1>3. ASSUME UNCHANGED period, store \subseteq store' PROVE Record!Next
  BY <1>3, OthersPublish DEF Record!Next
<1>4. ASSUME NEW r \in Markers, PostMark(r) PROVE UNCHANGED <<period, store>>
  BY <1>4 DEF PostMark, MarkCheck, MarkCommit, tables
<1>5. ASSUME NEW r \in Editors, EditPosition(r) PROVE UNCHANGED <<period, store>>
  BY <1>5 DEF EditPosition, EditRead, EditCommit, tables
<1>6. ASSUME NEW r \in Lockers, Lock(r)
      PROVE  LockCommit(r) \/ (UNCHANGED period /\ store \subseteq store')
  BY <1>6 DEF Lock, LockPositions, LockMarks, LockPut, LockSelect, tables
<1>7. ASSUME NEW r \in Unlockers, Unlock(r)
      PROVE  UnlockCommit(r) \/ UNCHANGED <<period, store>>
  BY <1>7 DEF Unlock, UnlockSelect, tables
<1>8. ASSUME NEW r \in Requests, Rollback(r) PROVE UNCHANGED <<period, store>>
  BY <1>8 DEF Rollback, tables
<1>9. ASSUME UNCHANGED vars PROVE UNCHANGED <<period, store>>
  BY <1>9 DEF vars, tables
<1> QED
  BY <1>1, <1>2, <1>3, <1>4, <1>5, <1>6, <1>7, <1>8, <1>9 DEF Next

(* DECISION.md D7 holds of every lock, unlock and relock: NavLock          *)
(* implements OfficialRecord.                                              *)
THEOREM RecordIsKept == Spec => KeepsRecord
<1>1. Init => Record!Init
  BY DEF Init, Record!Init, Locked
<1>2. Inv /\ [Next]_vars => [Record!Next]_<<store, Official, Open>>
  BY NextRefines
<1> QED
  BY <1>1, <1>2, Invariance, PTL DEF Spec, KeepsRecord, Record!Spec, Official, Open
=============================================================================
