------------------------------- MODULE NavLock -------------------------------
(***************************************************************************)
(* The NAV ritual of one fund: writers add marks and edit positions, a     *)
(* partner locks an as-of, which freezes the book of that date as a pack   *)
(* in the object store, and may unlock it again.  Every request is one     *)
(* Postgres transaction at READ COMMITTED without row locks: each SELECT   *)
(* is a step of its own, and the one write that a request does to a table  *)
(* is a step together with its commit.                                     *)
(*                                                                         *)
(* Dates are numbers.  A mark is known by its position, its date and the   *)
(* request that posted it (marks are never edited); a pack by its content, *)
(* as its storage key is the hash of that, lockedBy and lockedAt included. *)
(***************************************************************************)
EXTENDS Integers

CONSTANTS
  Positions,
  MarkDates,  \* the as-of dates writers post marks for
  LockDates,  \* the as-of dates partners lock
  Costs,      \* cost bases
  FirstCost,
  Absent,     \* no row, or a field the body leaves out
  Markers,    \* requests that post a mark   (bound: each runs once)
  Editors,    \* requests that edit a position (bound: each runs once)
  Lockers,    \* requests that lock          (bound: each runs once)
  Unlockers   \* requests that unlock

Requests == Markers \cup Editors \cup Lockers \cup Unlockers
Mark     == [pos : Positions, asOf : MarkDates, by : Markers]
Line     == [cost : Costs, mark : Mark \cup {Absent}]        \* a position of a pack
Pack     == [asOf : LockDates, by : Lockers, lines : [Positions -> Line]]
Period   == [status : {"unofficial", "locked"}, pack : Pack] \* a row of nav_period_locks

(* What a request holds between its steps. *)
MarkLocal   == Mark
EditLocal   == [pos : Positions, cost : Costs]
BookLocal   == [asOf : LockDates, costs : [Positions -> Costs]]
PackLocal   == [pack : Pack]
RowLocal    == [pack : Pack, exists : BOOLEAN]
UnlockLocal == [asOf : LockDates, pack : Pack]
Locals      == MarkLocal \cup EditLocal \cup BookLocal \cup PackLocal \cup RowLocal \cup UnlockLocal

ASSUME NavLockAssumption ==
  /\ MarkDates \subseteq Nat /\ LockDates \subseteq Nat
  /\ FirstCost \in Costs
  /\ Absent \notin Costs \cup Mark \cup Pack \cup Period
  /\ Markers \cap (Editors \cup Lockers \cup Unlockers) = {}
  /\ Editors \cap (Lockers \cup Unlockers) = {}
  /\ Lockers \cap Unlockers = {}

VARIABLES
  cost,   \* positions.cost_basis
  marks,  \* the committed rows of marks
  period, \* nav_period_locks: one row per as-of, or Absent
  store,  \* the packs in the object store
  pc,     \* where each request is
  req     \* its locals, Absent when it is not under way

tables == <<cost, marks, period>>
vars == <<tables, store, pc, req>>

Init ==
  /\ cost = [p \in Positions |-> FirstCost]
  /\ marks = {}
  /\ period = [t \in LockDates |-> Absent]
  /\ store = {}
  /\ pc = [r \in Requests |-> "idle"]
  /\ req = [r \in Requests |-> Absent]
-----------------------------------------------------------------------------
(* The mark that counts for a position at a date: one of its latest marks  *)
(* up to it.  The comparator of the sort gives marks of one date no order  *)
(* and the SELECT has none, so which of them is found is open.             *)
UpToAny(p, t) == {m \in marks : m.pos = p}   \* mutant: later marks count too
UpTo(p, t) == {m \in marks : m.pos = p /\ m.asOf <= t}
Found(p, t) ==
  IF UpTo(p, t) = {} THEN {Absent}
  ELSE {m \in UpTo(p, t) : \A n \in UpTo(p, t) : n.asOf <= m.asOf}

(* assembleNavBook over the costs c: the lines it may come to. *)
Books(c, t) ==
  {b \in [Positions -> Line] : \A p \in Positions : b[p].cost = c[p] /\ b[p].mark \in Found(p, t)}

(* isNavPeriodLocked, of the row of a date or of none. *)
Locked(t) == t \in LockDates /\ period[t] # Absent /\ period[t].status = "locked"

Step(r, from, to, locals) ==
  /\ pc[r] = from
  /\ pc' = [pc EXCEPT ![r] = to]
  /\ req' = [req EXCEPT ![r] = locals]

Finish(r, from) == Step(r, from, IF r \in Unlockers THEN "idle" ELSE "done", Absent)

(* An error, a crash or a refusal of the database. *)
Rollback(r) ==
  /\ pc[r] \notin {"idle", "done"}
  /\ Finish(r, pc[r])
  /\ UNCHANGED <<tables, store>>
-----------------------------------------------------------------------------
(* POST /api/nav/marks: the gate looks at the period of the mark's date.   *)
MarkCheck(r, p, t) ==
  /\ ~Locked(t)
  /\ Step(r, "idle", "mark", [pos |-> p, asOf |-> t, by |-> r])
  /\ UNCHANGED <<tables, store>>

MarkCommit(r) ==
  /\ Finish(r, "mark")
  /\ marks' = marks \cup {req[r]}
  /\ UNCHANGED <<cost, period, store>>

(* PATCH /api/positions/:id: every column is written, those the body       *)
(* leaves out with the value that was read.  No period is looked at.       *)
EditRead(r, p, c) ==
  /\ Step(r, "idle", "edit", [pos |-> p, cost |-> IF c = Absent THEN cost[p] ELSE c])
  /\ UNCHANGED <<tables, store>>

EditCommit(r) ==
  /\ Finish(r, "edit")
  /\ cost' = [cost EXCEPT ![req[r].pos] = req[r].cost]
  /\ UNCHANGED <<marks, period, store>>
-----------------------------------------------------------------------------
(* POST /api/nav/lock.  freezeNavPack reads the positions, then the marks, *)
(* and puts the pack into the store before the row that names it.          *)
LockPositions(r, t) ==
  /\ Step(r, "idle", "marks", [asOf |-> t, costs |-> cost])
  /\ UNCHANGED <<tables, store>>

LockMarks(r) ==
  /\ pc[r] = "marks"
  /\ \E b \in Books(req[r].costs, req[r].asOf) :
       Step(r, "marks", "put", [pack |-> [asOf |-> req[r].asOf, by |-> r, lines |-> b]])
  /\ UNCHANGED <<tables, store>>

(* Mutant: the put is not awaited and fails. *)
LockPutLost(r) ==
  /\ Step(r, "put", "select", req[r])
  /\ UNCHANGED <<tables, store>>

LockPut(r) ==
  /\ Step(r, "put", "select", req[r])
  /\ store' = store \cup {req[r].pack}
  /\ UNCHANGED tables

LockSelect(r) ==
  LET t == req[r].pack.asOf IN
  /\ Step(r, "select", "write", [pack |-> req[r].pack, exists |-> period[t] # Absent])
  /\ UNCHANGED <<tables, store>>

(* UPDATE of the row that was found, by its id, or INSERT of a new one,    *)
(* which the unique index refuses when another lock has come first.        *)
LockCommit(r) ==
  LET t == req[r].pack.asOf IN
  /\ Finish(r, "write")
  /\ ~req[r].exists => period[t] = Absent
  /\ period' = [period EXCEPT ![t] = [status |-> "locked", pack |-> req[r].pack]]
  /\ UNCHANGED <<cost, marks, store>>
-----------------------------------------------------------------------------
(* POST /api/nav/unlock: the status is read first, the UPDATE is by id.    *)
UnlockSelect(r, t) ==
  /\ Locked(t)
  /\ Step(r, "idle", "unlock", [asOf |-> t, pack |-> period[t].pack])
  /\ UNCHANGED <<tables, store>>

(* Mutant: the unlock writes back the row it read. *)
UnlockWritesRow(r) ==
  /\ Finish(r, "unlock")
  /\ period' = [period EXCEPT ![req[r].asOf] = [status |-> "unofficial", pack |-> req[r].pack]]
  /\ UNCHANGED <<cost, marks, store>>

UnlockCommit(r) ==
  /\ Finish(r, "unlock")
  /\ period' = [period EXCEPT ![req[r].asOf].status = "unofficial"]
  /\ UNCHANGED <<cost, marks, store>>
-----------------------------------------------------------------------------
PostMark(r) ==
  \/ \E p \in Positions, t \in MarkDates : MarkCheck(r, p, t)
  \/ MarkCommit(r)

EditPosition(r) ==
  \/ \E p \in Positions, c \in Costs \cup {Absent} : EditRead(r, p, c)
  \/ EditCommit(r)

Lock(r) ==
  \/ \E t \in LockDates : LockPositions(r, t)
  \/ LockMarks(r)
  \/ LockPut(r)
  \/ LockSelect(r)
  \/ LockCommit(r)

Unlock(r) ==
  \/ \E t \in LockDates : UnlockSelect(r, t)
  \/ UnlockCommit(r)

Next ==
  \/ \E r \in Markers : PostMark(r)
  \/ \E r \in Editors : EditPosition(r)
  \/ \E r \in Lockers : Lock(r)
  \/ \E r \in Unlockers : Unlock(r)
  \/ \E r \in Requests : Rollback(r)

Spec == Init /\ [][Next]_vars
-----------------------------------------------------------------------------
(* Types of the state. *)
TypeOK ==
  /\ cost \in [Positions -> Costs]
  /\ marks \subseteq Mark
  /\ period \in [LockDates -> Period \cup {Absent}]
  /\ store \subseteq Pack
  /\ pc \in [Requests -> {"idle", "mark", "edit", "marks", "put", "select", "write", "unlock", "done"}]
  /\ req \in [Requests -> Locals \cup {Absent}]

(* Whatever lock, unlock and relock requests overlap or fail half-way, the *)
(* pack a period names is in the object store: GET /api/nav/snapshot never *)
(* finds a dangling key.                                                   *)
PackIsStored == \A t \in LockDates : period[t] # Absent => period[t].pack \in store

(* The lines of an official pack are evidence of its own date: they hold   *)
(* no mark of a later one and only marks that are in the book.             *)
PackIsOfItsDate ==
  \A t \in LockDates : period[t] # Absent =>
    /\ period[t].pack.asOf = t
    /\ \A p \in Positions :
         LET m == period[t].pack.lines[p].mark
         IN  m # Absent => m \in marks /\ m.pos = p /\ m.asOf <= t

(* DECISION.md D7, as a specification of its own: unlock keeps the last    *)
(* official pack, relock publishes a new one, nothing stored changes.      *)
Record == INSTANCE OfficialRecord WITH
  Dates <- LockDates,
  published <- store,
  open <- [t \in LockDates |-> ~Locked(t)],
  official <- [t \in LockDates |-> IF period[t] = Absent THEN Absent ELSE period[t].pack]

KeepsRecord == Record!Spec
=============================================================================
