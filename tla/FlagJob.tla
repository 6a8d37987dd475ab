------------------------------- MODULE FlagJob -------------------------------
(***************************************************************************)
(* Risk flags.  A confirm changes what the detectors find in the book and, *)
(* after its commit, enqueues a refresh; a writer may ask for one as well. *)
(* A refresh is one transaction that walks over the companies and for each *)
(* detects, reads the held flags, clears the open ones and raises what it  *)
(* found.  Meanwhile users snooze, mute and unmute single flags.           *)
(*                                                                         *)
(* READ COMMITTED: the UPDATE that clears waits for rows another open      *)
(* transaction has updated and then looks at them again; rows committed    *)
(* after it began it does not see.  A flag row is known by the refresh,    *)
(* the company and the flag key (detectAll finds a key at most once); the  *)
(* rows that are open at the start have Nobody as their refresh.           *)
(***************************************************************************)
EXTENDS Integers, FiniteSets

CONSTANTS
  Companies,
  FlagKeys,
  First,      \* the keys found, and open on the list, in every company at the start
  Jobs,       \* requests that change the book or refresh the flags (bound: each runs once)
  Ops,        \* what may happen, a subset of Operations
  MaxTime,    \* bound of the clock
  Nobody

Operations == {"confirm", "snooze", "mute", "unmute", "auto_confirm", "inline", "fail"}
Rows == (Jobs \cup {Nobody}) \X Companies \X FlagKeys
RowsOf(c) == {f \in Rows : f[2] = c}
Key(f) == f[3]

ASSUME FlagJobAssumption ==
  /\ MaxTime \in Nat
  /\ Ops \subseteq Operations
  /\ First \subseteq FlagKeys
  /\ Nobody \notin Companies \cup Jobs

VARIABLES
  cond,    \* what the detectors find in the book of each company
  status,  \* flag_events.status, "none" before the row is committed
  until,   \* flag_events.snoozed_until
  now,     \* the clock
  pc,      \* where each request is
  worker,  \* the refresh the worker runs: it takes one job at a time
  todo,    \* the companies its refresh has still to visit
  co,      \* the one it is visiting
  found,   \* of each company: the keys it detected, the held ones, and when
  aim,     \* the rows its UPDATE saw as open
  cleared, \* the rows it has cleared, which stay locked until it ends
  raised   \* the rows it has inserted

flags  == <<status, until>>
locals == <<todo, co, found, aim, cleared, raised>>
vars   == <<cond, flags, now, pc, worker, locals>>

Running == {"visit", "held", "aim", "clear"}

Init ==
  /\ cond = [c \in Companies |-> First]
  /\ status = [f \in Rows |-> IF f[1] = Nobody /\ Key(f) \in First THEN "open" ELSE "none"]
  /\ until = [f \in Rows |-> 0]
  /\ now = 0
  /\ pc = [j \in Jobs |-> "idle"]
  /\ worker = Nobody
  /\ todo = [j \in Jobs |-> {}]
  /\ co = [j \in Jobs |-> Nobody]
  /\ found = [j \in Jobs |-> [c \in Companies |-> [keys |-> {}, skip |-> {}, at |-> 0]]]
  /\ aim = [j \in Jobs |-> {}]
  /\ cleared = [j \in Jobs |-> {}]
  /\ raised = [j \in Jobs |-> {}]
-----------------------------------------------------------------------------
Go(j, from, to) == pc[j] = from /\ pc' = [pc EXCEPT ![j] = to]

BookChanges == \E c \in Companies, S \in SUBSET FlagKeys : cond' = [cond EXCEPT ![c] = S]

(* Mutant: nothing is enqueued for a confirm. *)
ConfirmQuietly(j) ==
  /\ "confirm" \in Ops
  /\ Go(j, "idle", "done")
  /\ BookChanges
  /\ UNCHANGED <<flags, now, worker, locals>>

(* A confirm commits; enqueueFlags comes after it, as a step of its own.   *)
Confirm(j) ==
  /\ "confirm" \in Ops
  /\ Go(j, "idle", "confirmed")
  /\ BookChanges
  /\ UNCHANGED <<flags, now, worker, locals>>

Enqueue(j) ==
  /\ Go(j, "confirmed", "queued")
  /\ UNCHANGED <<cond, flags, now, worker, locals>>

(* A parse job auto-confirms figures: nothing is enqueued.                 *)
AutoConfirm(j) ==
  /\ "auto_confirm" \in Ops
  /\ Go(j, "idle", "done")
  /\ BookChanges
  /\ UNCHANGED <<flags, now, worker, locals>>

(* The API runs the refresh itself: POST /api/flags/refresh always does,   *)
(* enqueueFlags when Redis does not answer in time.                        *)
RunInline(j) ==
  /\ "inline" \in Ops
  /\ Go(j, "idle", "visit") \/ Go(j, "confirmed", "visit")
  /\ todo' = [todo EXCEPT ![j] = Companies]
  /\ UNCHANGED <<cond, flags, now, worker, co, found, aim, cleared, raised>>

(* Mutant: the worker takes jobs without waiting for the one it runs. *)
StartAnyway(j) ==
  /\ Go(j, "queued", "visit")
  /\ worker' = j
  /\ todo' = [todo EXCEPT ![j] = Companies]
  /\ UNCHANGED <<cond, flags, now, co, found, aim, cleared, raised>>

Start(j) ==
  /\ worker = Nobody
  /\ Go(j, "queued", "visit")
  /\ worker' = j
  /\ todo' = [todo EXCEPT ![j] = Companies]
  /\ UNCHANGED <<cond, flags, now, co, found, aim, cleared, raised>>

(* The next company, in whatever order the SELECT has: metrics, marks and  *)
(* notes are read and detectAll is run.                                    *)
Detect(j, c) ==
  /\ Go(j, "visit", "held")
  /\ c \in todo[j]
  /\ todo' = [todo EXCEPT ![j] = @ \ {c}]
  /\ co' = [co EXCEPT ![j] = c]
  /\ found' = [found EXCEPT ![j][c].keys = cond[c]]
  /\ UNCHANGED <<cond, flags, now, worker, aim, cleared, raised>>

(* Mutant: a flag that was cleared once is skipped as well. *)
HeldOrCleared(f) == status[f] \in {"muted", "cleared"} \/ (status[f] = "snoozed" /\ until[f] > now)

HeldNow(f) == status[f] = "muted" \/ (status[f] = "snoozed" /\ until[f] > now)

ReadHeld(j) ==
  LET skip == {Key(f) : f \in {g \in RowsOf(co[j]) : HeldNow(g)}} IN
  /\ Go(j, "held", "aim")
  /\ found' = [found EXCEPT ![j][co[j]].skip = skip, ![j][co[j]].at = now]
  /\ UNCHANGED <<cond, flags, now, worker, todo, co, aim, cleared, raised>>

(* The UPDATE of the open rows: the ones it sees ...                       *)
Aim(j) ==
  /\ Go(j, "aim", "clear")
  /\ aim' = [aim EXCEPT ![j] = {f \in RowsOf(co[j]) : status[f] = "open"}]
  /\ UNCHANGED <<cond, flags, now, worker, todo, co, found, cleared, raised>>

LockedByOther(j, f) == \E i \in Jobs \ {j} : f \in cleared[i]

(* Mutant: the rows are cleared by the ids that were read. *)
StillOpenById(f) == TRUE

StillOpen(f) == status[f] = "open"

(* ... are cleared when no other transaction holds one of them any more,   *)
(* if they are open then; and the flags that are not held are raised.      *)
ClearAndRaise(j) ==
  LET c == co[j] IN
  /\ Go(j, "clear", "visit")
  /\ \A f \in aim[j] : ~LockedByOther(j, f)
  /\ cleared' = [cleared EXCEPT ![j] = @ \cup {f \in aim[j] : StillOpen(f)}]
  /\ raised' = [raised EXCEPT ![j] = @ \cup {<<j, c, k>> : k \in found[j][c].keys \ found[j][c].skip}]
  /\ aim' = [aim EXCEPT ![j] = {}]
  /\ UNCHANGED <<cond, flags, now, worker, todo, co, found>>

Commit(j) ==
  /\ todo[j] = {}
  /\ Go(j, "visit", "done")
  /\ status' = [f \in Rows |-> CASE f \in cleared[j] -> "cleared"
                                 [] f \in raised[j]  -> "open"
                                 [] OTHER            -> status[f]]
  /\ cleared' = [cleared EXCEPT ![j] = {}]
  /\ worker' = IF worker = j THEN Nobody ELSE worker
  /\ UNCHANGED <<cond, until, now, todo, co, found, aim, raised>>

(* Mutant: the connection goes back to the pool with its locks. *)
GiveUpHalf(j) ==
  /\ pc' = [pc EXCEPT ![j] = "lost"]
  /\ worker' = IF worker = j THEN Nobody ELSE worker
  /\ UNCHANGED <<cond, flags, now, todo, co, found, aim, cleared, raised>>

(* Whatever ends a refresh early rolls it back; nothing starts it again.   *)
GiveUp(j) ==
  /\ pc' = [pc EXCEPT ![j] = "lost"]
  /\ cleared' = [cleared EXCEPT ![j] = {}]
  /\ aim' = [aim EXCEPT ![j] = {}]
  /\ worker' = IF worker = j THEN Nobody ELSE worker
  /\ UNCHANGED <<cond, flags, now, todo, co, found, raised>>

(* Two refreshes wait for each other's rows: Postgres ends one of them.    *)
Waiting(j) == pc[j] = "clear" /\ \E f \in aim[j] : LockedByOther(j, f)

Deadlock(j) ==
  /\ Waiting(j)
  /\ \E i \in Jobs \ {j} : Waiting(i) /\ aim[j] \cap cleared[i] # {} /\ aim[i] \cap cleared[j] # {}
  /\ GiveUp(j)

(* The process or the database fails, before the refresh was enqueued or   *)
(* while it runs.                                                          *)
Fail(j) ==
  /\ "fail" \in Ops
  /\ pc[j] \in Running \cup {"confirmed"}
  /\ GiveUp(j)
-----------------------------------------------------------------------------
(* The three handlers: one UPDATE by id, whatever the status of the row    *)
(* is; it waits while a refresh holds the row.                             *)
Free(f) == status[f] # "none" /\ \A j \in Jobs : f \notin cleared[j]

SetFlag(f, s, t) ==
  /\ Free(f)
  /\ status' = [status EXCEPT ![f] = s]
  /\ until' = [until EXCEPT ![f] = t]
  /\ UNCHANGED <<cond, now, pc, worker, locals>>

Snooze(f) == "snooze" \in Ops /\ SetFlag(f, "snoozed", now + 1)
Mute(f)   == "mute" \in Ops /\ SetFlag(f, "muted", until[f])
Unmute(f) == "unmute" \in Ops /\ SetFlag(f, "open", 0)

Tick ==
  /\ now < MaxTime
  /\ now' = now + 1
  /\ UNCHANGED <<cond, flags, pc, worker, locals>>
-----------------------------------------------------------------------------
Refresh(j) ==
  \/ Start(j)
  \/ \E c \in Companies : Detect(j, c)
  \/ ReadHeld(j)
  \/ Aim(j)
  \/ ClearAndRaise(j)
  \/ Commit(j)

Next ==
  \/ \E j \in Jobs : \/ Confirm(j) \/ Enqueue(j) \/ AutoConfirm(j) \/ RunInline(j)
                     \/ Refresh(j) \/ Deadlock(j) \/ Fail(j)
  \/ \E f \in Rows : Snooze(f) \/ Mute(f) \/ Unmute(f)
  \/ Tick

Spec == Init /\ [][Next]_vars

(* The API goes on after a commit, the worker takes the next job and runs  *)
(* it, Postgres finds deadlocks.  Nobody has to confirm or to mute.        *)
FairSpec == Spec /\ \A j \in Jobs : WF_vars(Enqueue(j)) /\ WF_vars(Refresh(j)) /\ WF_vars(Deadlock(j))
-----------------------------------------------------------------------------
(* Types of the state. *)
TypeOK ==
  /\ cond \in [Companies -> SUBSET FlagKeys]
  /\ status \in [Rows -> {"none", "open", "cleared", "snoozed", "muted"}]
  /\ until \in [Rows -> 0..MaxTime + 1]
  /\ now \in 0..MaxTime
  /\ pc \in [Jobs -> Running \cup {"idle", "confirmed", "queued", "done", "lost"}]
  /\ worker \in Jobs \cup {Nobody}
  /\ todo \in [Jobs -> SUBSET Companies]
  /\ co \in [Jobs -> Companies \cup {Nobody}]
  /\ found \in [Jobs -> [Companies -> [keys : SUBSET FlagKeys, skip : SUBSET FlagKeys, at : 0..MaxTime]]]
  /\ aim \in [Jobs -> SUBSET Rows]
  /\ cleared \in [Jobs -> SUBSET Rows]
  /\ raised \in [Jobs -> SUBSET Rows]

RowsFor(c, k) == {f \in RowsOf(c) : Key(f) = k}
Shown(c, k)   == \E f \in RowsFor(c, k) : status[f] = "open"
Muted(c, k)   == \E f \in RowsFor(c, k) : status[f] = "muted"
HeldAt(c, k, t) == Muted(c, k) \/ \E f \in RowsFor(c, k) : status[f] = "snoozed" /\ until[f] > t
Held(c, k)    == HeldAt(c, k, -1)

(* A refresh never clears a row that a user has muted or snoozed, even one *)
(* that was open when its UPDATE began.                                    *)
HeldRowsStay ==
  [][\A f \in Rows : status[f] \in {"muted", "snoozed"} => status'[f] # "cleared"]_vars

(* After a refresh every condition it found is on the list, unless it is   *)
(* muted or snoozed beyond the time the refresh read: mutes and snoozes    *)
(* that end beside a refresh lose no alert.                                *)
NoAlertLost ==
  [][\A j \in Jobs : Commit(j) =>
       \A c \in Companies : \A k \in found[j][c].keys :
         Shown(c, k)' \/ HeldAt(c, k, found[j][c].at)']_vars

(* With one refresh at a time a condition is on the list once.             *)
ShownOnce ==
  \A c \in Companies, k \in FlagKeys : Cardinality({f \in RowsFor(c, k) : status[f] = "open"}) <= 1

(* The list agrees with the book of a company. *)
Settled(c) ==
  \A k \in FlagKeys : /\ Shown(c, k) => k \in cond[c]
                      /\ k \in cond[c] => Shown(c, k) \/ Held(c, k)

(* The brief: open flags are live, with no manual updates.  Once nobody    *)
(* changes the book any more the list comes to agree with it, unless a     *)
(* refresh was lost.                                                       *)
FlagsCatchUp == <>[](\/ \A c \in Companies : Settled(c)
                     \/ \E j \in Jobs : pc[j] = "lost")

(* Refreshes end, also those that wait for each other's rows.              *)
RefreshesEnd ==
  \A j \in Jobs : (pc[j] \in Running \cup {"queued"}) ~> (pc[j] \in {"done", "lost"})
=============================================================================
