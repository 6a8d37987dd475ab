--------------------------- MODULE PackJobsProofs ---------------------------
(***************************************************************************)
(* Proofs about PackJobs for any requests, reports and days.               *)
(***************************************************************************)
EXTENDS PackJobs, FiniteSetTheorems, TLAPS

(* Jobs, requests and the tick are about packs that were drafted. *)
Drafted ==
  /\ \A r \in Reports : queue[r] > 0 \/ r \in late => report[r] # Null
  /\ \A q \in Requests : req[q] # Null => report[req[q].report] # Null
  /\ sched # Null /\ sched.at = "drafted" => sched.report \in Packs

(* A renderer holds the lock of its pack alone, past its put the file is   *)
(* stored, and a request renders the pack it drafted.                      *)
RenderersOK ==
  /\ \A j \in Renderers : render[j] # Null =>
       /\ render[j].report \in Packs
       /\ render[j].at = "put" => render[j].report \in stored
  /\ \A q \in Requests : render[q] # Null => At(q, "inline") /\ req[q].report = render[q].report
  /\ \A j, k \in Renderers :
       render[j] # Null /\ render[k] # Null /\ render[j].report = render[k].report => j = k

DayOK == day >= DaysPerMonth

Inv == TypeOK /\ DayOK /\ Drafted /\ RenderersOK /\ ReadyIsStored /\ QueuedIsAccounted
-----------------------------------------------------------------------------
(* The null value is none of the records, and the worker no request.       *)
LEMMA Nulls ==
  /\ Null \notin Report /\ Null \notin Going /\ Null \notin Rendering /\ Null \notin Ticking
  /\ Worker \in Renderers /\ Worker \notin Requests /\ Requests \subseteq Renderers
BY PackJobsAssumption DEF Renderers

(* The month that ended last is a period. *)
LEMMA PriorMonth ==
  ASSUME Inv PROVE priorMonth \in 0..MaxDay
<1>1. day \in 2..MaxDay /\ MaxDay \in Nat
  BY PackJobsAssumption DEF Inv, TypeOK, DayOK, DaysPerMonth
<1> QED
  BY <1>1 DEF priorMonth, Month, DaysPerMonth

LEMMA Initially ==
  ASSUME Init PROVE Inv
<1> USE DEF Init
<1>0. day \in 0..MaxDay /\ DayOK
  BY PackJobsAssumption DEF DayOK, DaysPerMonth
<1>1. TypeOK
  <2>1. /\ report \in [Reports -> Report \cup {Null}] /\ req \in [Requests -> Going \cup {Null}]
        /\ render \in [Renderers -> Rendering \cup {Null}]
    OBVIOUS
  <2>2. queue \in [Reports -> Nat]
    OBVIOUS
  <2>3. ticks \in 0..2
    OBVIOUS
  <2>4. packDay \in PackDays \cup {0} /\ disturbed \in BOOLEAN
    BY Zenon
  <2> QED
    BY <1>0, <2>1, <2>2, <2>3, <2>4 DEF TypeOK
<1>2. Drafted /\ RenderersOK
  BY Nulls DEF Drafted, RenderersOK
<1>3. ReadyIsStored /\ QueuedIsAccounted
  BY DEF ReadyIsStored, QueuedIsAccounted, Packs
<1> QED
  BY <1>0, <1>1, <1>2, <1>3 DEF Inv

(* A step that leaves the reports alone keeps what is said of them when it *)
(* leaves every pack that is on its way there or says it is lost.          *)
LEMMA WayKeeps ==
  ASSUME Inv, UNCHANGED report, stored \subseteq stored',
         orphans \subseteq orphans',
         \A r \in Reports \ orphans' : OnItsWay(r) => OnItsWay(r)'
  PROVE  ReadyIsStored' /\ QueuedIsAccounted'
<1>1. ReadyIsStored'
  BY DEF Inv, ReadyIsStored, Packs
<1>2. ASSUME NEW r \in Packs', r \notin orphans', report'[r].status = "queued" PROVE OnItsWay(r)'
  <2>1. r \in Reports /\ r \notin orphans /\ r \in Packs /\ report[r].status = "queued"
    BY <1>2 DEF Packs
  <2>2. OnItsWay(r)
    BY <2>1 DEF Inv, QueuedIsAccounted, OnItsWay
  <2> QED
    BY <1>2, <2>1, <2>2
<1>3. QueuedIsAccounted'
  BY <1>2 DEF QueuedIsAccounted, OnItsWay
<1> QED
  BY <1>1, <1>3

(* A step that drafts a pack leaves the others as they were. *)
LEMMA InsertOK ==
  ASSUME Inv, NEW r \in Reports, NEW by \in {"user", "schedule"}, Insert(r, priorMonth, by)
  PROVE  /\ report' \in [Reports -> Report \cup {Null}]
         /\ report[r] = Null /\ report'[r] # Null /\ report'[r].status = "queued"
         /\ \A s \in Reports \ {r} : report'[s] = report[s]
         /\ Packs' = Packs \cup {r}
<1> DEFINE new == [period |-> priorMonth, by |-> by, status |-> "queued"]
<1>1. new \in Report
  BY PriorMonth DEF Report
<1>2. report[r] = Null /\ report' = [report EXCEPT ![r] = new]
  BY DEF Insert
<1>3. new # Null /\ new.status = "queued"
  BY <1>1, Nulls
<1> HIDE DEF new
<1> QED
  BY <1>1, <1>2, <1>3 DEF Inv, TypeOK, Packs

LEMMA PostReportOK ==
  ASSUME Inv, NEW q \in Requests, NEW r \in Reports, PostReport(q, r) PROVE Inv'
<1> DEFINE new == [at |-> "enqueue", report |-> r]
<1>1. /\ req[q] = Null /\ Insert(r, priorMonth, "user")
      /\ req' = [req EXCEPT ![q] = new]
      /\ UNCHANGED <<stored, queue, late, stalled, render, day, packDay, ticks, sched, disturbed, orphans>>
  BY DEF PostReport, Go, jobs, schedule
<1>2. /\ report' \in [Reports -> Report \cup {Null}]
      /\ report[r] = Null /\ report'[r] # Null /\ report'[r].status = "queued"
      /\ \A s \in Reports \ {r} : report'[s] = report[s]
      /\ Packs' = Packs \cup {r}
  BY <1>1, InsertOK
<1>3. new \in Going /\ new # Null
  BY Nulls DEF Going
<1>4. req'[q] = new /\ \A p \in Requests \ {q} : req'[p] = req[p]
  BY <1>1 DEF Inv, TypeOK
<1>5. TypeOK' /\ DayOK'
  BY <1>1, <1>2, <1>3 DEF Inv, TypeOK, DayOK
<1>6. Drafted'
  <2>1. \A p \in Requests : req'[p] # Null => (report'[req'[p].report] # Null)
    BY <1>2, <1>3, <1>4 DEF Inv, TypeOK, Drafted, Going
  <2>2. \A s \in Reports : queue'[s] > 0 \/ s \in late' => report'[s] # Null
    BY <1>1, <1>2 DEF Inv, Drafted
  <2>3. sched' # Null /\ sched'.at = "drafted" => sched'.report \in Packs'
    BY <1>1, <1>2 DEF Inv, Drafted
  <2> QED
    BY <2>1, <2>2, <2>3 DEF Drafted
<1>7. RenderersOK'
  <2>1. \A p \in Requests : render[p] # Null => p # q
    BY <1>1 DEF Inv, RenderersOK, At
  <2> QED
    BY <1>1, <1>2, <1>4, <2>1 DEF Inv, RenderersOK, At
<1>8. ReadyIsStored'
  <2> SUFFICES ASSUME NEW s \in Packs', report'[s].status = "ready" PROVE s \in stored'
    BY DEF ReadyIsStored
  <2>1. s \in Packs /\ report'[s] = report[s]
    BY <1>2 DEF Packs
  <2> QED
    BY <1>1, <2>1 DEF Inv, ReadyIsStored
<1>9. QueuedIsAccounted'
  <2> SUFFICES ASSUME NEW s \in Packs', s \notin orphans', report'[s].status = "queued" PROVE OnItsWay(s)'
    BY DEF QueuedIsAccounted, OnItsWay
  <2>1. CASE s = r
    BY <1>3, <1>4, <2>1 DEF OnItsWay, At
  <2>2. CASE s # r
    <3>1. s \in Packs /\ s \notin orphans /\ report[s].status = "queued"
      BY <1>1, <1>2, <2>2 DEF Packs
    <3>2. OnItsWay(s)
      BY <3>1 DEF Inv, QueuedIsAccounted, OnItsWay
    <3>3. \A p \in Requests : req[p] # Null => req'[p] = req[p]
      BY <1>1, <1>4
    <3> QED
      BY <1>1, <3>2, <3>3 DEF OnItsWay, At, Locked
  <2> QED
    BY <2>1, <2>2
<1> QED
  BY <1>5, <1>6, <1>7, <1>8, <1>9 DEF Inv

(* A request puts its job on the queue, or finds that Redis does not       *)
(* answer and keeps it; a job that was late lands.                         *)
LEMMA EnqueueOK ==
  ASSUME Inv, NEW q \in Requests, enqueueReport(q) PROVE Inv'
<1> DEFINE r == req[q].report
<1>1. /\ At(q, "enqueue")
      /\ queue' = [queue EXCEPT ![r] = @ + 1]
      /\ req' = [req EXCEPT ![q] = Null]
      /\ UNCHANGED <<report, stored, late, stalled, render, day, packDay, ticks, sched, disturbed, orphans>>
  BY DEF enqueueReport, End, Go, schedule
<1>2. r \in Reports /\ report[r] # Null
  BY <1>1 DEF Inv, TypeOK, Drafted, At, Going
<1>3. /\ queue' \in [Reports -> Nat] /\ queue'[r] > 0
      /\ \A s \in Reports \ {r} : queue'[s] = queue[s]
  BY <1>1, <1>2 DEF Inv, TypeOK
<1>4. req'[q] = Null /\ \A p \in Requests \ {q} : req'[p] = req[p]
  BY <1>1 DEF Inv, TypeOK
<1>5. TypeOK' /\ DayOK'
  BY <1>1, <1>3 DEF Inv, TypeOK, DayOK
<1>6. Drafted'
  BY <1>1, <1>2, <1>3, <1>4 DEF Inv, Drafted, Packs
<1>7. RenderersOK'
  <2>1. \A p \in Requests : render[p] # Null => p # q
    BY <1>1 DEF Inv, RenderersOK, At
  <2> QED
    BY <1>1, <1>4, <2>1 DEF Inv, RenderersOK, At, Packs
<1>8. ASSUME NEW s \in Reports, OnItsWay(s) PROVE OnItsWay(s)'
  <2>1. CASE s = r
    BY <1>3, <2>1 DEF OnItsWay
  <2>2. CASE s # r
    BY <1>1, <1>3, <1>4, <1>8, <2>2 DEF OnItsWay, At, Locked
  <2> QED
    BY <2>1, <2>2
<1>9. ReadyIsStored' /\ QueuedIsAccounted'
  BY <1>1, <1>8, WayKeeps
<1> QED
  BY <1>5, <1>6, <1>7, <1>9 DEF Inv

LEMMA EnqueueTimesOutOK ==
  ASSUME Inv, NEW q \in Requests, enqueueTimesOut(q) PROVE Inv'
<1> DEFINE r == req[q].report
           new == [at |-> "inline", report |-> r]
<1>1. /\ At(q, "enqueue")
      /\ late' \in {late, late \cup {r}}
      /\ req' = [req EXCEPT ![q] = new]
      /\ UNCHANGED <<report, stored, queue, stalled, render, day, packDay, ticks, sched, disturbed, orphans>>
  BY DEF enqueueTimesOut, Go, schedule
<1>2. r \in Reports /\ report[r] # Null
  BY <1>1 DEF Inv, TypeOK, Drafted, At, Going
<1>3. new \in Going /\ new # Null
  BY <1>2, Nulls DEF Going
<1>4. req'[q] = new /\ \A p \in Requests \ {q} : req'[p] = req[p]
  BY <1>1 DEF Inv, TypeOK
<1>5. TypeOK' /\ DayOK'
  BY <1>1, <1>2, <1>3 DEF Inv, TypeOK, DayOK
<1>6. Drafted'
  BY <1>1, <1>2, <1>3, <1>4 DEF Inv, Drafted, Packs
<1>7. RenderersOK'
  <2>1. \A p \in Requests : render[p] # Null => p # q
    BY <1>1 DEF Inv, RenderersOK, At
  <2> QED
    BY <1>1, <1>4, <2>1 DEF Inv, RenderersOK, At, Packs
<1>8. ASSUME NEW s \in Reports, OnItsWay(s) PROVE OnItsWay(s)'
  <2>1. ASSUME NEW p \in Requests, At(p, "enqueue") \/ At(p, "inline"), req[p].report = s
        PROVE  (At(p, "enqueue") \/ At(p, "inline"))' /\ req'[p].report = s
    BY <1>3, <1>4, <2>1 DEF At
  <2> QED
    BY <1>1, <1>8, <2>1 DEF OnItsWay, Locked
<1>9. ReadyIsStored' /\ QueuedIsAccounted'
  BY <1>1, <1>8, WayKeeps
<1> QED
  BY <1>5, <1>6, <1>7, <1>9 DEF Inv

LEMMA JobLandsOK ==
  ASSUME Inv, NEW r \in Reports, JobLands(r) PROVE Inv'
<1>1. /\ r \in late /\ late' = late \ {r}
      /\ queue' = [queue EXCEPT ![r] = @ + 1]
      /\ UNCHANGED <<req, report, stored, stalled, render, day, packDay, ticks, sched, disturbed, orphans>>
  BY DEF JobLands, schedule
<1>2. /\ queue' \in [Reports -> Nat] /\ queue'[r] > 0
      /\ \A s \in Reports \ {r} : queue'[s] = queue[s]
  BY <1>1 DEF Inv, TypeOK
<1>3. TypeOK' /\ DayOK'
  BY <1>1, <1>2 DEF Inv, TypeOK, DayOK
<1>4. Drafted'
  BY <1>1, <1>2 DEF Inv, Drafted, Packs
<1>5. RenderersOK'
  BY <1>1 DEF Inv, RenderersOK, At, Packs
<1>6. ASSUME NEW s \in Reports, OnItsWay(s) PROVE OnItsWay(s)'
  <2>1. CASE s = r
    BY <1>2, <2>1 DEF OnItsWay
  <2>2. CASE s # r
    BY <1>1, <1>2, <1>6, <2>2 DEF OnItsWay, At, Locked
  <2> QED
    BY <2>1, <2>2
<1>7. ReadyIsStored' /\ QueuedIsAccounted'
  BY <1>1, <1>6, WayKeeps
<1> QED
  BY <1>3, <1>4, <1>5, <1>7 DEF Inv

(* A request that dies takes its render with it; its pack is an orphan.    *)
LEMMA RequestDiesOK ==
  ASSUME Inv, NEW q \in Requests, RequestDies(q) PROVE Inv'
<1> DEFINE r == req[q].report
<1>1. /\ req[q] # Null
      /\ render' = [render EXCEPT ![q] = Null]
      /\ req' = [req EXCEPT ![q] = Null]
      /\ UNCHANGED <<report, stored, queue, late, stalled, day, packDay, ticks, sched, disturbed>>
  BY DEF RequestDies, End, Go, schedule
<1>2. req[q] \in Going /\ r \in Reports /\ (At(q, "enqueue") \/ At(q, "inline"))
  BY <1>1 DEF Inv, TypeOK, At, Going
<1>3. orphans' = orphans \cup {r}
  BY <1>2 DEF RequestDies
<1>4. req'[q] = Null /\ \A p \in Requests \ {q} : req'[p] = req[p]
  BY <1>1 DEF Inv, TypeOK
<1>5. render'[q] = Null /\ \A j \in Renderers \ {q} : render'[j] = render[j]
  BY <1>1, Nulls DEF Inv, TypeOK
<1>6. TypeOK' /\ DayOK'
  BY <1>1, <1>2, <1>3, Nulls DEF Inv, TypeOK, DayOK
<1>7. Drafted'
  BY <1>1, <1>4 DEF Inv, Drafted, Packs
<1>8. RenderersOK'
  BY <1>1, <1>4, <1>5, Nulls DEF Inv, RenderersOK, At, Packs
<1>9. ASSUME NEW s \in Reports \ orphans', OnItsWay(s) PROVE OnItsWay(s)'
  <2>1. s # r
    BY <1>3
  <2>2. ASSUME NEW j \in Renderers, render[j] # Null, render[j].report = s PROVE render'[j] = render[j]
    <3>1. j # q
      BY <2>1, <2>2 DEF Inv, RenderersOK
    <3> QED
      BY <1>5, <3>1
  <2>3. ASSUME NEW p \in Requests, req[p].report = s PROVE req'[p] = req[p]
    BY <1>4, <2>1, <2>3
  <2> QED
    BY <1>1, <1>9, <2>2, <2>3 DEF OnItsWay, At, Locked
<1>10. ReadyIsStored' /\ QueuedIsAccounted'
  BY <1>1, <1>3, <1>9, WayKeeps
<1> QED
  BY <1>6, <1>7, <1>8, <1>10 DEF Inv
-----------------------------------------------------------------------------
(* A render begins: the lock of its row is free. *)
LEMMA StartRenderOK ==
  ASSUME Inv, NEW j \in Renderers, NEW r \in Packs, StartRender(j, r),
         UNCHANGED <<report, req, stored>>,
         j \in Requests => At(j, "inline") /\ req[j].report = r
  PROVE  /\ render' \in [Renderers -> Rendering \cup {Null}]
         /\ RenderersOK'
         /\ Locked(r)'
         /\ \A s \in Reports : Locked(s) => Locked(s)'
<1> DEFINE new == [report |-> r, at |-> "build"]
<1>1. /\ render[j] = Null /\ ~Locked(r)
      /\ render' = [render EXCEPT ![j] = new]
  BY DEF StartRender
<1>2. r \in Reports /\ new \in Rendering /\ new # Null
  BY Nulls DEF Rendering, Packs
<1>3. render'[j] = new /\ \A k \in Renderers \ {j} : render'[k] = render[k]
  BY <1>1 DEF Inv, TypeOK
<1>4. render' \in [Renderers -> Rendering \cup {Null}]
  BY <1>1, <1>2 DEF Inv, TypeOK
<1>5. Locked(r)' /\ \A s \in Reports : Locked(s) => Locked(s)'
  BY <1>1, <1>2, <1>3 DEF Locked
<1>6. \A k \in Renderers : render'[k] # Null =>
        /\ render'[k].report \in Packs'
        /\ render'[k].at = "put" => render'[k].report \in stored'
  BY <1>3 DEF Inv, RenderersOK, Packs
<1>7. \A p \in Requests : render'[p] # Null => At(p, "inline")' /\ req'[p].report = render'[p].report
  BY <1>3, Nulls DEF Inv, RenderersOK, At
<1>8. \A k, l \in Renderers :
        render'[k] # Null /\ render'[l] # Null /\ render'[k].report = render'[l].report => k = l
  BY <1>1, <1>3 DEF Inv, RenderersOK, Locked
<1> QED
  BY <1>4, <1>5, <1>6, <1>7, <1>8 DEF RenderersOK

LEMMA RenderInlineOK ==
  ASSUME Inv, NEW q \in Requests, RenderInline(q) PROVE Inv'
<1>1. /\ At(q, "inline") /\ StartRender(q, req[q].report)
      /\ UNCHANGED <<req, report, stored, queue, late, stalled, day, packDay, ticks, sched, disturbed, orphans>>
  BY DEF RenderInline, schedule
<1>2. req[q].report \in Packs /\ q \in Renderers
  BY <1>1, Nulls DEF Inv, TypeOK, Drafted, At, Going, Packs
<1>3. /\ render' \in [Renderers -> Rendering \cup {Null}] /\ RenderersOK'
      /\ \A s \in Reports : Locked(s) => Locked(s)'
  BY <1>1, <1>2, StartRenderOK
<1>4. TypeOK' /\ DayOK' /\ Drafted'
  BY <1>1, <1>3 DEF Inv, TypeOK, DayOK, Drafted, Packs
<1>5. \A s \in Reports : OnItsWay(s) => OnItsWay(s)'
  BY <1>1, <1>3 DEF OnItsWay, At
<1>6. ReadyIsStored' /\ QueuedIsAccounted'
  BY <1>1, <1>5, WayKeeps
<1> QED
  BY <1>3, <1>4, <1>6 DEF Inv

LEMMA WorkerTakesOK ==
  ASSUME Inv, NEW r \in Reports, WorkerTakes(r) PROVE Inv'
<1>1. /\ queue[r] > 0 /\ queue' = [queue EXCEPT ![r] = @ - 1] /\ StartRender(Worker, r)
      /\ UNCHANGED <<req, report, stored, late, stalled, day, packDay, ticks, sched, disturbed, orphans>>
  BY DEF WorkerTakes, schedule
<1>2. r \in Packs
  BY <1>1 DEF Inv, Drafted, Packs
<1>3. /\ render' \in [Renderers -> Rendering \cup {Null}] /\ RenderersOK' /\ Locked(r)'
      /\ \A s \in Reports : Locked(s) => Locked(s)'
  BY <1>1, <1>2, StartRenderOK, Nulls
<1>4. /\ queue' \in [Reports -> Nat]
      /\ \A s \in Reports : queue'[s] <= queue[s]
      /\ \A s \in Reports \ {r} : queue'[s] = queue[s]
  BY <1>1 DEF Inv, TypeOK
<1>5. TypeOK' /\ DayOK'
  BY <1>1, <1>3, <1>4 DEF Inv, TypeOK, DayOK
<1>6. Drafted'
  BY <1>1, <1>2, <1>4 DEF Inv, Drafted, Packs
<1>7. ASSUME NEW s \in Reports, OnItsWay(s) PROVE OnItsWay(s)'
  <2>1. CASE s = r
    BY <1>3, <2>1 DEF OnItsWay
  <2>2. CASE s # r
    BY <1>1, <1>3, <1>4, <1>7, <2>2 DEF OnItsWay, At
  <2> QED
    BY <2>1, <2>2
<1>8. ReadyIsStored' /\ QueuedIsAccounted'
  BY <1>1, <1>7, WayKeeps
<1> QED
  BY <1>3, <1>5, <1>6, <1>8 DEF Inv

LEMMA PutFileOK ==
  ASSUME Inv, NEW j \in Renderers, PutFile(j) PROVE Inv'
<1> DEFINE r == render[j].report
<1>1. /\ render[j] # Null
      /\ stored' = stored \cup {r}
      /\ render' = [render EXCEPT ![j].at = "put"]
      /\ UNCHANGED <<req, report, queue, late, stalled, day, packDay, ticks, sched, disturbed, orphans>>
  BY DEF PutFile, schedule
<1>2. render[j] \in Rendering /\ r \in Reports
  BY <1>1 DEF Inv, TypeOK, Rendering
<1>3. /\ render'[j] = [render[j] EXCEPT !.at = "put"]
      /\ \A k \in Renderers \ {j} : render'[k] = render[k]
  BY <1>1 DEF Inv, TypeOK
<1>4. render'[j] \in Rendering /\ render'[j].report = r
  BY <1>2, <1>3 DEF Rendering
<1>5. render'[j] # Null
  BY <1>4, Nulls
<1>6. TypeOK' /\ DayOK'
  <2>1. render' \in [Renderers -> Rendering \cup {Null}]
    BY <1>1, <1>3, <1>4 DEF Inv, TypeOK
  <2> QED
    BY <1>1, <1>2, <2>1 DEF Inv, TypeOK, DayOK
<1>7. Drafted'
  BY <1>1 DEF Inv, Drafted, Packs
<1>8. RenderersOK'
  BY <1>1, <1>3, <1>4, Nulls DEF Inv, RenderersOK, At, Packs
<1>9. ASSUME NEW s \in Reports, OnItsWay(s) PROVE OnItsWay(s)'
  <2>1. Locked(s) => Locked(s)'
    BY <1>1, <1>3, <1>4, <1>5 DEF Locked
  <2> QED
    BY <1>1, <1>9, <2>1 DEF OnItsWay, At
<1>10. ReadyIsStored' /\ QueuedIsAccounted'
  BY <1>1, <1>9, WayKeeps
<1> QED
  BY <1>6, <1>7, <1>8, <1>10 DEF Inv

(* A render ends: its row is written, and the request that ran it with it. *)
LEMMA EndRenderOK ==
  ASSUME Inv, NEW j \in Renderers, NEW status \in {"ready", "failed"},
         render[j] # Null, EndRender(j, status), UNCHANGED schedule,
         status = "ready" => render[j].at = "put"
  PROVE  Inv'
<1> DEFINE r == render[j].report
<1>1. /\ report' = [report EXCEPT ![r].status = status]
      /\ render' = [render EXCEPT ![j] = Null]
      /\ req' = IF j \in Requests THEN [req EXCEPT ![j] = Null] ELSE req
      /\ UNCHANGED <<stored, queue, late, stalled, day, packDay, ticks, sched, disturbed, orphans>>
  BY DEF EndRender, schedule
<1>2. r \in Packs /\ r \in Reports /\ report[r] \in Report
  BY DEF Inv, TypeOK, RenderersOK, Packs
<1>3. /\ report'[r] = [report[r] EXCEPT !.status = status]
      /\ \A s \in Reports \ {r} : report'[s] = report[s]
  BY <1>1, <1>2 DEF Inv, TypeOK
<1>4. report'[r] \in Report /\ report'[r].status = status
  BY <1>2, <1>3 DEF Report
<1>5. report'[r] # Null /\ Packs' = Packs
  BY <1>2, <1>3, <1>4, Nulls DEF Packs
<1>6. render'[j] = Null /\ \A k \in Renderers \ {j} : render'[k] = render[k]
  BY <1>1 DEF Inv, TypeOK
<1>7. /\ req' \in [Requests -> Going \cup {Null}]
      /\ \A p \in Requests : p # j => req'[p] = req[p]
      /\ \A p \in Requests : req'[p] # Null => req'[p] = req[p]
  BY <1>1 DEF Inv, TypeOK
<1>8. TypeOK' /\ DayOK'
  <2>1. report' \in [Reports -> Report \cup {Null}]
    BY <1>1, <1>3, <1>4 DEF Inv, TypeOK
  <2>2. render' \in [Renderers -> Rendering \cup {Null}]
    BY <1>1 DEF Inv, TypeOK
  <2> QED
    BY <1>1, <1>7, <2>1, <2>2 DEF Inv, TypeOK, DayOK
<1>9. Drafted'
  <2>1. \A s \in Reports : report[s] # Null => report'[s] # Null
    BY <1>3, <1>5
  <2>2. \A p \in Requests : req'[p] # Null => req'[p].report \in Reports /\ report[req'[p].report] # Null
    BY <1>7 DEF Inv, TypeOK, Drafted, Going
  <2> QED
    BY <1>1, <1>5, <2>1, <2>2 DEF Inv, Drafted
<1>10. RenderersOK'
  <2>1. \A k \in Renderers : render'[k] # Null => render'[k] = render[k] /\ k # j
    BY <1>6
  <2>2. \A p \in Requests : render'[p] # Null => At(p, "inline")' /\ req'[p].report = render'[p].report
    BY <1>7, <2>1, Nulls DEF Inv, RenderersOK, At
  <2>3. \A k, l \in Renderers :
          render'[k] # Null /\ render'[l] # Null /\ render'[k].report = render'[l].report => k = l
    BY <2>1 DEF Inv, RenderersOK
  <2>4. \A k \in Renderers : render'[k] # Null =>
          render'[k].report \in Packs' /\ (render'[k].at = "put" => render'[k].report \in stored')
    BY <1>1, <1>5, <2>1 DEF Inv, RenderersOK
  <2> QED
    BY <2>2, <2>3, <2>4 DEF RenderersOK
<1>11. ReadyIsStored'
  <2> SUFFICES ASSUME NEW s \in Packs', report'[s].status = "ready" PROVE s \in stored'
    BY DEF ReadyIsStored
  <2>1. CASE s = r
    BY <1>1, <1>4, <2>1 DEF Inv, RenderersOK
  <2>2. CASE s # r
    BY <1>1, <1>3, <1>5, <2>2 DEF Inv, ReadyIsStored, Packs
  <2> QED
    BY <2>1, <2>2
<1>12. QueuedIsAccounted'
  <2> SUFFICES ASSUME NEW s \in Packs', s \notin orphans', report'[s].status = "queued" PROVE OnItsWay(s)'
    BY DEF QueuedIsAccounted, OnItsWay
  <2>1. s # r
    BY <1>4
  <2>2. s \in Packs /\ s \in Reports /\ s \notin orphans /\ report[s].status = "queued"
    BY <1>1, <1>3, <1>5, <2>1 DEF Packs
  <2>3. OnItsWay(s)
    BY <2>2 DEF Inv, QueuedIsAccounted, OnItsWay
  <2>4. ASSUME NEW k \in Renderers, render[k] # Null, render[k].report = s PROVE render'[k] = render[k]
    BY <1>6, <2>1, <2>4
  <2>5. ASSUME NEW p \in Requests, req[p].report = s PROVE req'[p] = req[p]
    <3>1. p # j
      BY <2>1, <2>5 DEF Inv, RenderersOK
    <3> QED
      BY <1>7, <3>1
  <2> QED
    BY <1>1, <2>3, <2>4, <2>5 DEF OnItsWay, At, Locked
<1> QED
  BY <1>8, <1>9, <1>10, <1>11, <1>12 DEF Inv

(* The worker dies: its job is back on the queue or its pack is an orphan. *)
LEMMA RenderDiesOK ==
  ASSUME Inv, RenderDies PROVE Inv'
<1> DEFINE r == render[Worker].report
<1>1. /\ render[Worker] # Null
      /\ render' = [render EXCEPT ![Worker] = Null]
      /\ \/ /\ stalled' = stalled \cup {r} /\ queue' = [queue EXCEPT ![r] = @ + 1] /\ orphans' = orphans
         \/ orphans' = orphans \cup {r} /\ stalled' = stalled /\ queue' = queue
      /\ UNCHANGED <<req, report, stored, late, day, packDay, ticks, sched, disturbed>>
  BY DEF RenderDies, schedule
<1>2. r \in Packs /\ r \in Reports
  BY <1>1, Nulls DEF Inv, RenderersOK, Packs
<1>3. render'[Worker] = Null /\ \A k \in Renderers \ {Worker} : render'[k] = render[k]
  BY <1>1, Nulls DEF Inv, TypeOK
<1>4. /\ queue' \in [Reports -> Nat]
      /\ \A s \in Reports : queue'[s] >= queue[s]
      /\ \A s \in Reports \ {r} : queue'[s] = queue[s]
      /\ r \in orphans' \/ queue'[r] > 0
  BY <1>1, <1>2 DEF Inv, TypeOK
<1>5. TypeOK' /\ DayOK'
  BY <1>1, <1>2, <1>4 DEF Inv, TypeOK, DayOK
<1>6. Drafted'
  BY <1>1, <1>2, <1>4 DEF Inv, Drafted, Packs
<1>7. RenderersOK'
  BY <1>1, <1>3, Nulls DEF Inv, RenderersOK, At, Packs
<1>8. ASSUME NEW s \in Reports \ orphans', OnItsWay(s) PROVE OnItsWay(s)'
  <2>1. CASE s = r
    BY <1>4, <2>1 DEF OnItsWay
  <2>2. CASE s # r
    <3>1. ASSUME NEW k \in Renderers, render[k] # Null, render[k].report = s PROVE render'[k] = render[k]
      BY <1>3, <2>2, <3>1
    <3> QED
      BY <1>1, <1>4, <1>8, <2>2, <3>1 DEF OnItsWay, At, Locked
  <2> QED
    BY <2>1, <2>2
<1>9. orphans \subseteq orphans'
  BY <1>1
<1>10. ReadyIsStored' /\ QueuedIsAccounted'
  BY <1>1, <1>8, <1>9, WayKeeps
<1> QED
  BY <1>5, <1>6, <1>7, <1>10 DEF Inv
-----------------------------------------------------------------------------
(* Days, settings and a tick that begins move no pack.                     *)
LEMMA ScheduleOK ==
  ASSUME Inv, DayPasses \/ RunTick \/ \E d \in PackDays \cup {0} : SetPackDay(d) PROVE Inv'
<1>1. /\ UNCHANGED <<req, report, stored, queue, late, stalled, render, orphans>>
      /\ sched' = sched \/ (sched = Null /\ sched' \in {Null, [at |-> "due", report |-> Null]})
  BY DEF DayPasses, RunTick, SetPackDay, jobs
<1>2. day' \in 0..MaxDay /\ day' >= day /\ ticks' \in 0..2
  BY PackJobsAssumption DEF DayPasses, RunTick, SetPackDay, Inv, TypeOK, DayOK, DaysPerMonth
<1>3. packDay' \in PackDays \cup {0} /\ disturbed' \in BOOLEAN
  BY Zenon DEF DayPasses, RunTick, SetPackDay, Inv, TypeOK
<1>4. TypeOK'
  BY <1>1, <1>2, <1>3 DEF Inv, TypeOK, Ticking
<1>5. DayOK'
  BY <1>2 DEF Inv, TypeOK, DayOK, DaysPerMonth
<1>6. Drafted'
  BY <1>1 DEF Inv, Drafted, Packs
<1>7. RenderersOK'
  BY <1>1 DEF Inv, RenderersOK, At, Packs
<1>8. \A s \in Reports : OnItsWay(s) => OnItsWay(s)'
  <2>1. ASSUME NEW s \in Reports, sched = [at |-> "drafted", report |-> s]
        PROVE  sched' = sched
    <3>1. sched \in Ticking
      BY <2>1, Zenon DEF Ticking
    <3> QED
      BY <1>1, <3>1, Nulls
  <2> QED
    BY <1>1, <2>1 DEF OnItsWay, At, Locked
<1>9. ReadyIsStored' /\ QueuedIsAccounted'
  BY <1>1, <1>8, WayKeeps
<1> QED
  BY <1>4, <1>5, <1>6, <1>7, <1>9 DEF Inv

LEMMA DraftPackOK ==
  ASSUME Inv, NEW r \in Reports, DraftPack(r) PROVE Inv'
<1>1. /\ sched # Null /\ sched.at = "due" /\ Insert(r, priorMonth, "schedule")
      /\ sched' = [at |-> "drafted", report |-> r]
      /\ UNCHANGED <<req, stored, queue, late, stalled, render, day, packDay, ticks, disturbed, orphans>>
  BY DEF DraftPack, jobs
<1>2. /\ report' \in [Reports -> Report \cup {Null}]
      /\ report[r] = Null /\ report'[r] # Null /\ report'[r].status = "queued"
      /\ \A s \in Reports \ {r} : report'[s] = report[s]
      /\ Packs' = Packs \cup {r}
  BY <1>1, InsertOK
<1>3. TypeOK' /\ DayOK'
  BY <1>1, <1>2 DEF Inv, TypeOK, DayOK, Ticking
<1>4. Drafted'
  <2>1. \A q \in Requests : req[q] # Null => report'[req[q].report] # Null
    BY <1>2 DEF Inv, TypeOK, Drafted, Going
  <2> QED
    BY <1>1, <1>2, <2>1 DEF Inv, Drafted
<1>5. RenderersOK'
  BY <1>1, <1>2 DEF Inv, RenderersOK, At
<1>6. ReadyIsStored'
  <2> SUFFICES ASSUME NEW s \in Packs', report'[s].status = "ready" PROVE s \in stored'
    BY DEF ReadyIsStored
  <2>1. s \in Packs /\ report'[s] = report[s]
    BY <1>2 DEF Packs
  <2> QED
    BY <1>1, <2>1 DEF Inv, ReadyIsStored
<1>7. QueuedIsAccounted'
  <2> SUFFICES ASSUME NEW s \in Packs', s \notin orphans', report'[s].status = "queued" PROVE OnItsWay(s)'
    BY DEF QueuedIsAccounted, OnItsWay
  <2>1. CASE s = r
    BY <1>1, <2>1 DEF OnItsWay
  <2>2. CASE s # r
    <3>1. s \in Packs /\ s \notin orphans /\ report[s].status = "queued"
      BY <1>1, <1>2, <2>2 DEF Packs
    <3>2. OnItsWay(s)
      BY <3>1 DEF Inv, QueuedIsAccounted, OnItsWay
    <3> QED
      BY <1>1, <3>2 DEF OnItsWay, At, Locked
  <2> QED
    BY <2>1, <2>2
<1> QED
  BY <1>3, <1>4, <1>5, <1>6, <1>7 DEF Inv

LEMMA AddArtifactOK ==
  ASSUME Inv, AddArtifact PROVE Inv'
<1> DEFINE r == sched.report
<1>1. /\ sched # Null /\ sched.at = "drafted" /\ sched' = Null
      /\ queue' = [queue EXCEPT ![r] = @ + 1]
      /\ UNCHANGED <<req, report, stored, late, stalled, render, day, packDay, ticks, disturbed, orphans>>
  BY DEF AddArtifact
<1>2. r \in Packs /\ r \in Reports
  BY <1>1 DEF Inv, Drafted, Packs
<1>3. /\ queue' \in [Reports -> Nat] /\ queue'[r] > 0
      /\ \A s \in Reports \ {r} : queue'[s] = queue[s]
  BY <1>1, <1>2 DEF Inv, TypeOK
<1>4. TypeOK' /\ DayOK'
  BY <1>1, <1>3 DEF Inv, TypeOK, DayOK
<1>5. Drafted'
  BY <1>1, <1>2, <1>3 DEF Inv, Drafted, Packs
<1>6. RenderersOK'
  BY <1>1 DEF Inv, RenderersOK, At, Packs
<1>7. ASSUME NEW s \in Reports, OnItsWay(s) PROVE OnItsWay(s)'
  <2>1. CASE s = r
    BY <1>3, <2>1 DEF OnItsWay
  <2>2. CASE s # r
    <3>1. sched # [at |-> "drafted", report |-> s]
      BY <2>2
    <3> QED
      BY <1>1, <1>3, <1>7, <2>2, <3>1 DEF OnItsWay, At, Locked
  <2> QED
    BY <2>1, <2>2
<1>8. ReadyIsStored' /\ QueuedIsAccounted'
  BY <1>1, <1>7, WayKeeps
<1> QED
  BY <1>4, <1>5, <1>6, <1>8 DEF Inv

LEMMA TickDiesOK ==
  ASSUME Inv, TickDies PROVE Inv'
<1> DEFINE r == sched.report
<1>1. /\ sched # Null /\ sched' = Null /\ disturbed' = TRUE
      /\ orphans' = IF sched.at = "drafted" THEN orphans \cup {r} ELSE orphans
      /\ UNCHANGED <<req, report, stored, queue, late, stalled, render, day, packDay>>
  BY DEF TickDies, jobs
<1>2. ticks' \in 0..2
  BY DEF TickDies, Inv, TypeOK
<1>3. orphans \subseteq orphans' /\ orphans' \subseteq Reports
  BY <1>1 DEF Inv, TypeOK, Drafted, Packs
<1>4. TypeOK' /\ DayOK'
  BY <1>1, <1>2, <1>3 DEF Inv, TypeOK, DayOK
<1>5. Drafted' /\ RenderersOK'
  BY <1>1 DEF Inv, Drafted, RenderersOK, At, Packs
<1>6. ASSUME NEW s \in Reports \ orphans', OnItsWay(s) PROVE OnItsWay(s)'
  <2>1. sched # [at |-> "drafted", report |-> s]
    BY <1>1
  <2> QED
    BY <1>1, <1>6, <2>1 DEF OnItsWay, At, Locked
<1>7. ReadyIsStored' /\ QueuedIsAccounted'
  BY <1>1, <1>3, <1>6, WayKeeps
<1> QED
  BY <1>4, <1>5, <1>7 DEF Inv
-----------------------------------------------------------------------------
(* Every step keeps the invariant. *)
LEMMA Inductive ==
  ASSUME Inv, [Next]_vars PROVE Inv'
<1>1. CASE UNCHANGED vars
  <2>1. UNCHANGED <<report, req, stored, queue, late, stalled, render, day, packDay, ticks, sched, disturbed, orphans>>
    BY <1>1 DEF vars, jobs, schedule
  <2>2. TypeOK' /\ DayOK' /\ Drafted'
    BY <2>1 DEF Inv, TypeOK, DayOK, Drafted, Packs
  <2>3. RenderersOK'
    BY <2>1 DEF Inv, RenderersOK, At, Packs
  <2>4. ReadyIsStored' /\ QueuedIsAccounted'
    BY <2>1, WayKeeps DEF OnItsWay, At, Locked
  <2> QED
    BY <2>2, <2>3, <2>4 DEF Inv
<1>2. ASSUME NEW q \in Requests,
             \/ \E r \in Reports : PostReport(q, r)
             \/ enqueueReport(q) \/ enqueueTimesOut(q) \/ RenderInline(q) \/ RequestDies(q)
      PROVE  Inv'
  BY <1>2, PostReportOK, EnqueueOK, EnqueueTimesOutOK, RenderInlineOK, RequestDiesOK
<1>3. ASSUME NEW r \in Reports, JobLands(r) \/ WorkerTakes(r) \/ DraftPack(r) PROVE Inv'
  BY <1>3, JobLandsOK, WorkerTakesOK, DraftPackOK
<1>4. ASSUME NEW j \in Renderers, PutFile(j) \/ RenderDone(j) \/ RenderFails(j) PROVE Inv'
  <2>1. CASE PutFile(j)
    BY <2>1, PutFileOK
  <2>2. CASE RenderDone(j)
    BY <2>2, EndRenderOK DEF RenderDone, EndRender
  <2>3. CASE RenderFails(j)
    BY <2>3, EndRenderOK DEF RenderFails, EndRender
  <2> QED
    BY <1>4, <2>1, <2>2, <2>3
<1>5. CASE RenderDies \/ DayPasses \/ RunTick \/ AddArtifact \/ TickDies
  BY <1>5, RenderDiesOK, ScheduleOK, AddArtifactOK, TickDiesOK
<1>6. CASE \E d \in PackDays \cup {0} : SetPackDay(d)
  BY <1>6, ScheduleOK
<1> QED
  BY <1>1, <1>2, <1>3, <1>4, <1>5, <1>6 DEF Next

(* So it always holds. *)
LEMMA Invariance == Spec => []Inv
<1>1. Init => Inv
  BY Initially
<1>2. Inv /\ [Next]_vars => Inv'
  BY Inductive
<1> QED
  BY <1>1, <1>2, PTL DEF Spec

(* The state has its types, for any requests, reports and days. *)
THEOREM TypeCorrect == Spec => []TypeOK
<1>1. Inv => TypeOK
  BY DEF Inv
<1> QED
  BY <1>1, Invariance, PTL

(* runReportJob puts the file before it says so, under the lock of the     *)
(* row: a pack shown as ready can be downloaded, whatever renders it twice *)
(* and dies.                                                               *)
THEOREM ReadyPacksAreStored == Spec => []ReadyIsStored
<1>1. Inv => ReadyIsStored
  BY DEF Inv
<1> QED
  BY <1>1, Invariance, PTL

(* Between a late Redis, the inline render, the queue and the tick, a pack *)
(* shown as queued is somewhere on its way unless a crash lost it there.   *)
THEOREM QueuedPacksAreAccounted == Spec => []QueuedIsAccounted
<1>1. Inv => QueuedIsAccounted
  BY DEF Inv
<1> QED
  BY <1>1, Invariance, PTL
-----------------------------------------------------------------------------
(* The tick of the day waits or runs, and it runs on the day of the pack.  *)
Regular ==
  /\ ticks \in {0, 1} /\ (ticks = 1 => sched = Null)
  /\ sched # Null /\ sched.at = "due" => packDay = DayOfMonth(day)

(* This month's tick has found the day of the pack and drafted it.         *)
Made ==
  /\ packDay # 0
  /\ \/ DayOfMonth(day) > packDay
     \/ DayOfMonth(day) = packDay /\ ticks = 0 /\ ~(sched # Null /\ sched.at = "due")

(* A month has at most one pack, and has it from the day it was made.      *)
Monthly ==
  \A m \in Int :
    /\ \A r, s \in Scheduled(m) : r = s
    /\ m > Month(day) => Scheduled(m) = {}
    /\ m = Month(day) => (Scheduled(m) # {} <=> Made)
    /\ packDay # 0 /\ m \in 1..(Month(day) - 1) => Scheduled(m) # {}

MonthInv == ~disturbed => Regular /\ Monthly

(* The next day is the next of its month or the first of the next.         *)
LEMMA Calendar ==
  ASSUME NEW d \in Nat
  PROVE  /\ Month(d) \in Int /\ DayOfMonth(d) \in 1..DaysPerMonth
         /\ \/ Month(d + 1) = Month(d) /\ DayOfMonth(d + 1) = DayOfMonth(d) + 1
            \/ /\ Month(d + 1) = Month(d) + 1
               /\ DayOfMonth(d + 1) = 1 /\ DayOfMonth(d) = DaysPerMonth
BY DEF Month, DayOfMonth, DaysPerMonth

(* A step that neither drafts for the schedule nor moves its days.         *)
LEMMA MonthStays ==
  ASSUME MonthInv, UNCHANGED <<day, packDay, ticks, disturbed>>,
         sched' = sched \/ (sched' = Null /\ sched # Null /\ sched.at = "drafted"),
         \A m \in Int : Scheduled(m)' = Scheduled(m)
  PROVE  MonthInv'
<1> SUFFICES ASSUME ~disturbed PROVE Regular' /\ Monthly'
  BY DEF MonthInv
<1>1. Regular /\ Monthly
  BY DEF MonthInv
<1>2. Regular'
  BY <1>1 DEF Regular, DayOfMonth
<1>3. Made' <=> Made
  BY DEF Made, DayOfMonth
<1>4. Month(day)' = Month(day)
  BY DEF Month
<1> QED
  BY <1>1, <1>2, <1>3, <1>4 DEF Monthly

(* A pack a user asks for and a row that is marked are not the schedule's. *)
LEMMA RowsStay ==
  ASSUME Inv,
         \/ \E q \in Requests, r \in Reports : PostReport(q, r)
         \/ \E j \in Renderers : PutFile(j) \/ RenderDone(j) \/ RenderFails(j)
  PROVE  \A m \in Int : Scheduled(m)' = Scheduled(m)
<1>1. ASSUME NEW q \in Requests, NEW r \in Reports, PostReport(q, r)
      PROVE  \A m \in Int : Scheduled(m)' = Scheduled(m)
  <2>1. Insert(r, priorMonth, "user")
    BY <1>1 DEF PostReport
  <2>2. /\ report[r] = Null /\ Packs' = Packs \cup {r}
        /\ \A s \in Reports \ {r} : report'[s] = report[s]
    BY <2>1, InsertOK
  <2>3. report'[r].by # "schedule"
    BY <2>1 DEF Insert, Inv, TypeOK
  <2> QED
    BY <2>2, <2>3 DEF Scheduled, Packs
<1>2. ASSUME NEW j \in Renderers, NEW status \in {"ready", "failed"},
             render[j] # Null, EndRender(j, status)
      PROVE  \A m \in Int : Scheduled(m)' = Scheduled(m)
  <2> DEFINE r == render[j].report
  <2>1. r \in Packs /\ r \in Reports /\ report[r] \in Report
    BY <1>2 DEF Inv, TypeOK, RenderersOK, Packs
  <2>2. report' = [report EXCEPT ![r].status = status]
    BY <1>2 DEF EndRender
  <2>3. /\ report'[r] = [report[r] EXCEPT !.status = status]
        /\ \A s \in Reports \ {r} : report'[s] = report[s]
    BY <2>1, <2>2 DEF Inv, TypeOK
  <2>4. report'[r] \in Report /\ report'[r].by = report[r].by /\ report'[r].period = report[r].period
    BY <2>1, <2>3 DEF Report
  <2>5. report'[r] # Null /\ Packs' = Packs
    BY <2>1, <2>3, <2>4, Nulls DEF Packs
  <2>6. \A s \in Packs : report'[s].by = report[s].by /\ report'[s].period = report[s].period
    <3> HIDE DEF r
    <3> QED
      BY <2>3, <2>4 DEF Packs
  <2> QED
    BY <2>5, <2>6 DEF Scheduled
<1>3. ASSUME NEW j \in Renderers, PutFile(j) PROVE \A m \in Int : Scheduled(m)' = Scheduled(m)
  BY <1>3 DEF PutFile, Scheduled, Packs
<1> QED
  BY <1>1, <1>2, <1>3 DEF RenderDone, RenderFails

(* A day begins: the pack of the month that ended has been made.           *)
LEMMA DayKeepsMonths ==
  ASSUME Inv, MonthInv, DayPasses PROVE MonthInv'
<1> SUFFICES ASSUME ~disturbed' PROVE Regular' /\ Monthly'
  BY DEF MonthInv
<1>1. /\ ~disturbed /\ ticks = 0 /\ sched = Null
      /\ ticks' = 1 /\ sched' = Null /\ day' = day + 1 /\ packDay' = packDay
      /\ \A m \in Int : Scheduled(m)' = Scheduled(m)
  <2>1. ~disturbed /\ ~(ticks > 0) /\ sched = Null
    BY Zenon DEF DayPasses
  <2>2. ticks = 0
    BY <2>1 DEF Inv, TypeOK
  <2> QED
    BY <2>1, <2>2 DEF DayPasses, Scheduled, Packs
<1>2. Regular /\ Monthly
  BY <1>1 DEF MonthInv
<1>3. day \in Nat /\ packDay \in 0..DaysPerMonth
  BY PackJobsAssumption DEF Inv, TypeOK, DaysPerMonth
<1> DEFINE month == Month(day)
           dom == DayOfMonth(day)
<1>4. PICK next, first \in Int : next = Month(day') /\ first = DayOfMonth(day')
  BY <1>1, <1>3, Calendar
<1>5. /\ month \in Int /\ dom \in 1..DaysPerMonth
      /\ \/ next = month /\ first = dom + 1
         \/ next = month + 1 /\ first = 1 /\ dom = DaysPerMonth
  BY <1>1, <1>3, <1>4, Calendar
<1>6. Made <=> (packDay # 0 /\ dom >= packDay)
  BY <1>1, <1>3, <1>5 DEF Made, DaysPerMonth
<1>7. Made' <=> (packDay # 0 /\ first > packDay)
  <2>1. Made' <=> (packDay # 0 /\ DayOfMonth(day') > packDay)
    BY <1>1 DEF Made, DayOfMonth
  <2> QED
    BY <1>4, <2>1
<1>8. Regular'
  BY <1>1 DEF Regular
<1>9. ASSUME NEW m \in Int
      PROVE  /\ m > next => Scheduled(m) = {}
             /\ m = next => (Scheduled(m) # {} <=> Made')
             /\ packDay # 0 /\ m \in 1..(next - 1) => Scheduled(m) # {}
  <2>1. /\ m > month => Scheduled(m) = {}
        /\ m = month => (Scheduled(m) # {} <=> Made)
        /\ packDay # 0 /\ m \in 1..(month - 1) => Scheduled(m) # {}
    BY <1>2 DEF Monthly
  <2> HIDE DEF month, dom
  <2>2. CASE next = month /\ first = dom + 1
    <3>1. Made' <=> Made
      BY <1>3, <1>5, <1>6, <1>7, <2>2 DEF DaysPerMonth
    <3> QED
      BY <1>4, <1>5, <2>1, <2>2, <3>1
  <2>3. CASE next = month + 1 /\ first = 1 /\ dom = DaysPerMonth
    <3>1. ~Made' /\ (packDay # 0 => Made)
      BY <1>3, <1>6, <1>7, <2>3 DEF DaysPerMonth
    <3> QED
      BY <1>4, <1>5, <2>1, <2>3, <3>1
  <2> QED
    BY <1>5, <2>2, <2>3
<1>10. Month(day)' = next
  BY <1>4 DEF Month
<1> QED
  BY <1>1, <1>2, <1>8, <1>9, <1>10 DEF Monthly

(* A tick runs: on the day of the pack it is not drafted yet.              *)
LEMMA TickKeepsMonths ==
  ASSUME Inv, MonthInv, RunTick PROVE MonthInv'
<1> SUFFICES ASSUME ~disturbed' PROVE Regular' /\ Monthly'
  BY DEF MonthInv
<1> DEFINE due == [at |-> "due", report |-> Null]
<1>1. /\ ~disturbed /\ ticks > 0 /\ sched = Null /\ ticks' = ticks - 1
      /\ sched' = IF packDay = DayOfMonth(day) THEN due ELSE Null
      /\ day' = day /\ packDay' = packDay
      /\ \A m \in Int : Scheduled(m)' = Scheduled(m)
  BY DEF RunTick, Scheduled, Packs
<1>2. Regular /\ Monthly
  BY <1>1 DEF MonthInv
<1>3. ticks = 1 /\ ticks' = 0
  BY <1>1, <1>2 DEF Regular
<1>4. due # Null /\ due.at = "due"
  BY Nulls DEF Ticking
<1>5. Regular'
  BY <1>1, <1>3, <1>4 DEF Regular, DayOfMonth
<1>6. Made' <=> Made
  BY <1>1, <1>3, <1>4 DEF Made, DayOfMonth
<1>7. Month(day)' = Month(day)
  BY <1>1 DEF Month
<1> QED
  BY <1>1, <1>2, <1>5, <1>6, <1>7 DEF Monthly

(* The tick drafts: the month had no pack.                                 *)
LEMMA DraftKeepsMonths ==
  ASSUME Inv, MonthInv, NEW r \in Reports, DraftPack(r) PROVE MonthInv'
<1> SUFFICES ASSUME ~disturbed' PROVE Regular' /\ Monthly'
  BY DEF MonthInv
<1> DEFINE month == Month(day)
<1>1. /\ ~disturbed /\ sched # Null /\ sched.at = "due" /\ Insert(r, priorMonth, "schedule")
      /\ sched' = [at |-> "drafted", report |-> r]
      /\ day' = day /\ packDay' = packDay /\ ticks' = ticks
  BY DEF DraftPack
<1>2. Regular /\ Monthly
  BY <1>1 DEF MonthInv
<1>3. day \in Nat /\ month \in Int /\ packDay \in 0..DaysPerMonth
  BY PackJobsAssumption, Calendar DEF Inv, TypeOK, DaysPerMonth
<1>4. /\ report[r] = Null /\ report'[r] # Null /\ Packs' = Packs \cup {r}
      /\ \A s \in Reports \ {r} : report'[s] = report[s]
  BY <1>1, InsertOK
<1>5. report'[r].by = "schedule" /\ report'[r].period = month - 1
  BY <1>1 DEF Insert, Inv, TypeOK, priorMonth
<1>6. \A m \in Int : Scheduled(m)' = IF m = month THEN Scheduled(m) \cup {r} ELSE Scheduled(m)
  <2> HIDE DEF month
  <2> QED
    BY <1>3, <1>4, <1>5 DEF Scheduled, Packs
<1>7. packDay = DayOfMonth(day) /\ ticks = 0 /\ ~Made
  <2>1. packDay = DayOfMonth(day) /\ ticks = 0
    BY <1>1, <1>2 DEF Regular
  <2> QED
    BY <1>1, <1>3, <2>1 DEF Made
<1>8. Scheduled(month) = {}
  BY <1>2, <1>3, <1>7 DEF Monthly
<1>9. packDay # 0
  BY <1>3, <1>7, Calendar DEF DaysPerMonth
<1>10. Regular'
  BY <1>1, <1>7 DEF Regular
<1>11. Made'
  BY <1>1, <1>7, <1>9 DEF Made, DayOfMonth
<1>12. Month(day)' = month
  BY <1>1 DEF Month
<1>13. ASSUME NEW m \in Int
       PROVE  /\ \A s, t \in Scheduled(m)' : s = t
              /\ m > month => Scheduled(m)' = {}
              /\ m = month => Scheduled(m)' # {}
              /\ m \in 1..(month - 1) => Scheduled(m)' # {}
  <2>1. CASE m = month
    <3>1. Scheduled(m)' = {r}
      BY <1>6, <1>8, <2>1
    <3> QED
      BY <1>3, <2>1, <3>1
  <2>2. CASE m # month
    <3>1. Scheduled(m)' = Scheduled(m)
      BY <1>6, <2>2
    <3> QED
      BY <1>2, <1>3, <1>9, <2>2, <3>1 DEF Monthly
  <2> QED
    BY <2>1, <2>2
<1> QED
  BY <1>9, <1>10, <1>11, <1>12, <1>13 DEF Monthly

(* Every step keeps the months in order.                                   *)
LEMMA StepMonths ==
  ASSUME Inv, MonthInv, [Next]_vars PROVE MonthInv'
<1>1. CASE /\ UNCHANGED <<report, day, packDay, ticks, disturbed>>
           /\ sched' = sched \/ (sched' = Null /\ sched # Null /\ sched.at = "drafted")
  BY <1>1, MonthStays DEF Scheduled, Packs
<1>2. CASE UNCHANGED vars
  BY <1>1, <1>2 DEF vars, schedule
<1>3. ASSUME NEW q \in Requests,
             enqueueReport(q) \/ enqueueTimesOut(q) \/ RenderInline(q) \/ RequestDies(q)
      PROVE  MonthInv'
  BY <1>1, <1>3 DEF enqueueReport, enqueueTimesOut, RenderInline, RequestDies, schedule
<1>4. ASSUME NEW q \in Requests, NEW r \in Reports, PostReport(q, r) PROVE MonthInv'
  BY <1>4, RowsStay, MonthStays DEF PostReport, schedule
<1>5. ASSUME NEW r \in Reports, JobLands(r) \/ WorkerTakes(r) PROVE MonthInv'
  BY <1>1, <1>5 DEF JobLands, WorkerTakes, schedule
<1>6. ASSUME NEW j \in Renderers, PutFile(j) \/ RenderDone(j) \/ RenderFails(j) PROVE MonthInv'
  <2>1. UNCHANGED schedule
    BY <1>6 DEF PutFile, RenderDone, RenderFails, EndRender
  <2> QED
    BY <1>6, <2>1, RowsStay, MonthStays DEF schedule
<1>7. CASE RenderDies \/ AddArtifact
  BY <1>1, <1>7 DEF RenderDies, AddArtifact, schedule
<1>8. CASE TickDies \/ \E d \in PackDays \cup {0} : SetPackDay(d)
  BY <1>8 DEF TickDies, SetPackDay, MonthInv
<1> QED
  BY <1>2, <1>3, <1>4, <1>5, <1>6, <1>7, <1>8, DayKeepsMonths, TickKeepsMonths, DraftKeepsMonths DEF Next

(* At the start no month has a pack.                                       *)
LEMMA InitMonths ==
  ASSUME Init PROVE MonthInv
<1>1. /\ \A m \in Int : Scheduled(m) = {}
      /\ day = 2 /\ ticks = 1 /\ sched = Null /\ packDay \in PackDays \cup {0}
  BY DEF Init, Scheduled, Packs, DaysPerMonth
<1>2. Month(day) = 1 /\ DayOfMonth(day) = 1
  BY <1>1 DEF Month, DayOfMonth, DaysPerMonth
<1>3. packDay \in Nat
  BY <1>1, PackJobsAssumption DEF DaysPerMonth
<1>4. ~Made /\ Regular
  BY <1>1, <1>2, <1>3 DEF Made, Regular
<1> QED
  BY <1>1, <1>2, <1>4 DEF MonthInv, Monthly

(* The schedule drafts one pack for every month that has ended, never two, *)
(* as long as its ticks run on their day, nothing dies and the day is not  *)
(* moved: listMonthlyPackDueOrgs has no memory of what it packed.          *)
THEOREM OnePackEveryMonth == Spec => []OnePackAMonth
<1>1. Inv /\ MonthInv => OnePackAMonth
  <2> SUFFICES ASSUME Inv, MonthInv, ~disturbed, NEW m \in 1..Month(day)
               PROVE  /\ Cardinality(Scheduled(m)) <= 1
                      /\ packDay # 0 /\ m < Month(day) => Scheduled(m) # {}
    BY DEF OnePackAMonth
  <2>1. Monthly /\ Month(day) \in Int
    BY Calendar DEF MonthInv, Inv, TypeOK
  <2>2. \A r, s \in Scheduled(m) : r = s
    BY <2>1 DEF Monthly
  <2>3. Scheduled(m) = {} \/ \E r \in Scheduled(m) : Scheduled(m) = {r}
    BY <2>2
  <2>4. Cardinality(Scheduled(m)) \in {0, 1}
    BY <2>3, FS_EmptySet, FS_Singleton
  <2> QED
    BY <2>1, <2>4 DEF Monthly
<1>2. Init => MonthInv
  BY InitMonths
<1>3. Inv /\ MonthInv /\ [Next]_vars => MonthInv'
  BY StepMonths
<1> QED
  BY <1>1, <1>2, <1>3, Invariance, PTL DEF Spec
-----------------------------------------------------------------------------
(* Nothing on record of a pack is taken back, a drafted pack is on its     *)
(* way, and one that ends was on its way.                                  *)
LEMMA RecordGrows ==
  ASSUME Inv, [Next]_vars
  PROVE  /\ orphans \subseteq orphans'
         /\ \A r \in Reports :
              /\ report[r] = Null => report'[r] = Null \/ (report'[r].status = "queued" /\ OnItsWay(r)')
              /\ report[r] # Null => report'[r] # Null
              /\ report[r] # Null /\ report[r].status # "queued" => report'[r].status # "queued"
              /\ report[r] # Null /\ report'[r].status # "queued" => report[r].status # "queued" \/ OnItsWay(r)
<1> DEFINE Grows ==
      /\ orphans \subseteq orphans'
      /\ \A r \in Reports :
           /\ report[r] = Null => report'[r] = Null \/ (report'[r].status = "queued" /\ OnItsWay(r)')
           /\ report[r] # Null => report'[r] # Null
           /\ report[r] # Null /\ report[r].status # "queued" => report'[r].status # "queued"
           /\ report[r] # Null /\ report'[r].status # "queued" => report[r].status # "queued" \/ OnItsWay(r)
<1> SUFFICES Grows
  OBVIOUS
<1>1. CASE UNCHANGED report /\ orphans \subseteq orphans'
  BY <1>1
<1>2. ASSUME NEW r \in Reports, NEW by \in {"user", "schedule"}, Insert(r, priorMonth, by),
             UNCHANGED orphans, OnItsWay(r)'
      PROVE  Grows
  <2>1. /\ report[r] = Null /\ report'[r] # Null /\ report'[r].status = "queued"
        /\ \A s \in Reports \ {r} : report'[s] = report[s]
    BY <1>2, InsertOK
  <2> QED
    BY <1>2, <2>1
<1>3. ASSUME NEW q \in Requests, NEW r \in Reports, PostReport(q, r) PROVE Grows
  <2>1. Insert(r, priorMonth, "user") /\ req' = [req EXCEPT ![q] = [at |-> "enqueue", report |-> r]]
    BY <1>3 DEF PostReport, Go
  <2>2. [at |-> "enqueue", report |-> r] # Null
    BY Nulls DEF Going
  <2>3. OnItsWay(r)'
    BY <2>1, <2>2 DEF OnItsWay, At, Inv, TypeOK
  <2> QED
    BY <1>2, <1>3, <2>1, <2>3 DEF PostReport
<1>4. ASSUME NEW r \in Reports, DraftPack(r) PROVE Grows
  <2>1. Insert(r, priorMonth, "schedule") /\ sched' = [at |-> "drafted", report |-> r] /\ UNCHANGED orphans
    BY <1>4 DEF DraftPack
  <2>2. OnItsWay(r)'
    BY <2>1 DEF OnItsWay
  <2> QED
    BY <1>2, <2>1, <2>2
<1>5. ASSUME NEW j \in Renderers, RenderDone(j) \/ RenderFails(j) PROVE Grows
  <2> DEFINE r == render[j].report
  <2>1. PICK status \in {"ready", "failed"} :
          report' = [report EXCEPT ![r].status = status] /\ UNCHANGED orphans
    BY <1>5 DEF RenderDone, RenderFails, EndRender
  <2>2. render[j] # Null /\ r \in Packs /\ r \in Reports /\ report[r] \in Report
    BY <1>5 DEF RenderDone, RenderFails, Inv, TypeOK, RenderersOK, Packs
  <2>3. OnItsWay(r)
    BY <2>2 DEF OnItsWay, Locked
  <2>4. /\ report'[r] = [report[r] EXCEPT !.status = status]
        /\ \A s \in Reports \ {r} : report'[s] = report[s]
    BY <2>1, <2>2 DEF Inv, TypeOK
  <2>5. report'[r] \in Report /\ report'[r].status = status
    BY <2>2, <2>4 DEF Report
  <2>6. report'[r] # Null /\ report'[r].status # "queued" /\ report[r] # Null
    BY <2>2, <2>5, Nulls DEF Packs
  <2> HIDE DEF r
  <2> QED
    BY <2>1, <2>3, <2>4, <2>6
<1>6. CASE UNCHANGED vars
  BY <1>1, <1>6 DEF vars
<1>7. ASSUME NEW q \in Requests,
             enqueueReport(q) \/ enqueueTimesOut(q) \/ RenderInline(q) \/ RequestDies(q)
      PROVE  Grows
  BY <1>1, <1>7 DEF enqueueReport, enqueueTimesOut, RenderInline, RequestDies
<1>8. ASSUME NEW r \in Reports, JobLands(r) \/ WorkerTakes(r) PROVE Grows
  BY <1>1, <1>8 DEF JobLands, WorkerTakes
<1>9. ASSUME NEW j \in Renderers, PutFile(j) PROVE Grows
  BY <1>1, <1>9 DEF PutFile
<1>10. CASE RenderDies \/ DayPasses \/ RunTick \/ AddArtifact \/ TickDies
            \/ \E d \in PackDays \cup {0} : SetPackDay(d)
  BY <1>1, <1>10 DEF RenderDies, DayPasses, RunTick, AddArtifact, TickDies, SetPackDay
<1> HIDE DEF Grows
<1> QED
  BY <1>3, <1>4, <1>5, <1>6, <1>7, <1>8, <1>9, <1>10 DEF Next

LEMMA InitRefines ==
  ASSUME Init PROVE Promise!Init
BY DEF Init, Promise!Init, Situation

LEMMA StepRefines ==
  ASSUME Inv, Inv', [Next]_vars PROVE Promise!Next
<1>1. \A r \in Reports : Situation(r)' \in Promise!States
  BY DEF Promise!States, Situation
<1>2. orphans \subseteq orphans' /\ orphans' \subseteq Reports
  BY RecordGrows DEF Inv, TypeOK
<1>3. ASSUME NEW r \in Reports
      PROVE  \/ Situation(r) = "unknown" /\ Situation(r)' = "owed"
             \/ Situation(r) = "owed" /\ Situation(r)' = "ended"
             \/ Situation(r) = "owed" /\ Situation(r)' = "lost" /\ r \in orphans'
             \/ Situation(r) = "lost" /\ Situation(r)' = "owed"
             \/ Situation(r)' = Situation(r)
  <2>1. report'[r] # Null /\ report'[r].status = "queued" /\ ~OnItsWay(r)' => r \in orphans'
    BY DEF Inv, QueuedIsAccounted, Packs
  <2>2. CASE report[r] = Null
    BY <2>2, RecordGrows DEF Situation
  <2>3. CASE report[r] # Null
    BY <2>1, <2>3, RecordGrows DEF Situation
  <2> QED
    BY <2>2, <2>3
<1> QED
  BY <1>1, <1>2, <1>3 DEF Promise!Next, Promise!Accept, Promise!Finish, Promise!GiveUp, Promise!TryAgain,
     Promise!Stay, Promise!Becomes

(* Packs keep the promise of BackgroundWork: a drafted pack is owed its    *)
(* file until a render ends it, which then stands, and only a crash loses  *)
(* one, between the request, a late Redis, the queue, the inline render    *)
(* and the tick.                                                           *)
THEOREM PacksAreKept == Spec => NoPackForgotten
<1>1. Init => Inv /\ Promise!Init
  BY Initially, InitRefines
<1>2. Inv /\ [Next]_vars => Inv' /\ Promise!Next
  BY Inductive, StepRefines
<1> QED
  BY <1>1, <1>2, PTL DEF Spec, NoPackForgotten, Promise!Spec
=============================================================================
