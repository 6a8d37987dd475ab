------------------------------ MODULE PackJobs ------------------------------
(***************************************************************************)
(* Monthly packs after they are drafted, by a request or once a month by   *)
(* the schedule: a job renders the file, run by the worker from the queue, *)
(* or by the API itself when Redis does not answer in time.  What a report *)
(* says is module ReportDesk's subject.                                    *)
(***************************************************************************)
EXTENDS Integers, FiniteSetsExt

CONSTANTS
  Requests, Reports, Null,
  MaxDay,   \* bound: days
  PackDays, \* days of the month that occur as monthlyPackDay
  Ops       \* what may go wrong, a subset of {"timeout", "crash", "fail", "late"}

DaysPerMonth == 2 \* bound: months are short
Worker == "worker"
Renderers == Requests \cup {Worker}

Report == [period : 0..MaxDay, by : {"user", "schedule"}, status : {"queued", "ready", "failed"}]
Going == [at : {"enqueue", "inline"}, report : Reports]
Rendering == [report : Reports, at : {"build", "put"}]
Ticking == [at : {"due", "drafted"}, report : Reports \cup {Null}]

ASSUME PackJobsAssumption ==
  /\ MaxDay \in Nat /\ MaxDay >= DaysPerMonth
  /\ PackDays \subseteq 1..DaysPerMonth
  /\ Worker \notin Requests
  /\ Null \notin Reports \cup Report \cup Going \cup Rendering \cup Ticking

VARIABLES
  report,   \* monthly packs in table reports: [period, by, status], or Null
  req,      \* where each request is: [at, report], or Null
  stored,   \* reports whose file is in the object store
  queue,    \* of each report: its jobs that wait
  late,     \* reports whose job is still on the way to Redis
  stalled,  \* reports whose job was put back after the worker died
  render,   \* what each renderer is at: [report, at], or Null
  day,      \* days since the beginning
  packDay,  \* monthlyPackDay, or 0 when the schedule is off
  ticks,    \* daily ticks that have not run
  sched,    \* the tick that runs: [at, report], or Null
  orphans,  \* (history) reports that lost a job by a crash
  disturbed \* (history) the schedule's days were not regular

jobs == <<queue, late, stalled, render>>
schedule == <<day, packDay, ticks, sched, disturbed>>
vars == <<report, req, stored, jobs, schedule, orphans>>

Init ==
  /\ report = [r \in Reports |-> Null]
  /\ req = [q \in Requests |-> Null]
  /\ stored = {} /\ late = {} /\ stalled = {}
  /\ queue = [r \in Reports |-> 0]
  /\ render = [j \in Renderers |-> Null]
  /\ day = DaysPerMonth /\ ticks = 1 /\ sched = Null
  /\ packDay \in PackDays \cup {0}
  /\ orphans = {} /\ disturbed = FALSE
-----------------------------------------------------------------------------
Month(d) == d \div DaysPerMonth
(* Mutant: days are counted from zero. *)
DayFromZero(d) == d % DaysPerMonth

DayOfMonth(d) == (d % DaysPerMonth) + 1
priorMonth == Month(day) - 1

At(q, place) == req[q] # Null /\ req[q].at = place
Go(q, step) == req' = [req EXCEPT ![q] = step]
End(q) == Go(q, Null)

(* INSERT INTO reports, committed.                                         *)
Insert(r, period, by) ==
  /\ report[r] = Null
  /\ report' = [report EXCEPT ![r] = [period |-> period, by |-> by, status |-> "queued"]]

(* POST /api/reports: the pack (of any period, for the model the last) is  *)
(* committed, then its job put on the queue.                               *)
PostReport(q, r) ==
  /\ req[q] = Null
  /\ Insert(r, priorMonth, "user")
  /\ Go(q, [at |-> "enqueue", report |-> r])
  /\ UNCHANGED <<stored, jobs, schedule, orphans>>

enqueueReport(q) ==
  /\ At(q, "enqueue")
  /\ queue' = [queue EXCEPT ![req[q].report] = @ + 1]
  /\ End(q)
  /\ UNCHANGED <<report, stored, late, stalled, render, schedule, orphans>>

enqueueTimesOut(q) ==
  /\ "timeout" \in Ops
  /\ At(q, "enqueue")
  /\ late' \in {late, late \cup {req[q].report}}
  /\ Go(q, [at |-> "inline", report |-> req[q].report])
  /\ UNCHANGED <<report, stored, queue, stalled, render, schedule, orphans>>

JobLands(r) ==
  /\ r \in late
  /\ late' = late \ {r}
  /\ queue' = [queue EXCEPT ![r] = @ + 1]
  /\ UNCHANGED <<req, report, stored, stalled, render, schedule, orphans>>

(* The API goes down with a request.                                       *)
RequestDies(q) ==
  /\ "crash" \in Ops
  /\ req[q] # Null
  /\ orphans' = IF At(q, "enqueue") \/ At(q, "inline") THEN orphans \cup {req[q].report} ELSE orphans
  /\ render' = [render EXCEPT ![q] = Null]
  /\ End(q)
  /\ UNCHANGED <<report, stored, queue, late, stalled, schedule>>
-----------------------------------------------------------------------------
(* runReportJob: its first UPDATE locks the row until the transaction ends *)
(* and is visible to nobody.                                               *)
Locked(r) == \E j \in Renderers : render[j] # Null /\ render[j].report = r

StartRender(j, r) ==
  /\ render[j] = Null
  /\ ~Locked(r)
  /\ render' = [render EXCEPT ![j] = [report |-> r, at |-> "build"]]

RenderInline(q) ==
  /\ At(q, "inline")
  /\ StartRender(q, req[q].report)
  /\ UNCHANGED <<req, report, stored, queue, late, stalled, schedule, orphans>>

WorkerTakes(r) ==
  /\ queue[r] > 0
  /\ queue' = [queue EXCEPT ![r] = @ - 1]
  /\ StartRender(Worker, r)
  /\ UNCHANGED <<req, report, stored, late, stalled, schedule, orphans>>

PutFile(j) ==
  /\ render[j] # Null /\ render[j].at = "build"
  /\ stored' = stored \cup {render[j].report}
  /\ render' = [render EXCEPT ![j].at = "put"]
  /\ UNCHANGED <<req, report, queue, late, stalled, schedule, orphans>>

EndRender(j, status) ==
  /\ report' = [report EXCEPT ![render[j].report].status = status]
  /\ render' = [render EXCEPT ![j] = Null]
  /\ req' = IF j \in Requests THEN [req EXCEPT ![j] = Null] ELSE req
  /\ UNCHANGED <<stored, queue, late, stalled, schedule, orphans>>

(* Mutant: the row is not marked. *)
RenderUnmarked(j) ==
  /\ render[j] # Null /\ render[j].at = "put"
  /\ EndRender(j, "queued")

RenderDone(j) ==
  /\ render[j] # Null /\ render[j].at = "put"
  /\ EndRender(j, "ready")

(* Building or storing throws: caught, and the transaction commits.        *)
RenderFails(j) ==
  /\ "fail" \in Ops
  /\ render[j] # Null /\ render[j].at = "build"
  /\ EndRender(j, "failed")

(* The worker dies: BullMQ puts the job back once.                         *)
RenderDies ==
  /\ "crash" \in Ops
  /\ render[Worker] # Null
  /\ LET r == render[Worker].report IN
       \/ /\ r \notin stalled
          /\ stalled' = stalled \cup {r}
          /\ queue' = [queue EXCEPT ![r] = @ + 1]
          /\ UNCHANGED orphans
       \/ /\ r \in stalled
          /\ orphans' = orphans \cup {r}
          /\ UNCHANGED <<stalled, queue>>
  /\ render' = [render EXCEPT ![Worker] = Null]
  /\ UNCHANGED <<req, report, stored, late, schedule>>
-----------------------------------------------------------------------------
(* A day ends; BullMQ adds the next tick.  One that has not run yet runs   *)
(* beside it or is skipped, which the source leaves open.                  *)
DayPasses ==
  /\ day < MaxDay
  /\ (ticks = 0 /\ sched = Null) \/ "late" \in Ops
  /\ day' = day + 1
  /\ ticks' \in {1, ticks + 1} /\ ticks' <= 2
  /\ disturbed' = (disturbed \/ ticks > 0 \/ sched # Null)
  /\ UNCHANGED <<req, report, stored, jobs, packDay, sched, orphans>>

(* POST /api/settings *)
SetPackDay(d) ==
  /\ packDay # d
  /\ packDay' = d
  /\ disturbed' = TRUE
  /\ UNCHANGED <<req, report, stored, jobs, day, ticks, sched, orphans>>

(* report.monthly_schedule: listMonthlyPackDueOrgs, ...                    *)
RunTick ==
  /\ ticks > 0 /\ sched = Null
  /\ ticks' = ticks - 1
  /\ sched' = IF packDay = DayOfMonth(day) THEN [at |-> "due", report |-> Null] ELSE Null
  /\ UNCHANGED <<req, report, stored, jobs, day, packDay, disturbed, orphans>>

(* ... draftMonthlyPackForOrg, committed, ...                              *)
DraftPack(r) ==
  /\ sched # Null /\ sched.at = "due"
  /\ Insert(r, priorMonth, "schedule")
  /\ sched' = [at |-> "drafted", report |-> r]
  /\ UNCHANGED <<req, stored, jobs, day, packDay, ticks, disturbed, orphans>>

(* ... and its job put on the queue. *)
AddArtifact ==
  /\ sched # Null /\ sched.at = "drafted"
  /\ queue' = [queue EXCEPT ![sched.report] = @ + 1]
  /\ sched' = Null
  /\ UNCHANGED <<req, report, stored, late, stalled, render, day, packDay, ticks, disturbed, orphans>>

(* The worker dies in the tick, which runs again from its beginning or is  *)
(* given up.                                                               *)
TickDies ==
  /\ "crash" \in Ops
  /\ sched # Null
  /\ orphans' = IF sched.at = "drafted" THEN orphans \cup {sched.report} ELSE orphans
  /\ sched' = Null
  /\ ticks' \in {ticks, ticks + 1} /\ ticks' <= 2
  /\ disturbed' = TRUE
  /\ UNCHANGED <<req, report, stored, jobs, day, packDay>>

Next ==
  \/ \E q \in Requests : \/ \E r \in Reports : PostReport(q, r)
                       \/ enqueueReport(q) \/ enqueueTimesOut(q) \/ RenderInline(q) \/ RequestDies(q)
  \/ \E r \in Reports : JobLands(r) \/ WorkerTakes(r) \/ DraftPack(r)
  \/ \E j \in Renderers : PutFile(j) \/ RenderDone(j) \/ RenderFails(j)
  \/ RenderDies \/ DayPasses \/ RunTick \/ AddArtifact \/ TickDies
  \/ \E d \in PackDays \cup {0} : SetPackDay(d)

Spec == Init /\ [][Next]_vars

(* The worker runs the jobs there are, a job goes on to its end; a         *)
(* transaction that waits for a row gets it.                               *)
FairSpec ==
  /\ Spec
  /\ \A r \in Reports : SF_vars(WorkerTakes(r))
  /\ \A j \in Renderers : WF_vars(PutFile(j)) /\ WF_vars(RenderDone(j))
-----------------------------------------------------------------------------
(* Types of the state. *)
TypeOK ==
  /\ report \in [Reports -> Report \cup {Null}]
  /\ req \in [Requests -> Going \cup {Null}]
  /\ stored \subseteq Reports /\ late \subseteq Reports /\ stalled \subseteq Reports /\ orphans \subseteq Reports
  /\ queue \in [Reports -> Nat]
  /\ render \in [Renderers -> Rendering \cup {Null}]
  /\ day \in 0..MaxDay /\ packDay \in PackDays \cup {0} /\ ticks \in 0..2
  /\ sched \in Ticking \cup {Null}
  /\ disturbed \in BOOLEAN

Packs == {r \in Reports : report[r] # Null}

(* A pack that is shown as ready has its file, whatever died on the way.   *)
ReadyIsStored == \A r \in Packs : report[r].status = "ready" => r \in stored

(* A pack that is shown as queued is on its way, somewhere between the     *)
(* request or the tick that drafted it, Redis and a renderer, unless a     *)
(* crash lost it there.                                                    *)
OnItsWay(r) ==
  \/ queue[r] > 0 \/ Locked(r)
  \/ \E q \in Requests : (At(q, "enqueue") \/ At(q, "inline")) /\ req[q].report = r
  \/ sched = [at |-> "drafted", report |-> r]
QueuedIsAccounted ==
  \A r \in Packs \ orphans : report[r].status = "queued" => OnItsWay(r)

(* Packs are background work: a drafted one is owed its file, and ends as  *)
(* ready or failed; only a crash gives one up.  A job Redis may still      *)
(* deliver counts for nothing until it lands.                              *)
Situation(r) ==
  IF report[r] = Null THEN "unknown"
  ELSE IF report[r].status # "queued" THEN "ended"
  ELSE IF OnItsWay(r) THEN "owed" ELSE "lost"
Promise == INSTANCE BackgroundWork WITH
  Work <- Reports, state <- [r \in Reports |-> Situation(r)], noted <- orphans
NoPackForgotten == Promise!Spec

(* The schedule packs every month once, for the month before, as long as   *)
(* its ticks run on their day, nothing dies and the day is not moved.      *)
Scheduled(m) == {r \in Packs : report[r].by = "schedule" /\ report[r].period = m - 1}
OnePackAMonth ==
  ~disturbed => \A m \in 1..Month(day) :
    /\ Cardinality(Scheduled(m)) <= 1
    /\ packDay # 0 /\ m < Month(day) => Scheduled(m) # {}

(* A pack whose job is on the queue is rendered or marked as failed, or a  *)
(* crash lost it.                                                          *)
QueuedEnds ==
  \A r \in Reports : queue[r] > 0 ~>
    (report[r] # Null /\ report[r].status \in {"ready", "failed"}) \/ r \in orphans
=============================================================================
