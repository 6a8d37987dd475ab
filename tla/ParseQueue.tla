----------------------------- MODULE ParseQueue -----------------------------
(***************************************************************************)
(* From an upload to a parsed document: the API stores the file, lists it  *)
(* in a transaction and puts a job on the BullMQ queue; when Redis does    *)
(* not answer in time it runs the parse itself, though the job may still   *)
(* land.  The worker runs one job at a time; a failed job is not tried     *)
(* again, one whose worker died is put back once.  A parse is a single     *)
(* transaction (module MetricBook looks into it): its row in parse_jobs is *)
(* visible to nobody before it commits.                                    *)
(***************************************************************************)
EXTENDS Integers, FiniteSetsExt

CONSTANTS
  Docs,
  Unreadable, \* documents whose extraction throws
  MaxRuns,    \* bound: parses that are started
  Ops,        \* what may go wrong or be asked for, a subset of Operations
  Nobody

Operations == {"timeout", "crash", "fail", "reparse"}
Runs == 1..MaxRuns

ASSUME ParseQueueAssumption ==
  /\ Unreadable \subseteq Docs
  /\ MaxRuns \in Nat
  /\ Ops \subseteq Operations
  /\ Nobody \notin Runs \cup [doc : Docs, by : {"upload", "reparse", "worker"}]

VARIABLES
  files,   \* documents whose file is in the object store
  listed,  \* documents with a committed row
  upload,  \* where the request that uploads a document is
  queue,   \* of each document: its jobs that wait
  late,    \* documents whose job is still on the way to Redis
  stalled, \* documents whose job was put back after its worker died
  failed,  \* documents with a job in BullMQ's failed set
  started, \* how many parses have been started
  run,     \* the parses under way: [doc, by], or Nobody
  worker,  \* the parse the worker runs
  jobs     \* committed parse_jobs rows; started_at is the number of the run

store == <<files, listed>>
redis == <<queue, late, stalled, failed>>
vars == <<store, upload, redis, started, run, worker, jobs>>

Init ==
  /\ files = {} /\ listed = {}
  /\ upload = [d \in Docs |-> "none"]
  /\ queue = [d \in Docs |-> 0]
  /\ late = {} /\ stalled = {} /\ failed = {}
  /\ started = 0
  /\ run = [r \in Runs |-> Nobody]
  /\ worker = Nobody
  /\ jobs = {}
-----------------------------------------------------------------------------
Upload(d, from, to) == upload[d] = from /\ upload' = [upload EXCEPT ![d] = to]

(* POST /api/companies/:id/documents: the file, the row, the job.          *)
StoreFile(d) ==
  /\ Upload(d, "none", "stored")
  /\ files' = files \cup {d}
  /\ UNCHANGED <<listed, redis, started, run, worker, jobs>>

ListDocument(d) ==
  /\ Upload(d, "stored", "listed")
  /\ listed' = listed \cup {d}
  /\ UNCHANGED <<files, redis, started, run, worker, jobs>>

(* enqueueParse: the job is on the queue when Redis answers in time;       *)
(* otherwise it may land later or never, and the parse is run inline.      *)
Enqueue(d) ==
  /\ Upload(d, "listed", "answered")
  /\ queue' = [queue EXCEPT ![d] = @ + 1]
  /\ UNCHANGED <<store, late, stalled, failed, started, run, worker, jobs>>

EnqueueTimesOut(d) ==
  /\ "timeout" \in Ops
  /\ Upload(d, "listed", "inline")
  /\ late' \in {late, late \cup {d}}
  /\ UNCHANGED <<store, queue, stalled, failed, started, run, worker, jobs>>

JobLands(d) ==
  /\ d \in late
  /\ late' = late \ {d}
  /\ queue' = [queue EXCEPT ![d] = @ + 1]
  /\ UNCHANGED <<store, upload, stalled, failed, started, run, worker, jobs>>
-----------------------------------------------------------------------------
(* runParseJob begins: nothing of it can be seen. *)
Begin(d, by) ==
  /\ started < MaxRuns
  /\ started' = started + 1
  /\ run' = [run EXCEPT ![started + 1] = [doc |-> d, by |-> by]]

RunInline(d) ==
  /\ Upload(d, "inline", "parsing")
  /\ Begin(d, "upload")
  /\ UNCHANGED <<store, redis, worker, jobs>>

(* POST /api/parse/:documentId (bound: once after each upload). *)
Reparse(d) ==
  /\ "reparse" \in Ops
  /\ Upload(d, "answered", "asked")
  /\ Begin(d, "reparse")
  /\ UNCHANGED <<store, redis, worker, jobs>>

WorkerTakes(d) ==
  /\ worker = Nobody
  /\ queue[d] > 0
  /\ Begin(d, "worker")
  /\ worker' = started + 1
  /\ queue' = [queue EXCEPT ![d] = @ - 1]
  /\ UNCHANGED <<store, upload, late, stalled, failed, jobs>>

(* Mutant: the worker waits for the parse for ever. *)
EndUnnoticed(r, answer) ==
  /\ run[r] # Nobody
  /\ run' = [run EXCEPT ![r] = Nobody]
  /\ upload' = IF run[r].by = "upload" THEN [upload EXCEPT ![run[r].doc] = answer] ELSE upload
  /\ UNCHANGED worker

(* A parse is over: the worker is free again, an upload gets its answer.   *)
End(r, answer) ==
  /\ run[r] # Nobody
  /\ run' = [run EXCEPT ![r] = Nobody]
  /\ worker' = IF worker = r THEN Nobody ELSE worker
  /\ upload' = IF run[r].by = "upload" THEN [upload EXCEPT ![run[r].doc] = answer] ELSE upload

Succeed(r) ==
  /\ End(r, "answered")
  /\ run[r].doc \in files \ Unreadable
  /\ jobs' = jobs \cup {[doc |-> run[r].doc, startedAt |-> r, status |-> "done"]}
  /\ UNCHANGED <<store, redis, started>>

FailedJobs(r) == IF run[r].by = "worker" THEN failed \cup {run[r].doc} ELSE failed

(* Mutant: a job that throws leaves no trace in BullMQ either. *)
FailSilently(r) ==
  /\ End(r, "refused")
  /\ "fail" \in Ops \/ run[r].doc \in Unreadable
  /\ UNCHANGED <<store, redis, started, jobs>>

(* The catch block writes status = "error" and throws again, which rolls   *)
(* the transaction back, that row included.                                *)
Fail(r) ==
  /\ End(r, "refused")
  /\ "fail" \in Ops \/ run[r].doc \in Unreadable
  /\ failed' = FailedJobs(r)
  /\ UNCHANGED <<store, queue, late, stalled, started, jobs>>

(* The worker dies: BullMQ puts the stalled job back, the second time it   *)
(* moves it to the failed set (maxStalledCount 1).                         *)
WorkerDies(r) ==
  LET d == run[r].doc IN
  /\ "crash" \in Ops
  /\ worker = r
  /\ End(r, "refused")
  /\ IF d \in stalled
       THEN failed' = failed \cup {d} /\ UNCHANGED <<queue, stalled>>
       ELSE stalled' = stalled \cup {d} /\ queue' = [queue EXCEPT ![d] = @ + 1] /\ UNCHANGED failed
  /\ UNCHANGED <<store, late, started, jobs>>

(* The API dies during an upload; a parse it was running is gone as well.  *)
ApiDies(d) ==
  /\ "crash" \in Ops
  /\ upload[d] \in {"stored", "listed", "inline", "parsing"}
  /\ upload' = [upload EXCEPT ![d] = "refused"]
  /\ run' = [r \in Runs |-> IF run[r] = [doc |-> d, by |-> "upload"] THEN Nobody ELSE run[r]]
  /\ UNCHANGED <<store, redis, started, worker, jobs>>
-----------------------------------------------------------------------------
(* GET /api/documents: the phase of the latest parse_jobs row.             *)
RowsOf(d) == {j \in jobs : j.doc = d}
Latest(d) == CHOOSE j \in RowsOf(d) : \A i \in RowsOf(d) : i.startedAt <= j.startedAt
deriveParsePhase(d) == Latest(d).status
Phase(d) == IF RowsOf(d) = {} THEN "queued" ELSE deriveParsePhase(d)

Api(d) == StoreFile(d) \/ ListDocument(d) \/ Enqueue(d) \/ EnqueueTimesOut(d) \/ RunInline(d)
Parse(r) == Succeed(r) \/ Fail(r)

Next ==
  \/ \E d \in Docs : Api(d) \/ JobLands(d) \/ Reparse(d) \/ WorkerTakes(d) \/ ApiDies(d)
  \/ \E r \in Runs : Parse(r) \/ WorkerDies(r)

Spec == Init /\ [][Next]_vars

(* A request the API has taken goes on, Redis delivers what it was sent,   *)
(* the worker takes jobs, and a parse comes to an end.                     *)
FairSpec ==
  /\ Spec
  /\ \A d \in Docs :
       /\ WF_vars(upload[d] # "none" /\ Api(d))
       /\ WF_vars(JobLands(d))
       /\ SF_vars(WorkerTakes(d))
  /\ \A r \in Runs : WF_vars(Parse(r))
-----------------------------------------------------------------------------
(* Types of the state. *)
TypeOK ==
  /\ files \subseteq Docs /\ listed \subseteq Docs
  /\ upload \in [Docs -> {"none", "stored", "listed", "inline", "parsing", "answered", "refused", "asked"}]
  /\ queue \in [Docs -> Nat]
  /\ late \subseteq Docs /\ stalled \subseteq Docs /\ failed \subseteq Docs
  /\ started \in 0..MaxRuns
  /\ run \in [Runs -> [doc : Docs, by : {"upload", "reparse", "worker"}] \cup {Nobody}]
  /\ worker \in Runs \cup {Nobody}
  /\ jobs \subseteq [doc : Docs, startedAt : Runs, status : {"done", "error"}]

(* A document that is listed can be downloaded and parsed: its file is in  *)
(* the store, whatever step the upload died at.                            *)
ListedIsStored == listed \subseteq files

UnderWay(d) == \E r \in Runs : run[r] # Nobody /\ run[r].doc = d

(* A listed document is never forgotten by everybody: it is parsed, or a   *)
(* parse of it waits, runs or is in the failed set, or its uploader is     *)
(* still waiting or was told that the upload failed.                       *)
Accounted ==
  \A d \in listed :
    \/ Phase(d) = "done" \/ UnderWay(d)
    \/ queue[d] > 0 \/ d \in late \cup failed
    \/ upload[d] \in {"stored", "listed", "inline", "refused"}

(* Uploads are background work: a listed document is owed a parse, and who *)
(* gives one up leaves a failed job or an answer that the upload failed. A *)
(* job Redis may still deliver counts for nothing until it lands.          *)
Owing(d) == UnderWay(d) \/ queue[d] > 0 \/ upload[d] \in {"listed", "inline"}
Situation(d) ==
  IF d \notin listed THEN "unknown"
  ELSE IF Phase(d) = "done" THEN "ended"
  ELSE IF Owing(d) THEN "owed" ELSE "lost"
Promise == INSTANCE BackgroundWork WITH
  Work <- Docs,
  state <- [d \in Docs |-> Situation(d)],
  noted <- failed \cup {d \in Docs : upload[d] = "refused"}
NoUploadForgotten == Promise!Spec

(* A document shown as parsed stays so: a parse of it that fails later or  *)
(* that was started earlier does not take it back.                         *)
DoneStaysDone == [][\A d \in Docs : Phase(d) = "done" => Phase(d)' = "done"]_vars

(* Every upload comes to an end: parsed, in the failed set, or refused.    *)
EveryUploadEnds ==
  \A d \in Docs : (d \in listed) ~> (Phase(d) = "done" \/ d \in failed \/ upload[d] = "refused")
=============================================================================
