-------------------------- MODULE ParseQueueProofs --------------------------
(***************************************************************************)
(* Proofs about ParseQueue for any documents, any number of parses and     *)
(* whatever may go wrong.                                                  *)
(***************************************************************************)
EXTENDS ParseQueue, TLAPS

Job == [doc : Docs, startedAt : Runs, status : {"done", "error"}]
Parsing == [doc : Docs, by : {"upload", "reparse", "worker"}]

(* A run that has not started is nobody's. *)
RunsAreNew == \A r \in Runs : r > started => run[r] = Nobody

(* Before its file is stored nothing is known of a document. *)
StartsStored ==
  /\ \A d \in Docs \ files : upload[d] = "none" /\ queue[d] = 0 /\ d \notin late
  /\ \A r \in Runs : run[r] # Nobody => run[r].doc \in files

(* Rows that stand are of parses that succeeded, and one of a document's   *)
(* rows is the latest.                                                     *)
RowsAreDone ==
  /\ \A j \in jobs : j.status = "done"
  /\ \A d \in Docs : RowsOf(d) # {} =>
       \E j \in RowsOf(d) : \A i \in RowsOf(d) : i.startedAt <= j.startedAt

(* Who answers for a document that is not parsed: not a parse on request,  *)
(* which may fail without a trace, nor a job that may never land.          *)
Owed(d) ==
  \/ \E r \in Runs : run[r] # Nobody /\ run[r].doc = d /\ run[r].by # "reparse"
  \/ queue[d] > 0 \/ d \in failed
  \/ upload[d] \in {"listed", "inline", "refused"}
OwedOrDone == \A d \in listed : RowsOf(d) # {} \/ Owed(d)

Inv == TypeOK /\ RunsAreNew /\ StartsStored /\ ListedIsStored /\ RowsAreDone /\ OwedOrDone
-----------------------------------------------------------------------------
(* The phase of a document is "done" exactly when a parse of it succeeded. *)
LEMMA DonePhase ==
  ASSUME RowsAreDone, NEW d \in Docs
  PROVE  Phase(d) = "done" <=> RowsOf(d) # {}
<1>1. CASE RowsOf(d) = {}
  BY <1>1 DEF Phase
<1>2. CASE RowsOf(d) # {}
  <2>1. Latest(d) \in RowsOf(d)
    BY <1>2 DEF RowsAreDone, Latest
  <2>2. Latest(d).status = "done"
    BY <2>1 DEF RowsOf, RowsAreDone
  <2> QED
    BY <1>2, <2>2 DEF Phase, deriveParsePhase
<1> QED
  BY <1>1, <1>2

(* The same after a step. *)
LEMMA DonePhaseNext ==
  ASSUME RowsAreDone', NEW d \in Docs
  PROVE  (Phase(d) = "done")' <=> (RowsOf(d) # {})'
<1>1. CASE RowsOf(d)' = {}
  BY <1>1 DEF Phase
<1>2. CASE RowsOf(d)' # {}
  <2>1. Latest(d)' \in RowsOf(d)'
    BY <1>2 DEF RowsAreDone, Latest
  <2>2. (Latest(d).status)' = "done"
    BY <2>1 DEF RowsOf, RowsAreDone
  <2> QED
    BY <1>2, <2>2 DEF Phase, deriveParsePhase
<1> QED
  BY <1>1, <1>2

(* Who answers for a document is one of those the invariant names. *)
LEMMA AccountedFor ==
  ASSUME Inv PROVE Accounted
<1> SUFFICES ASSUME NEW d \in listed
             PROVE  \/ Phase(d) = "done" \/ UnderWay(d)
                    \/ queue[d] > 0 \/ d \in late \cup failed
                    \/ upload[d] \in {"stored", "listed", "inline", "refused"}
  BY DEF Accounted
<1>1. d \in Docs
  BY DEF Inv, TypeOK
<1> QED
  BY <1>1, DonePhase DEF Inv, OwedOrDone, Owed, UnderWay

(* Initially nothing is known. *)
LEMMA Initially ==
  ASSUME Init PROVE Inv
<1> USE DEF Init
<1>1. TypeOK
  BY ParseQueueAssumption DEF TypeOK
<1>2. RowsAreDone
  BY DEF RowsAreDone, RowsOf
<1>3. RunsAreNew /\ StartsStored /\ ListedIsStored /\ OwedOrDone
  BY DEF RunsAreNew, StartsStored, ListedIsStored, OwedOrDone
<1> QED
  BY <1>1, <1>2, <1>3 DEF Inv

(* A parse that begins takes a number of its own. *)
LEMMA BeginKeeps ==
  ASSUME Inv, NEW d \in files, NEW by \in {"upload", "reparse", "worker"}, Begin(d, by)
  PROVE  /\ started' \in 0..MaxRuns /\ started + 1 \in Runs
         /\ run' \in [Runs -> Parsing \cup {Nobody}]
         /\ RunsAreNew'
         /\ run[started + 1] = Nobody
         /\ run'[started + 1] = [doc |-> d, by |-> by]
         /\ \A r \in Runs \ {started + 1} : run'[r] = run[r]
         /\ run'[started + 1] # Nobody
<1>1. started \in 0..MaxRuns /\ run \in [Runs -> Parsing \cup {Nobody}] /\ d \in Docs
  BY DEF Inv, TypeOK, Parsing
<1>2. started + 1 \in Runs /\ started' \in 0..MaxRuns
  BY <1>1, ParseQueueAssumption DEF Begin, Runs
<1>3. [doc |-> d, by |-> by] \in Parsing
  BY <1>1, Zenon DEF Parsing
<1>4. run[started + 1] = Nobody
  BY <1>1, <1>2 DEF Inv, RunsAreNew, Runs
<1>5. RunsAreNew'
  BY <1>1, <1>2 DEF Begin, Inv, RunsAreNew, Runs
<1>6. [doc |-> d, by |-> by] # Nobody
  BY <1>3, ParseQueueAssumption DEF Parsing
<1>7. run' = [run EXCEPT ![started + 1] = [doc |-> d, by |-> by]]
  BY DEF Begin
<1> QED
  BY <1>1, <1>2, <1>3, <1>4, <1>5, <1>6, <1>7

(* The parse answers for its document then, unless it was asked for.       *)
LEMMA OwedWithBegin ==
  ASSUME Inv, NEW d \in files, NEW by \in {"upload", "reparse", "worker"}, Begin(d, by),
         UNCHANGED <<listed, late, failed, jobs>>,
         \A c \in Docs : upload'[c] = upload[c]
           \/ (c = d /\ upload[c] = "inline" /\ by = "upload") \/ upload[c] = "answered",
         \A c \in Docs : queue'[c] = queue[c] \/ (c = d /\ by = "worker")
  PROVE  OwedOrDone'
<1> SUFFICES ASSUME NEW c \in listed, RowsOf(c) = {} PROVE Owed(c)'
  BY DEF OwedOrDone, RowsOf
<1>1. c \in Docs /\ Owed(c)
  BY DEF Inv, TypeOK, OwedOrDone
<1>2. /\ started + 1 \in Runs
      /\ run[started + 1] = Nobody
      /\ run'[started + 1] = [doc |-> d, by |-> by] /\ run'[started + 1] # Nobody
      /\ \A r \in Runs \ {started + 1} : run'[r] = run[r]
  BY BeginKeeps
<1>3. CASE c = d /\ by # "reparse"
  BY <1>2, <1>3 DEF Owed
<1>4. CASE ~(c = d /\ by # "reparse")
  <2>1. queue'[c] = queue[c] /\ (upload'[c] = upload[c] \/ upload[c] = "answered")
    BY <1>1, <1>4
  <2>2. ASSUME NEW r \in Runs, run[r] # Nobody PROVE run'[r] = run[r]
    BY <1>2, <2>2
  <2> QED
    BY <1>1, <2>1, <2>2 DEF Owed
<1> QED
  BY <1>3, <1>4

(* The end of a parse frees its number and answers the upload that ran it. *)
LEMMA EndKeeps ==
  ASSUME Inv, NEW r \in Runs, NEW answer \in {"answered", "refused"}, End(r, answer)
  PROVE  /\ run[r] \in Parsing /\ run[r].doc \in Docs /\ run[r].doc \in files
         /\ run' \in [Runs -> Parsing \cup {Nobody}]
         /\ run'[r] = Nobody
         /\ \A q \in Runs \ {r} : run'[q] = run[q]
         /\ worker' \in Runs \cup {Nobody}
         /\ upload' \in [Docs -> {"none", "stored", "listed", "inline", "parsing", "answered", "refused", "asked"}]
         /\ \A c \in Docs : c # run[r].doc => upload'[c] = upload[c]
         /\ run[r].by = "upload" => upload'[run[r].doc] = answer
         /\ run[r].by # "upload" => upload' = upload
<1>1. run \in [Runs -> Parsing \cup {Nobody}] /\ run[r] # Nobody
  BY DEF Inv, TypeOK, Parsing, End
<1>2. run[r] \in Parsing
  BY <1>1
<1>3. run[r].doc \in Docs
  BY <1>2 DEF Parsing
<1>4. run[r].doc \in files
  BY <1>1 DEF Inv, StartsStored
<1> QED
  BY <1>1, <1>2, <1>3, <1>4 DEF End, Inv, TypeOK
-----------------------------------------------------------------------------
(* The steps of an upload, until its parse is queued or begins. *)
LEMMA StoreFileOK ==
  ASSUME Inv, NEW d \in Docs, StoreFile(d) PROVE Inv'
<1> USE DEF StoreFile, Upload, redis, Inv
<1>1. TypeOK'
  BY DEF TypeOK
<1>2. RunsAreNew' /\ ListedIsStored' /\ RowsAreDone'
  BY DEF RunsAreNew, ListedIsStored, RowsAreDone, RowsOf
<1>3. StartsStored'
  BY DEF StartsStored, TypeOK
<1>4. OwedOrDone'
  <2> SUFFICES ASSUME NEW c \in listed, RowsOf(c) = {} PROVE Owed(c)'
    BY DEF OwedOrDone, RowsOf
  <2>1. c \in Docs /\ Owed(c)
    BY DEF TypeOK, OwedOrDone
  <2>2. upload'[c] = upload[c] \/ upload[c] = "none"
    BY <2>1 DEF TypeOK
  <2> QED
    BY <2>1, <2>2 DEF Owed
<1> QED
  BY <1>1, <1>2, <1>3, <1>4

LEMMA ListDocumentOK ==
  ASSUME Inv, NEW d \in Docs, ListDocument(d) PROVE Inv'
<1> USE DEF ListDocument, Upload, redis, Inv
<1>0. d \in files
  BY DEF StartsStored
<1>1. TypeOK'
  BY DEF TypeOK
<1>2. RunsAreNew' /\ ListedIsStored' /\ RowsAreDone'
  BY <1>0 DEF RunsAreNew, ListedIsStored, RowsAreDone, RowsOf
<1>3. StartsStored'
  BY <1>0 DEF StartsStored, TypeOK
<1>4. OwedOrDone'
  <2> SUFFICES ASSUME NEW c \in listed', RowsOf(c) = {} PROVE Owed(c)'
    BY DEF OwedOrDone, RowsOf
  <2>1. CASE c = d
    BY <2>1 DEF Owed, TypeOK
  <2>2. CASE c # d
    <3>1. c \in Docs /\ Owed(c) /\ upload'[c] = upload[c]
      BY <2>2 DEF TypeOK, OwedOrDone
    <3> QED
      BY <3>1 DEF Owed
  <2> QED
    BY <2>1, <2>2
<1> QED
  BY <1>1, <1>2, <1>3, <1>4

LEMMA EnqueueOK ==
  ASSUME Inv, NEW d \in Docs, Enqueue(d) \/ EnqueueTimesOut(d) \/ JobLands(d) PROVE Inv'
<1> USE DEF Enqueue, EnqueueTimesOut, JobLands, Upload, store, Inv
<1>0. d \in files
  BY DEF StartsStored
<1>1. TypeOK'
  BY DEF TypeOK
<1>2. RunsAreNew' /\ ListedIsStored' /\ RowsAreDone'
  BY DEF RunsAreNew, ListedIsStored, RowsAreDone, RowsOf
<1>3. StartsStored'
  BY <1>0 DEF StartsStored, TypeOK
<1>4. OwedOrDone'
  <2> SUFFICES ASSUME NEW c \in listed, RowsOf(c) = {} PROVE Owed(c)'
    BY DEF OwedOrDone, RowsOf
  <2>1. c \in Docs /\ Owed(c)
    BY DEF TypeOK, OwedOrDone
  <2>2. CASE c = d
    BY <2>1, <2>2 DEF Owed, TypeOK
  <2>3. CASE c # d
    <3>1. upload'[c] = upload[c] /\ queue'[c] = queue[c] /\ (c \in late => c \in late')
      BY <2>1, <2>3 DEF TypeOK
    <3> QED
      BY <2>1, <3>1 DEF Owed
  <2> QED
    BY <2>2, <2>3
<1> QED
  BY <1>1, <1>2, <1>3, <1>4

(* The three ways in which a parse begins. *)
LEMMA BeginOK ==
  ASSUME Inv, NEW d \in Docs, RunInline(d) \/ Reparse(d) \/ WorkerTakes(d) PROVE Inv'
<1> USE DEF RunInline, Reparse, WorkerTakes, Upload, store, redis, Inv
<1>0. d \in files
  BY DEF StartsStored, TypeOK
<1>1. PICK by \in {"upload", "reparse", "worker"} :
        /\ Begin(d, by)
        /\ \A c \in Docs : upload'[c] = upload[c]
             \/ (c = d /\ upload[c] = "inline" /\ by = "upload") \/ upload[c] = "answered"
        /\ \A c \in Docs : queue'[c] = queue[c] \/ (c = d /\ by = "worker")
  <2>1. CASE RunInline(d)
    <3>1. Begin(d, "upload")
      BY <2>1
    <3> QED
      BY <2>1, <3>1 DEF TypeOK
  <2>2. CASE Reparse(d)
    <3>1. Begin(d, "reparse")
      BY <2>2
    <3> QED
      BY <2>2, <3>1 DEF TypeOK
  <2>3. CASE WorkerTakes(d)
    <3>1. Begin(d, "worker")
      BY <2>3
    <3> QED
      BY <2>3, <3>1 DEF TypeOK
  <2> QED
    BY <2>1, <2>2, <2>3
<1>2. /\ started' \in 0..MaxRuns /\ started + 1 \in Runs
      /\ run' \in [Runs -> Parsing \cup {Nobody}]
      /\ RunsAreNew'
      /\ run'[started + 1] = [doc |-> d, by |-> by]
      /\ \A r \in Runs \ {started + 1} : run'[r] = run[r]
  BY <1>0, <1>1, BeginKeeps
<1>3. TypeOK'
  BY <1>2 DEF TypeOK, Parsing
<1>4. ListedIsStored' /\ RowsAreDone'
  BY DEF ListedIsStored, RowsAreDone, RowsOf
<1>5. StartsStored'
  BY <1>0, <1>2 DEF StartsStored, TypeOK
<1>6. OwedOrDone'
  BY <1>0, <1>1, OwedWithBegin DEF TypeOK
<1> QED
  BY <1>2, <1>3, <1>4, <1>5, <1>6
-----------------------------------------------------------------------------
(* A parse that succeeded leaves the latest row of its document. *)
LEMMA SucceedOK ==
  ASSUME Inv, NEW r \in Runs, Succeed(r) PROVE Inv'
<1> DEFINE d == run[r].doc
           row == [doc |-> d, startedAt |-> r, status |-> "done"]
<1> USE DEF Inv
<1>1. /\ End(r, "answered") /\ UNCHANGED <<files, listed, queue, late, stalled, failed, started>>
      /\ jobs' = jobs \cup {row}
  BY DEF Succeed, store, redis
<1>2. /\ run[r] \in Parsing /\ d \in Docs /\ d \in files
      /\ run' \in [Runs -> Parsing \cup {Nobody}]
      /\ run'[r] = Nobody
      /\ \A q \in Runs \ {r} : run'[q] = run[q]
      /\ worker' \in Runs \cup {Nobody}
      /\ upload' \in [Docs -> {"none", "stored", "listed", "inline", "parsing", "answered", "refused", "asked"}]
      /\ \A c \in Docs : c # d => upload'[c] = upload[c]
  BY <1>1, EndKeeps
<1>3. TypeOK'
  BY <1>1, <1>2 DEF TypeOK, Parsing
<1>4. RunsAreNew' /\ ListedIsStored' /\ StartsStored'
  BY <1>1, <1>2 DEF RunsAreNew, ListedIsStored, StartsStored, TypeOK
<1>5. RowsAreDone'
  <2>1. \A j \in jobs' : j.status = "done"
    BY <1>1 DEF RowsAreDone
  <2>2. ASSUME NEW c \in Docs, RowsOf(c)' # {}
        PROVE  \E j \in RowsOf(c)' : \A i \in RowsOf(c)' : i.startedAt <= j.startedAt
    <3>1. CASE c # d
      <4>1. RowsOf(c)' = RowsOf(c)
        BY <1>1, <3>1 DEF RowsOf
      <4> QED
        BY <2>2, <4>1 DEF RowsAreDone
    <3>2. CASE c = d
      <4>1. RowsOf(c)' = RowsOf(c) \cup {row}
        BY <1>1, <3>2 DEF RowsOf
      <4>2. \A i \in RowsOf(c)' : i.startedAt \in Int
        BY <4>1 DEF RowsOf, TypeOK, Runs
      <4>3. CASE RowsOf(c) = {}
        BY <4>1, <4>2, <4>3
      <4>4. CASE RowsOf(c) # {}
        <5>1. PICK j \in RowsOf(c) : \A i \in RowsOf(c) : i.startedAt <= j.startedAt
          BY <4>4 DEF RowsAreDone
        <5>2. CASE row.startedAt <= j.startedAt
          BY <4>1, <5>1, <5>2
        <5>3. CASE ~(row.startedAt <= j.startedAt)
          <6>1. j.startedAt \in Int /\ row.startedAt \in Int
            BY <4>1, <4>2
          <6>2. ASSUME NEW i \in RowsOf(c)' PROVE i.startedAt <= row.startedAt
            <7>1. i \in RowsOf(c) => i.startedAt <= j.startedAt
              BY <5>1
            <7>2. i.startedAt \in Int /\ (i \in RowsOf(c) \/ i = row)
              BY <4>1, <4>2
            <7> HIDE DEF row
            <7> QED
              BY <5>3, <6>1, <7>1, <7>2
          <6> QED
            BY <4>1, <6>2
        <5> QED
          BY <5>2, <5>3
      <4> QED
        BY <4>3, <4>4
    <3> QED
      BY <3>1, <3>2
  <2> QED
    BY <2>1, <2>2 DEF RowsAreDone
<1>6. OwedOrDone'
  <2>0. listed' = listed
    BY <1>1
  <2> SUFFICES ASSUME NEW c \in listed, RowsOf(c)' = {} PROVE Owed(c)'
    BY <2>0, Zenon DEF OwedOrDone
  <2>1. c \in Docs /\ c # d /\ RowsOf(c) = {}
    <3>1. c \in Docs
      BY DEF TypeOK
    <3>2. row \in jobs' /\ jobs \subseteq jobs' /\ row.doc = d
      BY <1>1
    <3>3. \A j \in jobs' : j.doc # c
      BY DEF RowsOf
    <3> QED
      BY <3>1, <3>2, <3>3 DEF RowsOf
  <2>2. Owed(c) /\ upload'[c] = upload[c]
    BY <1>2, <2>1 DEF OwedOrDone
  <2> QED
    BY <1>1, <1>2, <2>1, <2>2 DEF Owed
<1> QED
  BY <1>3, <1>4, <1>5, <1>6

(* One that failed is in the failed set or back on the queue when a worker *)
(* ran it, and refused when the upload did.                                *)
LEMMA FailOK ==
  ASSUME Inv, NEW r \in Runs, Fail(r) \/ WorkerDies(r) PROVE Inv'
<1> DEFINE d == run[r].doc
<1> USE DEF Inv
<1>1. /\ End(r, "refused") /\ UNCHANGED <<files, listed, late, started, jobs>>
      /\ stalled' \in {stalled, stalled \cup {d}}
      /\ failed' \in {failed, failed \cup {d}}
      /\ queue' \in {queue, [queue EXCEPT ![d] = @ + 1]}
      /\ run[r].by = "worker" => failed' = failed \cup {d} \/ queue' = [queue EXCEPT ![d] = @ + 1]
  BY DEF Fail, FailedJobs, WorkerDies, store
<1>2. /\ run[r] \in Parsing /\ d \in Docs /\ d \in files
      /\ run' \in [Runs -> Parsing \cup {Nobody}]
      /\ run'[r] = Nobody
      /\ \A q \in Runs \ {r} : run'[q] = run[q]
      /\ worker' \in Runs \cup {Nobody}
      /\ upload' \in [Docs -> {"none", "stored", "listed", "inline", "parsing", "answered", "refused", "asked"}]
      /\ \A c \in Docs : c # d => upload'[c] = upload[c]
      /\ run[r].by = "upload" => upload'[d] = "refused"
      /\ run[r].by # "upload" => upload' = upload
  BY <1>1, EndKeeps
<1>3. TypeOK'
  BY <1>1, <1>2 DEF TypeOK, Parsing
<1>4. RunsAreNew' /\ ListedIsStored' /\ RowsAreDone'
  BY <1>1, <1>2 DEF RunsAreNew, ListedIsStored, RowsAreDone, RowsOf
<1>5. StartsStored'
  BY <1>1, <1>2 DEF StartsStored, TypeOK
<1>6. OwedOrDone'
  <2> SUFFICES ASSUME NEW c \in listed, RowsOf(c) = {} PROVE Owed(c)'
    BY <1>1 DEF OwedOrDone, RowsOf
  <2>1. c \in Docs /\ Owed(c)
    BY DEF TypeOK, OwedOrDone
  <2>2. queue'[c] \in Nat /\ queue'[c] >= queue[c] /\ failed \subseteq failed'
    BY <1>1, <2>1 DEF TypeOK
  <2>3. CASE c # d
    BY <1>1, <1>2, <2>1, <2>2, <2>3 DEF Owed, TypeOK
  <2>4. CASE c = d
    <3>1. CASE run[r].by = "upload"
      BY <1>2, <2>4, <3>1 DEF Owed
    <3>2. CASE run[r].by = "worker"
      <4>1. c \in failed' \/ queue'[c] > 0
        BY <1>1, <2>1, <2>4, <3>2 DEF TypeOK
      <4> QED
        BY <4>1 DEF Owed
    <3>3. CASE run[r].by = "reparse"
      <4>1. upload' = upload
        BY <1>2, <3>3
      <4> QED
        BY <1>1, <1>2, <2>1, <2>2, <3>3, <4>1 DEF Owed, TypeOK
    <3> QED
      BY <1>2, <3>1, <3>2, <3>3 DEF Parsing
  <2> QED
    BY <2>3, <2>4
<1> QED
  BY <1>3, <1>4, <1>5, <1>6

(* An API that dies takes its own parses with it; their uploads fail.      *)
LEMMA ApiDiesOK ==
  ASSUME Inv, NEW d \in Docs, ApiDies(d) PROVE Inv'
<1> USE DEF Inv
<1>1. /\ UNCHANGED <<files, listed, queue, late, stalled, failed, started, worker, jobs>>
      /\ upload' = [upload EXCEPT ![d] = "refused"]
      /\ upload[d] # "none"
      /\ run' = [r \in Runs |-> IF run[r] = [doc |-> d, by |-> "upload"] THEN Nobody ELSE run[r]]
  BY DEF ApiDies, store, redis
<1>2. /\ run' \in [Runs -> Parsing \cup {Nobody}]
      /\ \A r \in Runs : run'[r] \in {run[r], Nobody}
      /\ \A r \in Runs : run[r].doc # d => run'[r] = run[r]
  <2>1. run \in [Runs -> Parsing \cup {Nobody}]
    BY DEF TypeOK, Parsing
  <2>2. \A r \in Runs : run[r].doc # d => run[r] # [doc |-> d, by |-> "upload"]
    OBVIOUS
  <2> QED
    BY <1>1, <2>1, <2>2
<1>3. TypeOK'
  BY <1>1, <1>2 DEF TypeOK, Parsing
<1>4. RunsAreNew' /\ ListedIsStored' /\ RowsAreDone'
  BY <1>1, <1>2 DEF RunsAreNew, ListedIsStored, RowsAreDone, RowsOf
<1>5. StartsStored'
  BY <1>1, <1>2 DEF StartsStored, TypeOK
<1>6. OwedOrDone'
  <2> SUFFICES ASSUME NEW c \in listed, RowsOf(c) = {} PROVE Owed(c)'
    BY <1>1 DEF OwedOrDone, RowsOf
  <2>1. c \in Docs /\ Owed(c)
    BY DEF TypeOK, OwedOrDone
  <2>2. CASE c = d
    BY <1>1, <2>1, <2>2 DEF Owed, TypeOK
  <2>3. CASE c # d
    <3>1. upload'[c] = upload[c]
      BY <1>1, <2>1, <2>3 DEF TypeOK
    <3>2. \A r \in Runs : run[r].doc = c => run'[r] = run[r]
      BY <1>2, <2>3
    <3> QED
      BY <1>1, <2>1, <3>1, <3>2 DEF Owed
  <2> QED
    BY <2>2, <2>3
<1> QED
  BY <1>3, <1>4, <1>5, <1>6
-----------------------------------------------------------------------------
(* Every step keeps the invariant. *)
LEMMA Inductive ==
  ASSUME Inv, [Next]_vars PROVE Inv'
<1>1. CASE UNCHANGED vars
  <2>1. TypeOK' /\ RunsAreNew' /\ StartsStored' /\ ListedIsStored'
    BY <1>1 DEF vars, store, redis, Inv, TypeOK, RunsAreNew, StartsStored, ListedIsStored
  <2>2. RowsAreDone' /\ OwedOrDone'
    BY <1>1 DEF vars, store, redis, Inv, RowsAreDone, RowsOf, OwedOrDone, Owed
  <2> QED
    BY <2>1, <2>2 DEF Inv
<1>2. ASSUME NEW d \in Docs, Api(d) \/ JobLands(d) \/ Reparse(d) \/ WorkerTakes(d) \/ ApiDies(d)
      PROVE  Inv'
  BY <1>2, StoreFileOK, ListDocumentOK, EnqueueOK, BeginOK, ApiDiesOK DEF Api
<1>3. ASSUME NEW r \in Runs, Parse(r) \/ WorkerDies(r) PROVE Inv'
  BY <1>3, SucceedOK, FailOK DEF Parse
<1> QED
  BY <1>1, <1>2, <1>3 DEF Next

(* So it always holds. *)
LEMMA Invariance == Spec => []Inv
<1>1. Init => Inv
  BY Initially
<1>2. Inv /\ [Next]_vars => Inv'
  BY Inductive
<1> QED
  BY <1>1, <1>2, PTL DEF Spec

(* The state has its types for any documents and any number of parses. *)
THEOREM TypeCorrect == Spec => []TypeOK
<1>1. Inv => TypeOK
  BY DEF Inv
<1> QED
  BY <1>1, Invariance, PTL

(* POST /documents stores before it lists, so wherever an upload dies, a   *)
(* document that is listed can be downloaded and parsed.                   *)
THEOREM ListedFilesAreStored == Spec => []ListedIsStored
<1>1. Inv => ListedIsStored
  BY DEF Inv
<1> QED
  BY <1>1, Invariance, PTL

(* Between enqueueParse, its time-out, the worker, its crashes and those   *)
(* of the API, some place always answers for a document not yet parsed.    *)
THEOREM NobodyForgets == Spec => []Accounted
<1>1. Inv => Accounted
  BY AccountedFor
<1> QED
  BY <1>1, Invariance, PTL

(* Rows of parse_jobs are never taken back and a failed parse leaves none, *)
(* so GET /documents never shows a parsed document as anything else again. *)
THEOREM DoneDocumentsStayDone == Spec => DoneStaysDone
<1>1. ASSUME Inv, Inv', [Next]_vars
      PROVE  [\A d \in Docs : Phase(d) = "done" => Phase(d)' = "done"]_vars
  <2>1. jobs \subseteq jobs'
    BY <1>1 DEF Next, vars, store, redis, Api, Parse, StoreFile, ListDocument, Enqueue, EnqueueTimesOut,
       JobLands, RunInline, Reparse, WorkerTakes, ApiDies, Succeed, Fail, WorkerDies
  <2>2. ASSUME NEW d \in Docs, Phase(d) = "done" PROVE Phase(d)' = "done"
    <3>1. RowsOf(d) # {}
      BY <1>1, <2>2, DonePhase DEF Inv
    <3>2. (RowsOf(d) # {})'
      BY <2>1, <3>1 DEF RowsOf
    <3>3. TypeOK' /\ RowsAreDone'
      BY <1>1 DEF Inv
    <3>4. (Phase(d) = "done")' <=> (RowsOf(d) # {})'
      BY <3>3, DonePhaseNext
    <3> QED
      BY <3>2, <3>4
  <2> QED
    BY <2>2
<1> QED
  BY <1>1, Invariance, PTL DEF Spec, DoneStaysDone
-----------------------------------------------------------------------------
(* Nothing of a document moves before it is listed but its upload.         *)
StartsListed ==
  /\ \A d \in Docs \ listed : upload[d] \in {"none", "stored", "refused"} /\ queue[d] = 0 /\ d \notin late
  /\ \A r \in Runs : run[r] # Nobody => run[r].doc \in listed
  /\ \A j \in jobs : j.doc \in listed

(* An upload runs one parse at most, and waits for it. *)
RunsFor(r, d) == run[r] # Nobody /\ run[r].doc = d /\ run[r].by = "upload"
UploadRuns ==
  \A d \in Docs, r \in Runs : RunsFor(r, d) =>
    upload[d] = "parsing" /\ \A q \in Runs : RunsFor(q, d) => q = r

Listings == StartsListed /\ UploadRuns

LEMMA InitListings ==
  ASSUME Init PROVE Listings
BY DEF Init, Listings, StartsListed, UploadRuns, RunsFor

(* A step that starts no parse and moves no waiting upload keeps who runs. *)
LEMMA UploadRunsStay ==
  ASSUME UploadRuns, \A r \in Runs : run'[r] \in {run[r], Nobody},
         \A d \in Docs, r \in Runs : RunsFor(r, d)' => upload'[d] = upload[d]
  PROVE  UploadRuns'
<1>1. \A d \in Docs, r \in Runs : RunsFor(r, d)' => RunsFor(r, d)
  BY DEF RunsFor
<1> QED
  BY <1>1 DEF UploadRuns

(* The steps of an upload and of its job. *)
LEMMA UploadListings ==
  ASSUME Inv, Listings, NEW d \in Docs,
         StoreFile(d) \/ ListDocument(d) \/ Enqueue(d) \/ EnqueueTimesOut(d) \/ JobLands(d)
  PROVE  Listings'
<1> USE DEF StoreFile, ListDocument, Enqueue, EnqueueTimesOut, JobLands, Upload, store, redis
<1>1. UNCHANGED <<run, jobs>>
  OBVIOUS
<1>2. StartsListed'
  <2>1. ASSUME NEW c \in Docs \ listed'
        PROVE  upload'[c] \in {"none", "stored", "refused"} /\ queue'[c] = 0 /\ c \notin late'
    BY <2>1 DEF Inv, TypeOK, Listings, StartsListed
  <2>2. listed \subseteq listed'
    OBVIOUS
  <2> QED
    BY <1>1, <2>1, <2>2 DEF Listings, StartsListed
<1>3. UploadRuns'
  <2>1. \/ upload[d] # "parsing" /\ \A c \in Docs : c # d => upload'[c] = upload[c]
        \/ UNCHANGED upload
    <3>1. CASE JobLands(d)
      BY <3>1
    <3>2. CASE ~JobLands(d)
      <4>1. upload[d] # "parsing"
        BY <3>2
      <4>2. \E to : upload' = [upload EXCEPT ![d] = to]
        BY <3>2
      <4> QED
        BY <4>1, <4>2 DEF Inv, TypeOK
    <3> QED
      BY <3>1, <3>2
  <2>2. ASSUME NEW c \in Docs, NEW r \in Runs, RunsFor(r, c)' PROVE upload'[c] = upload[c]
    <3>1. upload[c] = "parsing"
      BY <1>1, <2>2 DEF Listings, UploadRuns, RunsFor
    <3> QED
      BY <2>1, <3>1
  <2> QED
    BY <1>1, <2>2, UploadRunsStay DEF Listings
<1> QED
  BY <1>2, <1>3 DEF Listings

(* The ways in which a parse begins. *)
LEMMA BeginListings ==
  ASSUME Inv, Listings, NEW d \in Docs, RunInline(d) \/ Reparse(d) \/ WorkerTakes(d)
  PROVE  Listings'
<1> USE DEF RunInline, Reparse, WorkerTakes, Upload, store, redis
<1>0. d \in listed /\ d \in files
  BY DEF Inv, TypeOK, Listings, StartsListed, ListedIsStored
<1>1. PICK by \in {"upload", "reparse", "worker"} :
        /\ Begin(d, by)
        /\ by = "upload" => upload[d] = "inline" /\ upload'[d] = "parsing"
        /\ by # "upload" => upload[d] # "parsing" \/ UNCHANGED upload
        /\ \A c \in Docs : c # d => upload'[c] = upload[c] /\ queue'[c] = queue[c]
  <2>1. CASE RunInline(d)
    <3>1. Begin(d, "upload")
      BY <2>1
    <3> QED
      BY <2>1, <3>1 DEF Inv, TypeOK
  <2>2. CASE Reparse(d)
    <3>1. Begin(d, "reparse")
      BY <2>2
    <3> QED
      BY <2>2, <3>1 DEF Inv, TypeOK
  <2>3. CASE WorkerTakes(d)
    <3>1. Begin(d, "worker")
      BY <2>3
    <3> QED
      BY <2>3, <3>1 DEF Inv, TypeOK
  <2> QED
    BY <2>1, <2>2, <2>3
<1>2. UNCHANGED <<listed, late, jobs>>
  OBVIOUS
<1>3. /\ started + 1 \in Runs /\ run[started + 1] = Nobody
      /\ run'[started + 1] = [doc |-> d, by |-> by]
      /\ \A r \in Runs \ {started + 1} : run'[r] = run[r]
  BY <1>0, <1>1, BeginKeeps
<1> HIDE DEF RunInline, Reparse, WorkerTakes, Upload, store, redis
<1>4. StartsListed'
  BY <1>0, <1>1, <1>2, <1>3 DEF Listings, StartsListed
<1>5. UploadRuns'
  <2> SUFFICES ASSUME NEW c \in Docs, NEW r \in Runs, RunsFor(r, c)'
               PROVE  upload'[c] = "parsing" /\ \A q \in Runs : RunsFor(q, c)' => q = r
    BY DEF UploadRuns
  <2>1. \A q \in Runs : q # started + 1 => (RunsFor(q, c)' <=> RunsFor(q, c))
    BY <1>3 DEF RunsFor
  <2>2. \A q \in Runs : q = started + 1 /\ RunsFor(q, c)' => c = d /\ by = "upload"
    BY <1>3 DEF RunsFor
  <2>3. CASE c = d /\ by = "upload"
    <3>1. \A q \in Runs : ~RunsFor(q, c)
      BY <1>1, <2>3 DEF Listings, UploadRuns
    <3> QED
      BY <1>1, <2>1, <2>3, <3>1
  <2>4. CASE ~(c = d /\ by = "upload")
    <3>1. \A q \in Runs : RunsFor(q, c)' => RunsFor(q, c)
      BY <2>1, <2>2, <2>4
    <3>2. upload[c] = "parsing" /\ \A q \in Runs : RunsFor(q, c) => q = r
      BY <3>1 DEF Listings, UploadRuns
    <3>3. upload'[c] = upload[c]
      BY <1>1, <2>4, <3>2
    <3> QED
      BY <3>1, <3>2, <3>3
  <2> QED
    BY <2>3, <2>4
<1> QED
  BY <1>4, <1>5 DEF Listings

(* The ways in which one ends. *)
LEMMA EndListings ==
  ASSUME Inv, Listings, NEW r \in Runs, Succeed(r) \/ Fail(r) \/ WorkerDies(r)
  PROVE  Listings'
<1> DEFINE d == run[r].doc
<1>1. PICK answer \in {"answered", "refused"} : End(r, answer)
  BY DEF Succeed, Fail, WorkerDies
<1>2. /\ UNCHANGED <<listed, late>>
      /\ queue' \in {queue, [queue EXCEPT ![d] = @ + 1]}
      /\ \A j \in jobs' : j \in jobs \/ j.doc = d
  BY DEF Succeed, Fail, WorkerDies, store, redis
<1>3. /\ d \in Docs /\ run'[r] = Nobody
      /\ \A q \in Runs \ {r} : run'[q] = run[q]
      /\ \A c \in Docs : c # d => upload'[c] = upload[c]
      /\ run[r].by # "upload" => upload' = upload
  BY <1>1, EndKeeps
<1>4. d \in listed /\ run[r] # Nobody
  BY <1>1 DEF End, Listings, StartsListed
<1>5. \A c \in Docs : c # d => queue'[c] = queue[c]
  BY <1>2, <1>3 DEF Inv, TypeOK
<1> HIDE DEF d
<1>6. StartsListed'
  BY <1>2, <1>3, <1>4, <1>5 DEF Listings, StartsListed
<1>7. ASSUME NEW c \in Docs, NEW q \in Runs, RunsFor(q, c)' PROVE upload'[c] = upload[c]
  <2>1. q # r /\ RunsFor(q, c)
    BY <1>3, <1>7 DEF RunsFor
  <2>2. CASE c = d /\ run[r].by = "upload"
    <3>1. RunsFor(r, c)
      BY <1>4, <2>2 DEF RunsFor, d
    <3> QED
      BY <2>1, <3>1 DEF Listings, UploadRuns
  <2> QED
    BY <1>3, <2>2
<1>8. UploadRuns'
  BY <1>3, <1>7, UploadRunsStay DEF Listings
<1> QED
  BY <1>6, <1>8 DEF Listings

LEMMA ApiDiesListings ==
  ASSUME Inv, Listings, NEW d \in Docs, ApiDies(d) PROVE Listings'
<1>1. /\ UNCHANGED <<listed, queue, late, jobs>>
      /\ upload' = [upload EXCEPT ![d] = "refused"]
      /\ run' = [r \in Runs |-> IF run[r] = [doc |-> d, by |-> "upload"] THEN Nobody ELSE run[r]]
  BY DEF ApiDies, store, redis
<1>2. \A c \in Docs : upload'[c] = IF c = d THEN "refused" ELSE upload[c]
  BY <1>1 DEF Inv, TypeOK
<1>3. \A r \in Runs : run'[r] \in {run[r], Nobody}
  BY <1>1
<1>4. StartsListed'
  BY <1>1, <1>2, <1>3 DEF Listings, StartsListed
<1>5. ASSUME NEW c \in Docs, NEW r \in Runs, RunsFor(r, c)' PROVE upload'[c] = upload[c]
  <2>1. run[r] \in Parsing /\ run'[r] = run[r] /\ run[r].doc = c /\ run[r].by = "upload"
    BY <1>3, <1>5 DEF Inv, TypeOK, RunsFor, Parsing
  <2>2. run[r] = [doc |-> c, by |-> "upload"]
    BY <2>1 DEF Parsing
  <2>3. c # d
    BY <1>1, <1>5, <2>2 DEF RunsFor
  <2> QED
    BY <1>2, <2>3
<1>6. UploadRuns'
  BY <1>3, <1>5, UploadRunsStay DEF Listings
<1> QED
  BY <1>4, <1>6 DEF Listings

LEMMA StepListings ==
  ASSUME Inv, Listings, [Next]_vars PROVE Listings'
<1>1. CASE UNCHANGED vars
  BY <1>1 DEF vars, store, redis, Listings, StartsListed, UploadRuns, RunsFor
<1>2. ASSUME NEW d \in Docs, Api(d) \/ JobLands(d) \/ Reparse(d) \/ WorkerTakes(d) \/ ApiDies(d)
      PROVE  Listings'
  BY <1>2, UploadListings, BeginListings, ApiDiesListings DEF Api
<1>3. ASSUME NEW r \in Runs, Parse(r) \/ WorkerDies(r) PROVE Listings'
  BY <1>3, EndListings DEF Parse
<1> QED
  BY <1>1, <1>2, <1>3 DEF Next
-----------------------------------------------------------------------------
(* What a step may do to what is on record of a document.                  *)
Recorded(d) == RowsOf(d) # {}
Noted == failed \cup {d \in Docs : upload[d] = "refused"}

(* A document's situation, told by its rows.                               *)
LEMMA SituationIs ==
  ASSUME Inv, NEW d \in Docs
  PROVE  Situation(d) =
    IF d \notin listed THEN "unknown"
    ELSE IF Recorded(d) THEN "ended"
    ELSE IF Owing(d) THEN "owed" ELSE "lost"
BY DonePhase DEF Inv, Situation, Recorded

LEMMA SituationWillBe ==
  ASSUME Inv', NEW d \in Docs
  PROVE  Situation(d)' =
    IF d \notin listed' THEN "unknown"
    ELSE IF Recorded(d)' THEN "ended"
    ELSE IF Owing(d)' THEN "owed" ELSE "lost"
<1>1. RowsAreDone'
  BY DEF Inv
<1>2. (Phase(d) = "done")' <=> (RowsOf(d) # {})'
  BY <1>1, DonePhaseNext
<1> QED
  BY <1>2 DEF Situation, Recorded

(* A listed document nobody owes a parse has been noted.                   *)
LEMMA LostIsNoted ==
  ASSUME Inv, NEW d \in listed, ~Recorded(d), ~Owing(d) PROVE d \in Noted
<1>1. d \in Docs /\ Owed(d)
  BY DEF Inv, TypeOK, OwedOrDone, Recorded
<1> QED
  BY <1>1 DEF Owed, Owing, UnderWay, Noted

LEMMA LostWillBeNoted ==
  ASSUME Inv', NEW d \in listed', ~Recorded(d)', ~Owing(d)' PROVE d \in Noted'
<1>1. d \in Docs /\ Owed(d)'
  BY DEF Inv, TypeOK, OwedOrDone, Recorded
<1> QED
  BY <1>1 DEF Owed, Owing, UnderWay, Noted

(* Nothing on record is taken back, a document is owed a parse when it is  *)
(* listed, and its first row comes from a parse that was under way.        *)
LEMMA RecordGrows ==
  ASSUME Inv, Listings, [Next]_vars
  PROVE  /\ listed \subseteq listed' /\ jobs \subseteq jobs' /\ failed \subseteq failed'
         /\ \A d \in Docs : upload[d] = "refused" => upload'[d] = "refused"
         /\ \A d \in listed' \ listed : upload'[d] = "listed" /\ jobs' = jobs
         /\ \A d \in Docs : Recorded(d)' => Recorded(d) \/ UnderWay(d)
<1> DEFINE Grows ==
      /\ listed \subseteq listed' /\ jobs \subseteq jobs' /\ failed \subseteq failed'
      /\ \A d \in Docs : upload[d] = "refused" => upload'[d] = "refused"
      /\ \A d \in listed' \ listed : upload'[d] = "listed" /\ jobs' = jobs
      /\ \A d \in Docs : Recorded(d)' => Recorded(d) \/ UnderWay(d)
<1>1. CASE UNCHANGED vars
  BY <1>1 DEF vars, store, redis, Recorded, RowsOf
<1>2. ASSUME NEW d \in Docs, Api(d) \/ JobLands(d) \/ Reparse(d) \/ WorkerTakes(d) \/ ApiDies(d)
      PROVE  Grows
  <2>1. /\ UNCHANGED <<jobs, failed>> /\ listed \subseteq listed'
        /\ \A c \in listed' \ listed : upload'[c] = "listed"
        /\ \A c \in Docs : upload[c] = "refused" => upload'[c] = "refused"
    BY <1>2 DEF Api, StoreFile, ListDocument, Enqueue, EnqueueTimesOut, JobLands, RunInline, Reparse,
       WorkerTakes, ApiDies, Upload, store, redis, Inv, TypeOK
  <2> QED
    BY <2>1 DEF Recorded, RowsOf
<1>3. ASSUME NEW r \in Runs, Parse(r) \/ WorkerDies(r) PROVE Grows
  <2> DEFINE d == run[r].doc
  <2>1. PICK answer \in {"answered", "refused"} : End(r, answer)
    BY <1>3 DEF Parse, Succeed, Fail, WorkerDies
  <2>2. /\ listed' = listed /\ jobs \subseteq jobs' /\ failed \subseteq failed'
        /\ \A j \in jobs' : j \in jobs \/ j.doc = d
    BY <1>3 DEF Parse, Succeed, Fail, FailedJobs, WorkerDies, store, redis
  <2>3. /\ d \in Docs /\ run[r] # Nobody
        /\ \A c \in Docs : c # d => upload'[c] = upload[c]
        /\ run[r].by # "upload" => upload' = upload
    BY <2>1, EndKeeps DEF End
  <2>4. run[r].by = "upload" => upload[d] = "parsing"
    BY <2>3 DEF Listings, UploadRuns, RunsFor
  <2>5. UnderWay(d)
    BY <2>3 DEF UnderWay
  <2> HIDE DEF d
  <2>6. \A c \in Docs : upload[c] = "refused" => upload'[c] = "refused"
    BY <2>3, <2>4
  <2>7. \A c \in Docs : Recorded(c)' => Recorded(c) \/ UnderWay(c)
    BY <2>2, <2>5 DEF Recorded, RowsOf
  <2> QED
    BY <2>2, <2>6, <2>7
<1> QED
  BY <1>1, <1>2, <1>3 DEF Next

LEMMA InitRefines ==
  ASSUME Init PROVE Promise!Init
<1>1. \A d \in Docs : Situation(d) = "unknown" /\ upload[d] # "refused"
  BY DEF Init, Situation
<1> QED
  BY <1>1 DEF Init, Promise!Init

LEMMA StepRefines ==
  ASSUME Inv, Inv', Listings, [Next]_vars
  PROVE  Promise!Next
<1>1. \A d \in Docs : Situation(d)' \in Promise!States
  BY SituationWillBe DEF Promise!States
<1>2. Noted \subseteq Noted' /\ Noted' \subseteq Docs
  BY RecordGrows DEF Noted, Inv, TypeOK
<1>3. ASSUME NEW d \in Docs
      PROVE  \/ Situation(d) = "unknown" /\ Situation(d)' = "owed"
             \/ Situation(d) = "owed" /\ Situation(d)' = "ended"
             \/ Situation(d) = "owed" /\ Situation(d)' = "lost" /\ d \in Noted'
             \/ Situation(d) = "lost" /\ Situation(d)' = "owed"
             \/ Situation(d)' = Situation(d)
  <2>1. CASE d \notin listed
    <3>1. ~Recorded(d)
      BY <2>1 DEF Listings, StartsListed, Recorded, RowsOf
    <3>2. d \in listed' => ~Recorded(d)' /\ Owing(d)'
      BY <2>1, <3>1, RecordGrows DEF Recorded, RowsOf, Owing
    <3> QED
      BY <2>1, <3>2, SituationIs, SituationWillBe
  <2>2. CASE d \in listed
    <3>1. d \in listed' /\ (Recorded(d) => Recorded(d)') /\ (Recorded(d)' => Recorded(d) \/ Owing(d))
      BY <2>2, RecordGrows DEF Recorded, RowsOf, Owing
    <3>2. ~Recorded(d)' /\ ~Owing(d)' => d \in Noted'
      BY <3>1, LostWillBeNoted
    <3> QED
      BY <2>2, <3>1, <3>2, SituationIs, SituationWillBe
  <2> QED
    BY <2>1, <2>2
<1> QED
  BY <1>1, <1>2, <1>3 DEF Promise!Next, Promise!Accept, Promise!Finish, Promise!GiveUp, Promise!TryAgain,
     Promise!Stay, Promise!Becomes, Noted

(* The queue implements the promise of BackgroundWork: a listed document   *)
(* is owed a parse until one of it succeeds, which then stands, and one    *)
(* that is given up left a failed job or an answer that the upload failed, *)
(* through every time-out, crash, late job and parse on request.           *)
THEOREM UploadsAreKept == Spec => NoUploadForgotten
<1>1. Init => Inv /\ Listings /\ Promise!Init
  BY Initially, InitListings, InitRefines
<1>2. Inv /\ Listings /\ [Next]_vars => Inv' /\ Listings' /\ Promise!Next
  BY Inductive, StepListings, StepRefines
<1> QED
  BY <1>1, <1>2, PTL DEF Spec, NoUploadForgotten, Promise!Spec
=============================================================================
