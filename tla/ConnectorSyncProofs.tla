------------------------- MODULE ConnectorSyncProofs -------------------------
(***************************************************************************)
(* Proofs about what comes into the vault: ConnectorSync for any sets of   *)
(* files, credentials, syncs and tests, VendorPull for any vendor,         *)
(* SheetReader for any catalog, document and model, and Fiscal for any     *)
(* date and any start of the year.                                         *)
(***************************************************************************)
EXTENDS ConnectorSync, SheetReader, VendorPull, FiscalCalendar, WellFoundedInduction, FiniteSetTheorems, TLAPS

Points == {"idle", "bare", "check", "exchange", "ok", "refused", "thrown", "list",
           "fetch", "catch", "parse", "done", "failed"}
Ended  == {"idle", "done", "failed"}

(* Syncs and tests go through places of their own. *)
PointsOK ==
  /\ \A s \in Syncs : pc[s] \in {"idle", "bare", "check", "list", "fetch", "catch", "parse", "done", "failed"}
  /\ \A t \in Checks : pc[t] \in {"idle", "bare", "check", "exchange", "ok", "refused", "thrown", "done"}

(* A request past its first step holds a credential, which is the          *)
(* organisation's own when the environment has none, and past its check    *)
(* one that the vendor accepts.                                            *)
CredOK(r) ==
  /\ pc[r] \notin Ended \cup {"bare"} => cred[r] # None
  /\ pc[r] \in {"ok", "list", "fetch"} => cred[r] \in Good
  /\ Env = None /\ cred[r] # None => org[r]

CredsOK == \A r \in Requests : CredOK(r)

(* What a sync has inserted is its own, and nothing before it lists.       *)
PendingOK ==
  \A s \in Syncs :
    /\ \A d \in pending[s] : d[2] = s
    /\ pc[s] \in Ended \cup {"bare", "check"} => pending[s] = {}
    /\ pc[s] = "fetch" => art[s] \in Artifacts

(* The worker runs one sync at a time. *)
OneAtATime == \A s \in Syncs \ Inline : pc[s] \notin Ended => worker = s

(* What the worker's sync inserted, and what it fetches, nobody else of    *)
(* the worker has ingested.                                                *)
Others(s) == {d \in docs \cup pending[s] : d[2] \notin Inline}

FreshOK ==
  \A s \in Syncs \ Inline :
    /\ pc[s] \in {"list", "fetch", "catch"} =>
         \A c \in pending[s], d \in Others(s) : c[1] = d[1] => c = d
    /\ pc[s] = "fetch" => \A d \in Others(s) : d[1] # art[s]

Inv == TypeOK /\ PointsOK /\ CredsOK /\ PendingOK /\ OneAtATime /\ FreshOK
       /\ RowIsHonest /\ IngestedOnce /\ SyncedIsParsed
-----------------------------------------------------------------------------
LEMMA InitOK == Init => Inv
<1> SUFFICES ASSUME Init PROVE Inv
  OBVIOUS
<1>1. TypeOK
  BY ConnectorSyncAssumption DEF Init, TypeOK, Statuses, Documents
<1>2. PointsOK /\ CredsOK /\ PendingOK /\ OneAtATime
  BY DEF Init, PointsOK, CredsOK, CredOK, PendingOK, OneAtATime, Requests, Ended
<1>3. FreshOK /\ RowIsHonest /\ IngestedOnce /\ SyncedIsParsed
  BY DEF Init, FreshOK, RowIsHonest, IngestedOnce, SyncedIsParsed, Requests
<1> QED
  BY <1>1, <1>2, <1>3 DEF Inv

(* The end of a request, as a change of the functions. *)
LEMMA FinishIs ==
  ASSUME TypeOK, NEW r \in Requests, NEW from, NEW to \in Points, Finish(r, from, to)
  PROVE  /\ pc[r] = from
         /\ pc' \in [Requests -> Points] /\ pc'[r] = to
         /\ cred' \in [Requests -> Creds \cup {None}] /\ cred'[r] = None
         /\ org' \in [Requests -> BOOLEAN]
         /\ \A q \in Requests : q # r => pc'[q] = pc[q] /\ cred'[q] = cred[q] /\ org'[q] = org[q]
         /\ todo' \in [Syncs -> SUBSET Artifacts]
         /\ art' \in [Syncs -> Artifacts \cup {None}]
         /\ pending' \in [Syncs -> SUBSET Documents]
         /\ \A s \in Syncs : s = r => pending'[s] = {}
         /\ \A s \in Syncs : s # r => pending'[s] = pending[s] /\ art'[s] = art[s]
         /\ worker' \in Syncs \cup {None}
         /\ worker # r => worker' = worker
BY DEF Finish, Go, TypeOK, Points

(* The beginning of a request. *)
LEMMA ResolveIs ==
  ASSUME TypeOK, NEW r \in Requests, NEW next \in Points \ (Ended \cup {"bare"}), Resolve(r, next)
  PROVE  /\ pc[r] = "idle"
         /\ pc' \in [Requests -> Points] /\ pc'[r] \in {"bare", next}
         /\ cred' \in [Requests -> Creds \cup {None}] /\ (pc'[r] = next => cred'[r] # None)
         /\ org' \in [Requests -> BOOLEAN]
         /\ Env = None /\ cred'[r] # None => org'[r]
         /\ \A q \in Requests : q # r => pc'[q] = pc[q] /\ cred'[q] = cred[q] /\ org'[q] = org[q]
<1> DEFINE found == IF secret # None THEN secret ELSE Env
<1>1. found \in Creds \cup {None}
  BY ConnectorSyncAssumption DEF TypeOK
<1> QED
  BY <1>1, ConnectorSyncAssumption DEF Resolve, Go, TypeOK, Points, Ended-----------------------------------------------------------------------------
(* A step of r leaves the places and the locals of all others alone.       *)
OnlyOf(r) ==
  /\ \A q \in Requests : q # r => pc'[q] = pc[q] /\ cred'[q] = cred[q] /\ org'[q] = org[q]
  /\ \A s \in Syncs : s # r => pending'[s] = pending[s] /\ art'[s] = art[s]

(* What has to be shown of r itself. *)
PlaceOK(r) ==
  /\ r \in Syncs => pc[r] \in {"idle", "bare", "check", "list", "fetch", "catch", "parse", "done", "failed"}
  /\ r \in Checks => pc[r] \in {"idle", "bare", "check", "exchange", "ok", "refused", "thrown", "done"}

OwnOK(r) ==
  /\ PlaceOK(r)
  /\ CredOK(r)
  /\ r \in Syncs =>
       /\ \A d \in pending[r] : d[2] = r
       /\ pc[r] \in Ended \cup {"bare", "check"} => pending[r] = {}
       /\ pc[r] = "fetch" => art[r] \in Artifacts
  /\ r \in Syncs \ Inline /\ pc[r] \notin Ended => worker = r

LocalInv == PointsOK /\ CredsOK /\ PendingOK /\ OneAtATime

LEMMA LocalKeeps ==
  ASSUME Inv, NEW r \in Requests, OnlyOf(r), OwnOK(r)',
         \A s \in Syncs \ Inline : s # r /\ worker = s => worker' = s
  PROVE  LocalInv'
<1>1. PointsOK'
  BY DEF Inv, OnlyOf, OwnOK, PlaceOK, PointsOK, Requests
<1>2. CredsOK'
  BY DEF Inv, OnlyOf, OwnOK, CredsOK, CredOK
<1>3. PendingOK'
  BY DEF Inv, OnlyOf, OwnOK, PendingOK, Requests
<1>4. OneAtATime'
  BY DEF Inv, OnlyOf, OwnOK, OneAtATime, Requests
<1> QED
  BY <1>1, <1>2, <1>3, <1>4 DEF LocalInv

(* What a sync commits is no concern of another that is under way: one of  *)
(* the two is not of the worker.                                           *)
LEMMA FreshKeeps ==
  ASSUME Inv, NEW r \in Requests, OnlyOf(r),
         \A d \in docs' \ docs : r \in Syncs /\ d \in pending[r],
         docs' # docs => pc[r] \notin Ended,
         r \in Syncs \ Inline =>
           /\ pc'[r] \in {"list", "fetch", "catch"} =>
                \A c \in pending'[r], d \in Others(r)' : c[1] = d[1] => c = d
           /\ pc'[r] = "fetch" => \A d \in Others(r)' : d[1] # art'[r]
  PROVE  FreshOK'
<1> SUFFICES ASSUME NEW s \in Syncs \ Inline, s # r, pc'[s] \in {"list", "fetch", "catch"}
             PROVE  /\ \A c \in pending'[s], d \in Others(s)' : c[1] = d[1] => c = d
                    /\ pc'[s] = "fetch" => \A d \in Others(s)' : d[1] # art'[s]
  BY DEF FreshOK
<1>1. pc[s] = pc'[s] /\ pending'[s] = pending[s] /\ art'[s] = art[s]
  BY DEF OnlyOf, Requests
<1>2. worker = s
  BY <1>1 DEF Inv, OneAtATime, Ended
<1>3. \A d \in docs' \ docs : d[2] \in Inline
  <2> SUFFICES ASSUME NEW d \in docs' \ docs PROVE d[2] \in Inline
    OBVIOUS
  <2>1. r \in Syncs /\ d[2] = r
    BY DEF Inv, PendingOK
  <2>2. pc[r] \notin Ended
    OBVIOUS
  <2> QED
    BY <1>2, <2>1, <2>2 DEF Inv, OneAtATime
<1>4. Others(s)' \subseteq Others(s)
  BY <1>1, <1>3 DEF Others
<1> QED
  BY <1>1, <1>4 DEF Inv, FreshOK

(* A step that adds no document: what is said of documents stays, unless   *)
(* the sync that has to parse one moves on.                                *)
LEMMA DocsKeep ==
  ASSUME Inv, NEW r \in Requests, OnlyOf(r), docs' = docs, parsed \subseteq parsed',
         stalled \subseteq stalled',
         r \in Syncs => pc[r] # "failed" /\ (pc[r] = "parse" =>
            \/ pc'[r] = "failed" \/ r \in stalled'
            \/ /\ pc'[r] = "parse"
               /\ \A d \in pending[r] : d \in pending'[r] \/ d \in parsed'
            \/ pending[r] = {})
  PROVE  IngestedOnce' /\ SyncedIsParsed'
<1>1. IngestedOnce'
  BY DEF Inv, IngestedOnce
<1>2. SyncedIsParsed'
  <2> SUFFICES ASSUME NEW d \in docs \ parsed', ~(d[2] \in stalled'), pc'[d[2]] # "failed"
               PROVE  InLine(d)'
    BY DEF SyncedIsParsed
  <2>1. d[2] \in Syncs
    BY DEF Inv, TypeOK, Documents
  <2>2. InLine(d) \/ pc[d[2]] = "failed"
    BY DEF Inv, SyncedIsParsed
  <2>3. CASE d[2] # r
    BY <2>1, <2>2, <2>3 DEF OnlyOf, InLine, Requests
  <2>4. CASE d[2] = r
    BY <2>1, <2>2, <2>4 DEF InLine
  <2> QED
    BY <2>3, <2>4
<1> QED
  BY <1>1, <1>2
-----------------------------------------------------------------------------
LEMMA AdminOK ==
  ASSUME Inv, (\E c \in Creds : Save(c)) \/ Disconnect
  PROVE  Inv'
<1>1. /\ UNCHANGED <<docs, parsed, pc, cred, org, todo, art, pending, worker, stalled>>
      /\ status' \in {"configured", "not_connected"}
      /\ secret' \in Creds \cup {None} /\ lastSync' \in BOOLEAN
      /\ lastSync' => secret' # None
  BY ConnectorSyncAssumption DEF Save, Disconnect, locals, Inv, TypeOK
<1>2. TypeOK'
  BY <1>1 DEF Inv, TypeOK, Statuses
<1>3. LocalInv'
  BY <1>1 DEF Inv, LocalInv, PointsOK, CredsOK, CredOK, PendingOK, OneAtATime
<1>4. FreshOK' /\ IngestedOnce' /\ SyncedIsParsed'
  BY <1>1 DEF Inv, FreshOK, Others, IngestedOnce, SyncedIsParsed, InLine
<1>5. RowIsHonest'
  BY <1>1 DEF RowIsHonest
<1> QED
  BY <1>2, <1>3, <1>4, <1>5 DEF Inv, LocalInv

(* The three ways to begin. *)
LEMMA BeginOK ==
  ASSUME Inv, NEW r \in Requests, NEW next \in {"check", "exchange"}, Resolve(r, next),
         UNCHANGED <<status, secret, lastSync, docs, parsed, todo, art, pending, stalled>>,
         \/ r \in Checks /\ worker' = worker
         \/ r \in Inline /\ next = "check" /\ worker' = worker
         \/ r \in Syncs /\ next = "check" /\ worker = None /\ worker' = r
  PROVE  Inv'
<1>1. next \in Points \ (Ended \cup {"bare"})
  BY DEF Points, Ended
<1>2. /\ pc[r] = "idle"
      /\ pc' \in [Requests -> Points] /\ pc'[r] \in {"bare", next}
      /\ cred' \in [Requests -> Creds \cup {None}] /\ (pc'[r] = next => cred'[r] # None)
      /\ org' \in [Requests -> BOOLEAN]
      /\ Env = None /\ cred'[r] # None => org'[r]
      /\ \A q \in Requests : q # r => pc'[q] = pc[q] /\ cred'[q] = cred[q] /\ org'[q] = org[q]
  BY <1>1, ResolveIs DEF Inv
<1>3. Syncs \cap Checks = {} /\ Inline \subseteq Syncs /\ None \notin Syncs
  BY ConnectorSyncAssumption
<1>4. OnlyOf(r)
  BY <1>2 DEF OnlyOf
<1>5. TypeOK'
  BY <1>2, <1>3 DEF Inv, TypeOK, Points
<1>6. OwnOK(r)'
  <2>1. PlaceOK(r)'
    BY <1>2, <1>3 DEF PlaceOK
  <2>2. CredOK(r)'
    BY <1>2 DEF CredOK, Ended
  <2>3. r \in Syncs => (\A d \in pending'[r] : d[2] = r) /\ pending'[r] = {}
    BY <1>2 DEF Inv, PendingOK, Ended
  <2>4. r \in Syncs \ Inline => worker' = r
    BY <1>3
  <2> QED
    BY <1>2, <2>1, <2>2, <2>3, <2>4 DEF OwnOK
<1>7. LocalInv'
  BY <1>3, <1>4, <1>6, LocalKeeps
<1>8. FreshOK'
  BY <1>2, <1>4, FreshKeeps
<1>9. IngestedOnce' /\ SyncedIsParsed'
  BY <1>2, <1>4, DocsKeep
<1>10. RowIsHonest'
  BY DEF Inv, RowIsHonest
<1> QED
  BY <1>5, <1>7, <1>8, <1>9, <1>10 DEF Inv, LocalInv

(* The ends of a request that leave no document. *)
LEMMA EndOK ==
  ASSUME Inv, NEW r \in Requests, NEW from, NEW to \in Ended, Finish(r, from, to),
         to = "failed" => r \in Syncs,
         UNCHANGED <<docs, parsed>>,
         status' \in Statuses, secret' \in Creds \cup {None}, lastSync' \in BOOLEAN, RowIsHonest',
         stalled \subseteq stalled', stalled' \subseteq Syncs,
         r \in Syncs => from # "failed" /\
           (from = "parse" => to = "failed" \/ r \in stalled' \/ pending[r] = {})
  PROVE  Inv'
<1>1. to \in Points
  BY DEF Ended, Points
<1>2. /\ pc[r] = from
      /\ pc' \in [Requests -> Points] /\ pc'[r] = to
      /\ cred' \in [Requests -> Creds \cup {None}] /\ cred'[r] = None
      /\ org' \in [Requests -> BOOLEAN]
      /\ \A q \in Requests : q # r => pc'[q] = pc[q] /\ cred'[q] = cred[q] /\ org'[q] = org[q]
      /\ todo' \in [Syncs -> SUBSET Artifacts]
      /\ art' \in [Syncs -> Artifacts \cup {None}]
      /\ pending' \in [Syncs -> SUBSET Documents]
      /\ \A s \in Syncs : s = r => pending'[s] = {}
      /\ \A s \in Syncs : s # r => pending'[s] = pending[s] /\ art'[s] = art[s]
      /\ worker' \in Syncs \cup {None}
      /\ worker # r => worker' = worker
  BY <1>1, FinishIs DEF Inv
<1>3. OnlyOf(r)
  BY <1>2 DEF OnlyOf
<1>4. TypeOK'
  BY <1>2 DEF Inv, TypeOK, Points
<1>5. OwnOK(r)'
  <2>1. PlaceOK(r)'
    BY <1>2, ConnectorSyncAssumption DEF PlaceOK, Ended
  <2>2. CredOK(r)'
    BY <1>2 DEF CredOK, Ended
  <2> QED
    BY <1>2, <2>1, <2>2 DEF OwnOK, Ended
<1>6. LocalInv'
  BY <1>2, <1>3, <1>5, LocalKeeps
<1>7. FreshOK'
  BY <1>2, <1>3, FreshKeeps DEF Ended
<1>8. IngestedOnce' /\ SyncedIsParsed'
  BY <1>2, <1>3, DocsKeep
<1> QED
  BY <1>4, <1>6, <1>7, <1>8 DEF Inv, LocalInv
-----------------------------------------------------------------------------
(* A step on the way: r goes on with what it resolved.                     *)
LEMMA GoOnOK ==
  ASSUME Inv, NEW r \in Requests, NEW from, NEW to \in Points \ (Ended \cup {"bare"}), Go(r, from, to),
         UNCHANGED <<status, secret, lastSync, docs, parsed, cred, org, pending, worker, stalled>>,
         from \notin Ended \cup {"bare", "parse"}, to # "parse",
         todo' \in [Syncs -> SUBSET Artifacts], art' \in [Syncs -> Artifacts \cup {None}],
         \A s \in Syncs : s # r => art'[s] = art[s],
         PlaceOK(r)',
         to \in {"ok", "list", "fetch"} => cred[r] \in Good,
         to = "fetch" => r \in Syncs /\ art'[r] \in Artifacts /\ \A d \in Others(r) : d[1] # art'[r],
         from # "check" => from \in {"list", "fetch"},
         r \in Syncs => to # "check"
  PROVE  Inv'
<1>1. pc[r] = from /\ pc' \in [Requests -> Points] /\ pc'[r] = to
      /\ \A q \in Requests : q # r => pc'[q] = pc[q]
  BY DEF Go, Inv, TypeOK, Points
<1>2. OnlyOf(r)
  BY <1>1 DEF OnlyOf
<1>3. TypeOK'
  BY <1>1 DEF Inv, TypeOK, Points
<1>4. OwnOK(r)'
  <2>1. CredOK(r)'
    BY <1>1 DEF Inv, CredsOK, CredOK
  <2>2. r \in Syncs \ Inline => worker = r
    BY <1>1 DEF Inv, OneAtATime
  <2> QED
    BY <1>1, <2>1, <2>2 DEF OwnOK, Inv, PendingOK
<1>5. LocalInv'
  BY <1>2, <1>4, LocalKeeps
<1>6. FreshOK'
  <2>1. r \in Syncs \ Inline => \A c \in pending[r], d \in Others(r) : c[1] = d[1] => c = d
    <3>1. CASE from = "check"
      BY <1>1, <3>1 DEF Inv, PendingOK
    <3>2. CASE from # "check"
      BY <1>1, <3>2 DEF Inv, FreshOK
    <3> QED
      BY <3>1, <3>2
  <2>2. r \in Syncs => Others(r)' = Others(r)
    BY DEF Others
  <2> QED
    BY <1>1, <1>2, <2>1, <2>2, FreshKeeps
<1>7. IngestedOnce' /\ SyncedIsParsed'
  BY <1>1, <1>2, DocsKeep, ConnectorSyncAssumption DEF Ended
<1>8. RowIsHonest'
  BY DEF Inv, RowIsHonest
<1> QED
  BY <1>3, <1>5, <1>6, <1>7, <1>8 DEF Inv, LocalInv

LEMMA TestOK ==
  ASSUME Inv, NEW t \in Checks,
         TestRead(t) \/ TestCheck(t) \/ TestCommit(t) \/ MissingCredentials(t)
           \/ CallbackRead(t) \/ CallbackCommit(t)
  PROVE  Inv'
<1> USE ConnectorSyncAssumption
<1>1. t \in Requests /\ t \notin Syncs
  BY DEF Requests
<1>2. CredOK(t)
  BY <1>1 DEF Inv, CredsOK
<1>3. CASE TestRead(t)
  BY <1>1, <1>3, BeginOK DEF TestRead, row
<1>4. CASE CallbackRead(t)
  BY <1>1, <1>4, BeginOK DEF CallbackRead, row
<1>5. ASSUME NEW to \in {"ok", "refused", "thrown"}, Go(t, "check", to), to = "ok" => Accepts(t),
             UNCHANGED <<row, docs, parsed, locals, worker, stalled>>
      PROVE  Inv'
  <2>1. PlaceOK(t)'
    BY <1>1, <1>5 DEF PlaceOK, Go, Inv, TypeOK
  <2> QED
    BY <1>1, <1>5, <2>1, GoOnOK DEF Accepts, row, locals, Points, Ended, Inv, TypeOK
<1>6. CASE TestCheck(t)
  BY <1>5, <1>6 DEF TestCheck
<1>7. ASSUME NEW from \in {"ok", "refused", "thrown", "exchange", "bare"}, Finish(t, from, "done"),
             UNCHANGED <<docs, parsed, stalled>>,
             status' \in Statuses, secret' \in Creds \cup {None}, lastSync' \in BOOLEAN, RowIsHonest'
      PROVE  Inv'
  BY <1>1, <1>7, EndOK DEF Ended, Inv, TypeOK
<1>8. CASE TestCommit(t)
  <2>1. PICK from \in {"ok", "refused", "thrown"} :
          /\ Finish(t, from, "done")
          /\ status' = IF from = "ok" THEN "connected" ELSE "error"
          /\ from # "thrown" => Persist(t)
          /\ from = "thrown" => UNCHANGED secret
          /\ UNCHANGED <<lastSync, docs, parsed, stalled>>
    BY <1>8 DEF TestCommit
  <2>2. pc[t] = from
    BY <2>1 DEF Finish, Go
  <2>3. cred[t] \in Creds /\ (from = "ok" => cred[t] \in Good)
    BY <1>1, <1>2, <2>2 DEF CredOK, Ended, Inv, TypeOK
  <2>4. RowIsHonest'
    BY <1>2, <2>1, <2>3 DEF Inv, RowIsHonest, Persist, CredOK
  <2>5. status' \in Statuses /\ secret' \in Creds \cup {None}
    BY <2>1, <2>3 DEF Statuses, Persist, Inv, TypeOK
  <2> QED
    BY <1>7, <2>1, <2>4, <2>5 DEF Inv, TypeOK
<1>9. CASE CallbackCommit(t)
  <2>1. Finish(t, "exchange", "done") /\ cred[t] \in Good
    BY <1>9 DEF CallbackCommit, Accepts
  <2>2. RowIsHonest' /\ status' \in Statuses /\ secret' \in Creds \cup {None}
    BY <1>9, <2>1 DEF CallbackCommit, RowIsHonest, Statuses
  <2> QED
    BY <1>7, <1>9, <2>1, <2>2 DEF CallbackCommit, Inv, TypeOK
<1>10. CASE MissingCredentials(t)
  BY <1>7, <1>10 DEF MissingCredentials, RowIsHonest, Statuses, Inv, TypeOK
<1> QED
  BY <1>3, <1>4, <1>6, <1>8, <1>9, <1>10
-----------------------------------------------------------------------------
(* The steps of a sync before it has anything to commit. *)
LEMMA ListingOK ==
  ASSUME Inv, NEW s \in Syncs,
         SyncCheck(s) \/ (\E a \in Artifacts : Look(s, a)) \/ VendorFails(s)
  PROVE  Inv'
<1> USE ConnectorSyncAssumption
<1>1. s \in Requests /\ s \notin Checks
  BY DEF Requests
<1>2. CredOK(s)
  BY <1>1 DEF Inv, CredsOK
<1>3. ASSUME NEW from \in {"check", "list", "fetch"}, NEW to \in {"list", "fetch", "catch"}, Go(s, from, to),
             UNCHANGED <<row, docs, parsed, cred, org, pending, worker, stalled>>,
             todo' \in [Syncs -> SUBSET Artifacts], art' \in [Syncs -> Artifacts \cup {None}],
             \A q \in Syncs : q # s => art'[q] = art[q],
             to # "catch" => cred[s] \in Good,
             to = "fetch" => art'[s] \in Artifacts /\ \A d \in Others(s) : d[1] # art'[s]
      PROVE  Inv'
  <2>1. PlaceOK(s)'
    BY <1>1, <1>3 DEF PlaceOK, Go, Inv, TypeOK
  <2> QED
    BY <1>1, <1>3, <2>1, GoOnOK DEF row, Points, Ended
<1>4. CASE SyncCheck(s)
  BY <1>3, <1>4 DEF SyncCheck, Accepts, Inv, TypeOK, row
<1>5. ASSUME NEW a \in Artifacts, Look(s, a) PROVE Inv'
  <2>1. cred[s] \in Good
    BY <1>2, <1>5 DEF Look, Go, CredOK
  <2>2. ~Known(s, a) => \A d \in Others(s) : d[1] # a
    BY DEF Known, Others
  <2>3. art'[s] = IF Known(s, a) THEN None ELSE a
    BY <1>5 DEF Look, Inv, TypeOK
  <2> QED
    BY <1>3, <1>5, <2>1, <2>2, <2>3 DEF Look, Inv, TypeOK
<1>6. CASE VendorFails(s)
  BY <1>3, <1>6 DEF VendorFails, locals, Inv, TypeOK
<1> QED
  BY <1>4, <1>5, <1>6

LEMMA TakeOK ==
  ASSUME Inv, NEW s \in Syncs, Take(s)
  PROVE  Inv'
<1> DEFINE new == <<art[s], s>>
<1>1. s \in Requests
  BY DEF Requests
<1>2. /\ pc[s] = "fetch" /\ pc'[s] = "list" /\ pc' \in [Requests -> Points]
      /\ \A q \in Requests : q # s => pc'[q] = pc[q]
      /\ pending'[s] = pending[s] \cup {new}
      /\ \A q \in Syncs : q # s => pending'[q] = pending[q] /\ art'[q] = art[q]
      /\ UNCHANGED <<status, secret, lastSync, docs, parsed, cred, org, todo, worker, stalled>>
  BY <1>1 DEF Take, Go, row, Inv, TypeOK, Points
<1>3. new \in Documents /\ art[s] \in Artifacts
  BY <1>2 DEF Documents, Inv, PendingOK
<1>4. OnlyOf(s)
  BY <1>2 DEF OnlyOf
<1>5. TypeOK'
  BY <1>2, <1>3 DEF Take, Inv, TypeOK, Points
<1>6. OwnOK(s)'
  <2>1. CredOK(s)'
    BY <1>1, <1>2 DEF Inv, CredsOK, CredOK, Ended
  <2>2. PlaceOK(s)'
    BY <1>2, ConnectorSyncAssumption DEF PlaceOK
  <2>3. s \notin Inline => worker' = s
    BY <1>2 DEF Inv, OneAtATime, Ended
  <2>4. \A d \in pending'[s] : d[2] = s
    BY <1>2 DEF Inv, PendingOK
  <2> QED
    BY <1>2, <2>1, <2>2, <2>3, <2>4 DEF OwnOK, Ended
<1>7. LocalInv'
  BY <1>1, <1>2, <1>4, <1>6, LocalKeeps
<1>8. FreshOK'
  <2>1. ASSUME s \notin Inline
        PROVE  \A c \in pending'[s], d \in Others(s)' : c[1] = d[1] => c = d
    <3>1. /\ \A c \in pending[s], d \in Others(s) : c[1] = d[1] => c = d
          /\ \A d \in Others(s) : d[1] # art[s]
      BY <1>2, <2>1 DEF Inv, FreshOK
    <3>2. pending[s] \subseteq Others(s)
      BY <2>1 DEF Others, Inv, PendingOK
    <3>3. Others(s)' = Others(s) \cup {new}
      BY <1>2, <2>1 DEF Others
    <3> QED
      BY <1>2, <3>1, <3>2, <3>3
  <2> QED
    BY <1>1, <1>2, <1>4, <2>1, FreshKeeps
<1>9. IngestedOnce' /\ SyncedIsParsed'
  BY <1>1, <1>2, <1>4, DocsKeep
<1>10. RowIsHonest'
  BY <1>2 DEF Inv, RowIsHonest
<1> QED
  BY <1>5, <1>7, <1>8, <1>9, <1>10 DEF Inv, LocalInv

(* The documents of a sync that commits are new among those of the worker. *)
LEMMA CommitIngestsOnce ==
  ASSUME Inv, NEW s \in Syncs, pc[s] \in {"list", "catch"}, docs' = docs \cup pending[s]
  PROVE  IngestedOnce'
<1> SUFFICES ASSUME NEW c \in docs', NEW d \in docs', c[1] = d[1], {c[2], d[2]} \cap Inline = {}
             PROVE  c = d
  BY DEF IngestedOnce
<1>1. \A e \in pending[s] : e[2] = s
  BY DEF Inv, PendingOK
<1>2. CASE c \in docs /\ d \in docs
  BY <1>2 DEF Inv, IngestedOnce
<1>3. CASE s \in Inline
  BY <1>1, <1>2, <1>3
<1>4. CASE s \notin Inline /\ (c \in pending[s] \/ d \in pending[s])
  <2>1. \A x \in pending[s], y \in Others(s) : x[1] = y[1] => x = y
    BY <1>4 DEF Inv, FreshOK
  <2>2. c \in Others(s) /\ d \in Others(s)
    BY DEF Others
  <2> QED
    BY <1>4, <2>1, <2>2
<1> QED
  BY <1>2, <1>3, <1>4

LEMMA SyncCommitOK ==
  ASSUME Inv, NEW s \in Syncs, SyncCommit(s)
  PROVE  Inv'
<1>1. s \in Requests
  BY DEF Requests
<1>2. /\ pc[s] = "list" /\ pc'[s] = "parse" /\ pc' \in [Requests -> Points]
      /\ \A q \in Requests : q # s => pc'[q] = pc[q]
      /\ docs' = docs \cup pending[s]
      /\ UNCHANGED <<parsed, cred, org, todo, art, pending, worker, stalled>>
  BY <1>1 DEF SyncCommit, Go, locals, Inv, TypeOK, Points
<1>3. CredOK(s)
  BY <1>1 DEF Inv, CredsOK
<1>4. OnlyOf(s)
  BY <1>2 DEF OnlyOf
<1>5. TypeOK'
  BY <1>1, <1>2 DEF SyncCommit, Persist, Statuses, Inv, TypeOK, Points
<1>6. OwnOK(s)'
  <2>1. CredOK(s)'
    BY <1>2, <1>3 DEF CredOK, Ended
  <2>2. PlaceOK(s)'
    BY <1>2, ConnectorSyncAssumption DEF PlaceOK
  <2>3. s \notin Inline => worker' = s
    BY <1>2 DEF Inv, OneAtATime, Ended
  <2> QED
    BY <1>2, <2>1, <2>2, <2>3 DEF OwnOK, Inv, PendingOK, Ended
<1>7. LocalInv'
  BY <1>1, <1>2, <1>4, <1>6, LocalKeeps
<1>8. FreshOK'
  BY <1>1, <1>2, <1>4, FreshKeeps DEF Ended
<1>9. IngestedOnce'
  BY <1>2, CommitIngestsOnce
<1>10. SyncedIsParsed'
  <2> SUFFICES ASSUME NEW d \in docs' \ parsed, pc'[d[2]] # "failed", d[2] \notin stalled
               PROVE  InLine(d)'
    BY <1>2 DEF SyncedIsParsed
  <2>1. d[2] \in Syncs
    BY <1>2 DEF Inv, TypeOK, Documents
  <2>2. CASE d \in pending[s]
    BY <1>2, <2>2 DEF InLine, Inv, PendingOK
  <2>3. CASE d \in docs
    BY <1>2, <2>1, <2>3 DEF InLine, Requests, Inv, SyncedIsParsed
  <2> QED
    BY <1>2, <2>2, <2>3
<1>11. RowIsHonest'
  <2>1. cred[s] \in Good /\ cred[s] # None
    BY <1>2, <1>3 DEF CredOK, Ended
  <2> QED
    BY <1>3, <2>1 DEF SyncCommit, Persist, RowIsHonest, CredOK
<1> QED
  BY <1>5, <1>7, <1>8, <1>9, <1>10, <1>11 DEF Inv, LocalInv

LEMMA SyncFailsOK ==
  ASSUME Inv, NEW s \in Syncs, SyncFails(s)
  PROVE  Inv'
<1>1. s \in Requests
  BY DEF Requests
<1>2. Finish(s, "catch", "failed") /\ docs' = docs \cup pending[s] /\ status' = "error"
      /\ UNCHANGED <<secret, lastSync, parsed, stalled>>
  BY DEF SyncFails
<1>3. /\ pc[s] = "catch"
      /\ pc' \in [Requests -> Points] /\ pc'[s] = "failed"
      /\ cred' \in [Requests -> Creds \cup {None}] /\ cred'[s] = None
      /\ org' \in [Requests -> BOOLEAN]
      /\ \A q \in Requests : q # s => pc'[q] = pc[q] /\ cred'[q] = cred[q] /\ org'[q] = org[q]
      /\ todo' \in [Syncs -> SUBSET Artifacts]
      /\ art' \in [Syncs -> Artifacts \cup {None}]
      /\ pending' \in [Syncs -> SUBSET Documents]
      /\ pending'[s] = {}
      /\ \A q \in Syncs : q # s => pending'[q] = pending[q] /\ art'[q] = art[q]
      /\ worker' \in Syncs \cup {None}
      /\ worker # s => worker' = worker
  BY <1>1, <1>2, FinishIs DEF Inv, Points
<1>4. OnlyOf(s)
  BY <1>3 DEF OnlyOf
<1>5. TypeOK'
  BY <1>2, <1>3 DEF Inv, TypeOK, Points, Statuses
<1>6. OwnOK(s)'
  BY <1>3, ConnectorSyncAssumption DEF OwnOK, PlaceOK, CredOK, Ended
<1>7. LocalInv'
  BY <1>1, <1>3, <1>4, <1>6, LocalKeeps
<1>8. FreshOK'
  BY <1>1, <1>2, <1>3, <1>4, FreshKeeps DEF Ended
<1>9. IngestedOnce'
  BY <1>2, <1>3, CommitIngestsOnce
<1>10. SyncedIsParsed'
  <2> SUFFICES ASSUME NEW d \in docs' \ parsed, pc'[d[2]] # "failed", d[2] \notin stalled
               PROVE  InLine(d)'
    BY <1>2 DEF SyncedIsParsed
  <2>1. d[2] # s
    BY <1>3
  <2>2. d \in docs /\ d[2] \in Syncs
    BY <1>2, <2>1 DEF Inv, PendingOK, TypeOK, Documents
  <2> QED
    BY <1>3, <2>1, <2>2 DEF InLine, Requests, Inv, SyncedIsParsed
<1>11. RowIsHonest'
  BY <1>2 DEF Inv, RowIsHonest
<1> QED
  BY <1>5, <1>7, <1>8, <1>9, <1>10, <1>11 DEF Inv, LocalInv

LEMMA ParseOK ==
  ASSUME Inv, NEW s \in Syncs, NEW d \in Documents, Parse(s, d)
  PROVE  Inv'
<1>1. s \in Requests
  BY DEF Requests
<1>2. /\ pc[s] = "parse" /\ d \in pending[s]
      /\ parsed' = parsed \cup {d}
      /\ pending' = [pending EXCEPT ![s] = @ \ {d}]
      /\ UNCHANGED <<status, secret, lastSync, docs, pc, cred, org, todo, art, worker, stalled>>
  BY DEF Parse, row
<1>3. pending'[s] = pending[s] \ {d} /\ \A q \in Syncs : q # s => pending'[q] = pending[q]
  BY <1>2 DEF Inv, TypeOK
<1>4. OnlyOf(s)
  BY <1>2, <1>3 DEF OnlyOf
<1>5. TypeOK'
  BY <1>2 DEF Inv, TypeOK
<1>6. OwnOK(s)'
  <2>1. CredOK(s)' /\ PlaceOK(s)'
    BY <1>1, <1>2 DEF Inv, CredsOK, CredOK, PointsOK, PlaceOK
  <2>2. s \notin Inline => worker' = s
    BY <1>2 DEF Inv, OneAtATime, Ended
  <2> QED
    BY <1>2, <1>3, <2>1, <2>2 DEF OwnOK, Inv, PendingOK, Ended
<1>7. LocalInv'
  BY <1>1, <1>2, <1>4, <1>6, LocalKeeps
<1>8. FreshOK'
  BY <1>1, <1>2, <1>4, FreshKeeps
<1>9. IngestedOnce' /\ SyncedIsParsed'
  BY <1>1, <1>2, <1>3, <1>4, DocsKeep
<1>10. RowIsHonest'
  BY <1>2 DEF Inv, RowIsHonest
<1> QED
  BY <1>5, <1>7, <1>8, <1>9, <1>10 DEF Inv, LocalInv

LEMMA SyncOK ==
  ASSUME Inv, NEW s \in Syncs, Sync(s)
  PROVE  Inv'
<1> USE ConnectorSyncAssumption
<1>1. s \in Requests /\ None \notin Syncs
  BY DEF Requests
<1>2. CASE Start(s) \/ StartInline(s)
  BY <1>1, <1>2, BeginOK DEF Start, StartInline, row
<1>3. ASSUME NEW from, NEW to \in Ended, Finish(s, from, to), UNCHANGED <<row, docs, parsed>>,
             stalled \subseteq stalled', stalled' \subseteq Syncs, from # "failed",
             from = "parse" => to = "failed" \/ s \in stalled' \/ pending[s] = {}
      PROVE  Inv'
  <2>1. RowIsHonest'
    BY <1>3 DEF row, Inv, RowIsHonest
  <2> QED
    BY <1>1, <1>3, <2>1, EndOK DEF row, Inv, TypeOK
<1>4. CASE MissingCredentials(s)
  <2>1. RowIsHonest'
    BY <1>4 DEF MissingCredentials, Inv, RowIsHonest
  <2> QED
    BY <1>1, <1>4, <2>1, EndOK DEF MissingCredentials, Ended, Statuses, Inv, TypeOK
<1>5. CASE ParseFails(s) \/ SyncDone(s)
  BY <1>3, <1>5 DEF ParseFails, SyncDone, Ended, Inv, TypeOK
<1>6. CASE Crash(s)
  <2>1. CASE worker = s /\ s \notin stalled
    BY <1>3, <1>6, <2>1 DEF Crash, Ended, Inv, TypeOK
  <2>2. CASE ~(worker = s /\ s \notin stalled)
    BY <1>3, <1>6, <2>2 DEF Crash, Ended, Inv, TypeOK
  <2> QED
    BY <2>1, <2>2
<1> QED
  BY <1>2, <1>4, <1>5, <1>6, ListingOK, TakeOK, SyncCommitOK, SyncFailsOK, ParseOK DEF Sync

LEMMA StutterOK ==
  ASSUME Inv, UNCHANGED vars
  PROVE  Inv'
<1>1. UNCHANGED <<status, secret, lastSync, docs, parsed, pc, cred, org, todo, art, pending, worker, stalled>>
  BY DEF vars, row, locals
<1>2. TypeOK'
  BY <1>1 DEF Inv, TypeOK
<1>3. LocalInv'
  BY <1>1 DEF Inv, LocalInv, PointsOK, CredsOK, CredOK, PendingOK, OneAtATime
<1>4. FreshOK' /\ RowIsHonest' /\ IngestedOnce' /\ SyncedIsParsed'
  BY <1>1 DEF Inv, FreshOK, Others, RowIsHonest, IngestedOnce, SyncedIsParsed, InLine
<1> QED
  BY <1>2, <1>3, <1>4 DEF Inv, LocalInv

LEMMA NextOK == Inv /\ [Next]_vars => Inv'
<1> SUFFICES ASSUME Inv, [Next]_vars PROVE Inv'
  OBVIOUS
<1> QED
  BY AdminOK, TestOK, SyncOK, StutterOK DEF Next
-----------------------------------------------------------------------------
LEMMA Invariance == Spec => []Inv
<1>1. Init => Inv
  BY InitOK
<1>2. Inv /\ [Next]_vars => Inv'
  BY NextOK
<1> QED
  BY <1>1, <1>2, PTL DEF Spec

(* Types of the state of runConnectorHealth, runConnectorSync and the      *)
(* connector routes.                                                       *)
THEOREM TypeCorrect == Spec => []TypeOK
<1>1. Inv => TypeOK
  BY DEF Inv
<1> QED
  BY <1>1, Invariance, PTL

(* Whatever saves, tests, syncs and disconnects overlap: "connected" means *)
(* credentials that the vendor accepts, although requests write back what  *)
(* they read long ago.                                                     *)
THEOREM ConnectedIsHonest == Spec => []RowIsHonest
<1>1. Inv => RowIsHonest
  BY DEF Inv
<1> QED
  BY <1>1, Invariance, PTL

(* The worker's syncs ingest a file once, without a unique index on its    *)
(* external id: the worker takes one job at a time.                        *)
THEOREM FilesIngestedOnce == Spec => []IngestedOnce
<1>1. Inv => IngestedOnce
  BY DEF Inv
<1> QED
  BY <1>1, Invariance, PTL

(* What a sync commits it parses, or that sync failed or its process died. *)
THEOREM SyncedFilesAreParsed == Spec => []SyncedIsParsed
<1>1. Inv => SyncedIsParsed
  BY DEF Inv
<1> QED
  BY <1>1, Invariance, PTL
-----------------------------------------------------------------------------
(***************************************************************************)
(* The promise of BackgroundWork: what a sync commits is owed its parse.   *)
(***************************************************************************)
(* Only committed documents are parsed, or in line for it.                 *)
Committed ==
  /\ parsed \subseteq docs
  /\ \A s \in Syncs : pc[s] = "parse" => pending[s] \subseteq docs

(* A step that neither commits nor parses puts no document in line.        *)
Quiet ==
  /\ docs' = docs /\ parsed' = parsed
  /\ \A s \in Syncs : pc'[s] = "parse" => pc[s] = "parse" /\ pending'[s] \subseteq pending[s]

(* A failure is final, and the death of a worker is not forgotten.         *)
NotesStay ==
  /\ \A r \in Requests : pc[r] = "failed" => pc'[r] = "failed"
  /\ stalled \subseteq stalled'

LEMMA FinishIsQuiet ==
  ASSUME TypeOK, NEW r \in Requests, NEW from, NEW to \in Ended, Finish(r, from, to), from # "failed",
         docs' = docs, parsed' = parsed, stalled \subseteq stalled'
  PROVE  Quiet /\ NotesStay
<1>1. to \in Points /\ to # "parse"
  BY DEF Points, Ended
<1>2. /\ pc[r] = from /\ pc'[r] = to
      /\ \A q \in Requests : q # r => pc'[q] = pc[q]
      /\ \A s \in Syncs : s # r => pending'[s] = pending[s]
  BY <1>1, FinishIs
<1> QED
  BY <1>1, <1>2 DEF Quiet, NotesStay, Requests

LEMMA ResolveIsQuiet ==
  ASSUME TypeOK, NEW r \in Requests, NEW next \in Points \ (Ended \cup {"bare", "parse"}), Resolve(r, next),
         docs' = docs, parsed' = parsed, pending' = pending, stalled' = stalled
  PROVE  Quiet /\ NotesStay
<1>1. /\ pc[r] = "idle" /\ pc'[r] \in {"bare", next}
      /\ \A q \in Requests : q # r => pc'[q] = pc[q]
  BY ResolveIs
<1> QED
  BY <1>1 DEF Quiet, NotesStay, Requests

LEMMA GoIsQuiet ==
  ASSUME TypeOK, NEW r \in Requests, NEW from, NEW to \in Points \ {"parse"}, Go(r, from, to), from # "failed",
         docs' = docs, parsed' = parsed, stalled' = stalled,
         \A s \in Syncs : s # r => pending'[s] = pending[s]
  PROVE  Quiet /\ NotesStay
<1>1. pc[r] = from /\ pc'[r] = to /\ \A q \in Requests : q # r => pc'[q] = pc[q]
  BY DEF Go, TypeOK
<1> QED
  BY <1>1 DEF Quiet, NotesStay, Requests

LEMMA TestIsQuiet ==
  ASSUME TypeOK, NEW t \in Checks,
         TestRead(t) \/ TestCheck(t) \/ TestCommit(t) \/ MissingCredentials(t)
           \/ CallbackRead(t) \/ CallbackCommit(t)
  PROVE  Quiet /\ NotesStay
<1>1. t \in Requests
  BY DEF Requests
<1>2. CASE TestRead(t) \/ CallbackRead(t)
  BY <1>1, <1>2, ResolveIsQuiet DEF TestRead, CallbackRead, Points, Ended
<1>3. CASE TestCheck(t)
  BY <1>1, <1>3, GoIsQuiet DEF TestCheck, locals, Points
<1>4. CASE TestCommit(t) \/ MissingCredentials(t) \/ CallbackCommit(t)
  BY <1>1, <1>4, FinishIsQuiet DEF TestCommit, MissingCredentials, CallbackCommit, Ended
<1> QED
  BY <1>2, <1>3, <1>4

LEMMA SyncIsQuiet ==
  ASSUME TypeOK, NEW s \in Syncs, Sync(s)
  PROVE  \/ Quiet /\ NotesStay
         \/ SyncFails(s) \/ SyncCommit(s) \/ \E d \in Documents : Parse(s, d)
<1>1. s \in Requests
  BY DEF Requests
<1>2. CASE Start(s) \/ StartInline(s)
  BY <1>1, <1>2, ResolveIsQuiet DEF Start, StartInline, Points, Ended
<1>3. CASE MissingCredentials(s)
  BY <1>1, <1>3, FinishIsQuiet DEF MissingCredentials, Ended
<1>4. CASE ParseFails(s) \/ SyncDone(s)
  BY <1>1, <1>4, FinishIsQuiet DEF ParseFails, SyncDone, Ended
<1>5. CASE Crash(s)
  <2>1. PICK to \in {"idle", "failed"} : Finish(s, pc[s], to)
    BY <1>5 DEF Crash
  <2>2. docs' = docs /\ parsed' = parsed /\ stalled \subseteq stalled' /\ pc[s] # "failed"
    BY <1>5 DEF Crash
  <2> QED
    BY <1>1, <2>1, <2>2, FinishIsQuiet DEF Ended
<1>6. CASE SyncCheck(s)
  BY <1>1, <1>6, GoIsQuiet DEF SyncCheck, Points
<1>7. CASE \E a \in Artifacts : Look(s, a)
  <2>1. PICK a \in Artifacts : Look(s, a)
    BY <1>7
  <2>2. PICK to \in {"list", "fetch"} : Go(s, "list", to)
    BY <2>1 DEF Look
  <2> QED
    BY <1>1, <2>1, <2>2, GoIsQuiet DEF Look, Points
<1>8. CASE Take(s)
  <2>1. \A q \in Syncs : q # s => pending'[q] = pending[q]
    BY <1>8 DEF Take, TypeOK
  <2> QED
    BY <1>1, <1>8, <2>1, GoIsQuiet DEF Take, Points
<1>9. CASE VendorFails(s)
  BY <1>1, <1>9, GoIsQuiet DEF VendorFails, locals, Points
<1> QED
  BY <1>2, <1>3, <1>4, <1>5, <1>6, <1>7, <1>8, <1>9 DEF Sync

LEMMA StepIs ==
  ASSUME TypeOK, [Next]_vars
  PROVE  \/ Quiet /\ NotesStay
         \/ \E s \in Syncs : SyncFails(s) \/ SyncCommit(s) \/ \E d \in Documents : Parse(s, d)
<1>1. CASE UNCHANGED vars \/ Disconnect \/ \E c \in Creds : Save(c)
  <2>1. UNCHANGED <<docs, parsed, pc, pending, stalled>>
    BY <1>1 DEF vars, locals, Disconnect, Save
  <2> QED
    BY <2>1 DEF Quiet, NotesStay
<1>2. CASE \E t \in Checks : \/ TestRead(t) \/ TestCheck(t) \/ TestCommit(t) \/ MissingCredentials(t)
                             \/ CallbackRead(t) \/ CallbackCommit(t)
  BY <1>2, TestIsQuiet
<1>3. CASE \E s \in Syncs : Sync(s)
  BY <1>3, SyncIsQuiet
<1> QED
  BY <1>1, <1>2, <1>3 DEF Next

LEMMA CommitIsOwn ==
  ASSUME TypeOK, NEW s \in Syncs, SyncCommit(s)
  PROVE  /\ NotesStay
         /\ pc'[s] = "parse" /\ \A q \in Syncs : q # s => pc'[q] = pc[q]
         /\ docs' = docs \cup pending[s] /\ parsed' = parsed /\ pending' = pending
<1>1. s \in Requests
  BY DEF Requests
<1>2. pc[s] = "list" /\ pc'[s] = "parse" /\ \A q \in Requests : q # s => pc'[q] = pc[q]
  BY <1>1 DEF SyncCommit, Go, TypeOK
<1> QED
  BY <1>2 DEF SyncCommit, locals, NotesStay, Requests

LEMMA ParseIsOwn ==
  ASSUME TypeOK, NEW s \in Syncs, NEW d \in Documents, Parse(s, d)
  PROVE  /\ NotesStay
         /\ pc[s] = "parse" /\ d \in pending[s] /\ pc' = pc
         /\ docs' = docs /\ parsed' = parsed \cup {d}
         /\ pending'[s] = pending[s] \ {d} /\ \A q \in Syncs : q # s => pending'[q] = pending[q]
BY DEF Parse, row, TypeOK, NotesStay

LEMMA StepCommitted ==
  ASSUME Inv, Committed, [Next]_vars
  PROVE  Committed'
<1>1. CASE Quiet
  BY <1>1 DEF Quiet, Committed
<1>2. ASSUME NEW s \in Syncs, SyncCommit(s) PROVE Committed'
  BY <1>2, CommitIsOwn DEF Inv, Committed
<1>3. ASSUME NEW s \in Syncs, NEW d \in Documents, Parse(s, d) PROVE Committed'
  BY <1>3, ParseIsOwn DEF Inv, Committed
<1>4. ASSUME NEW s \in Syncs, SyncFails(s) PROVE Committed'
  <2>1. s \in Requests /\ "failed" \in Points
    BY DEF Requests, Points
  <2>2. /\ pc'[s] = "failed" /\ \A q \in Requests : q # s => pc'[q] = pc[q]
        /\ \A q \in Syncs : q # s => pending'[q] = pending[q]
        /\ docs \subseteq docs' /\ parsed' = parsed
    BY <1>4, <2>1, FinishIs DEF SyncFails, Inv
  <2> QED
    BY <2>2 DEF Committed, Requests
<1> QED
  BY <1>1, <1>2, <1>3, <1>4, StepIs DEF Inv

NotedOf == {d \in Documents : pc[d[2]] = "failed" \/ d[2] \in stalled}

LEMMA PullInitRefines ==
  ASSUME Init PROVE Promise!Init
<1>1. \A d \in Documents : Situation(d) = "unknown" /\ d[2] \in Requests
  BY DEF Init, Situation, Documents, Requests
<1> QED
  BY <1>1 DEF Init, Promise!Init

LEMMA PullStepRefines ==
  ASSUME Inv, Inv', Committed, [Next]_vars, ~ \E s \in Syncs : SyncFails(s)
  PROVE  Promise!Next
<1>1. \A d \in Documents : Situation(d)' \in Promise!States
  BY DEF Situation, Promise!States
<1>2. NotesStay
  BY StepIs, CommitIsOwn, ParseIsOwn DEF Inv
<1>3. NotedOf \subseteq NotedOf' /\ NotedOf' \subseteq Documents
  BY <1>2 DEF NotedOf, NotesStay, Documents, Requests
<1>4. ASSUME NEW d \in Documents
      PROVE  \/ Situation(d) = "unknown" /\ Situation(d)' = "owed"
             \/ Situation(d) = "owed" /\ Situation(d)' = "ended"
             \/ Situation(d) = "owed" /\ Situation(d)' = "lost" /\ d \in NotedOf'
             \/ Situation(d) = "lost" /\ Situation(d)' = "owed"
             \/ Situation(d)' = Situation(d)
  <2>1. d[2] \in Syncs
    BY DEF Documents
  <2>2. Situation(d)' = "lost" => d \in NotedOf'
    BY DEF Situation, NotedOf, Inv, SyncedIsParsed
  <2>3. CASE Quiet
    BY <2>2, <2>3 DEF Quiet, Situation
  <2>4. ASSUME NEW s \in Syncs, SyncCommit(s)
        PROVE  d \in docs' \ docs => d \notin parsed' /\ InLine(d)'
    BY <2>4, CommitIsOwn DEF Inv, PendingOK, Committed, InLine
  <2>5. CASE \E s \in Syncs : SyncCommit(s)
    BY <2>2, <2>4, <2>5, CommitIsOwn DEF Situation, Inv
  <2>6. ASSUME NEW s \in Syncs, NEW e \in Documents, Parse(s, e)
        PROVE  d \in parsed' \ parsed => d \in docs /\ InLine(d)
    BY <2>6, ParseIsOwn DEF Inv, PendingOK, Committed, InLine
  <2>7. CASE \E s \in Syncs, e \in Documents : Parse(s, e)
    BY <2>2, <2>6, <2>7, ParseIsOwn DEF Situation, Inv
  <2> QED
    BY <2>3, <2>5, <2>7, StepIs DEF Inv
<1> QED
  BY <1>1, <1>3, <1>4 DEF Promise!Next, Promise!Accept, Promise!Finish, Promise!GiveUp, Promise!TryAgain,
     Promise!Stay, Promise!Becomes, NotedOf

(* Every step of a connector but the failure of a sync is one of the       *)
(* promise: what is committed is owed a parse, what is parsed was owed and *)
(* stays parsed, and what is given up was given up by a job that failed or *)
(* a worker that died, whatever is saved, tested or pulled beside it.      *)
THEOREM PullsAreKept == Spec => NoPullForgotten
<1>1. Init => Inv /\ Committed /\ Promise!Init
  BY InitOK, PullInitRefines DEF Init, Committed, Requests
<1>2. Inv /\ Committed /\ [Next]_vars
        => /\ Inv' /\ Committed'
           /\ [ingestion' # ingestion /\ ~(\E s \in Syncs : SyncFails(s)) => Promise!Next]_vars
  BY NextOK, StepCommitted, PullStepRefines
<1> QED
  BY <1>1, <1>2, PTL DEF Spec, NoPullForgotten
-----------------------------------------------------------------------------
(***************************************************************************)
(* What a sync does at the vendor: nothing that stands there is passed     *)
(* over, and a column is reverted only by a write that overlaps.           *)
(***************************************************************************)
(* The rows people edit have the columns of their table, and a company is  *)
(* mapped to a place or to nothing; so of a row an editor has read.        *)
Fields(x) == IF x \in Companies THEN {"place", "text"} ELSE {"own", "text"}

RowOK(x, r) ==
  DOMAIN r = Fields(x) /\ (x \in Companies => r.place \in Places \cup {Nothing})

RowIds == Companies \cup Positions

RowsOK ==
  /\ DOMAIN rows = RowIds /\ rows = [x \in RowIds |-> rows[x]]
  /\ DOMAIN told = RowIds /\ told = [x \in RowIds |-> told[x]]
  /\ \A x \in RowIds : RowOK(x, rows[x]) /\ DOMAIN told[x] = Fields(x)

OpenedOK ==
  /\ DOMAIN opened = Editors /\ opened = [e \in Editors |-> opened[e]]
  /\ \A e \in Editors :
       \/ opened[e] = Nothing
       \/ \E x, r : opened[e] = [of |-> x, row |-> r] /\ (x = Nothing \/ (x \in RowIds /\ RowOK(x, r)))

(* A sync writes ownerships of positions, and reads companies that are     *)
(* mapped.                                                                 *)
PullingOK ==
  /\ DOMAIN sync = DOMAIN Idle /\ sync = [f \in DOMAIN Idle |-> sync[f]]
  /\ sync.place \in [Companies -> Places \cup {Nothing}]
  /\ DOMAIN sync.wrote \subseteq Positions

PullShape == RowsOK /\ OpenedOK /\ PullingOK
-----------------------------------------------------------------------------
LEMMA IdleIs ==
  /\ Idle = [f \in DOMAIN Idle |-> Idle[f]]
  /\ Idle.place \in [Companies -> Places \cup {Nothing}]
  /\ DOMAIN Idle.wrote = {}
<1>1. Idle.wrote = <<>>
  BY DEF Idle
<1>2. DOMAIN <<>> = {}
  OBVIOUS
<1>3. DOMAIN Idle.wrote = {}
  BY <1>1, <1>2
<1>4. Idle = [f \in DOMAIN Idle |-> Idle[f]] /\ Idle.place \in [Companies -> Places \cup {Nothing}]
  BY DEF Idle
<1> QED
  BY <1>3, <1>4

LEMMA InitPull == PullInit => PullShape /\ RowsLostOnlyByOverlap
<1> SUFFICES ASSUME PullInit PROVE PullShape /\ RowsLostOnlyByOverlap
  OBVIOUS
<1>2. PICK p \in [Companies -> Places] :
        rows = [x \in RowIds |-> IF x \in Companies THEN Company(p[x]) ELSE Position(Nothing)]
  BY DEF PullInit, RowIds
<1>3. RowsOK
  BY <1>2 DEF PullInit, RowsOK, RowOK, Fields, Company, Position, RowIds
<1>4. OpenedOK
  BY DEF PullInit, OpenedOK
<1>5. PullingOK
  BY IdleIs DEF PullInit, PullingOK
<1>6. RowsLostOnlyByOverlap
  BY DEF PullInit, RowsLostOnlyByOverlap
<1> QED
  BY <1>3, <1>4, <1>5, <1>6 DEF PullShape

LEMMA StepSync ==
  ASSUME PullShape, [PullNext]_pullVars
  PROVE  PullingOK'
<1> USE DEF PullShape, PullingOK
<1>1. CASE UNCHANGED pullVars
  BY <1>1 DEF pullVars, Idle
<1>2. ASSUME NEW x \in Places, NEW v \in Has(vendor), Move(x, v) PROVE PullingOK'
  BY <1>2 DEF Move, Idle
<1>3. CASE TokenExpires
  BY <1>3 DEF TokenExpires, Idle
<1>4. CASE Begin
  <2>1. [c \in Companies |-> rows[c].place] \in [Companies -> Places \cup {Nothing}]
    BY DEF RowsOK, RowOK, RowIds
  <2> QED
    BY <1>4, <2>1, IdleIs DEF Begin, Idle
<1>5. CASE ListPage
  BY <1>5 DEF ListPage, Idle
<1>6. CASE TakeFile
  BY <1>6 DEF TakeFile, Idle
<1>7. CASE TurnPage
  BY <1>7 DEF TurnPage, Idle
<1>8. CASE FetchShare
  <2>1. ASSUME NEW p \in Positions, NEW m PROVE DOMAIN Noted(sync.wrote, p, m) \subseteq Positions
    BY DEF Noted
  <2> QED
    <3>1. CASE UNCHANGED sync.wrote /\ sync' = [sync EXCEPT !.stage = "next"]
      BY <3>1 DEF Idle
    <3>2. CASE \E p \in Positions : sync' = [sync EXCEPT !.stage = "next", !.wrote = Noted(sync.wrote, p, mapAffinityCompany)]
      <4>1. PICK p \in Positions :
              sync' = [sync EXCEPT !.stage = "next", !.wrote = Noted(sync.wrote, p, mapAffinityCompany)]
        BY <3>2
      <4>2. DOMAIN Noted(sync.wrote, p, mapAffinityCompany) \subseteq Positions
        BY <2>1
      <4>3. /\ sync'.place = sync.place /\ sync'.wrote = Noted(sync.wrote, p, mapAffinityCompany)
            /\ DOMAIN sync' = DOMAIN Idle /\ sync' = [f \in DOMAIN Idle |-> sync'[f]]
        BY <4>1 DEF Idle
      <4> QED
        BY <4>2, <4>3
    <3> QED
      BY <1>8, <3>1, <3>2 DEF FetchShare, Idle
<1>9. CASE FetchNote
  BY <1>9 DEF FetchNote, Idle
<1>10. CASE Fail
  BY <1>10, IdleIs DEF Fail, Idle
<1>11. CASE Succeed
  BY <1>11 DEF Succeed, Idle
<1>12. CASE Return
  BY <1>12, IdleIs DEF Return
<1>13. ASSUME NEW c \in Companies, Turn(c) PROVE PullingOK'
  BY <1>13 DEF Turn, Idle
<1>14. ASSUME NEW e \in Editors, NEW x \in DOMAIN rows, EditRead(e, x) PROVE PullingOK'
  BY <1>14 DEF EditRead, Idle
<1>15. ASSUME NEW e \in Editors, NEW patch \in Bodies, EditWrite(e, patch) PROVE PullingOK'
  BY <1>15 DEF EditWrite, Idle
<1> QED
  BY <1>1, <1>2, <1>3, <1>4, <1>5, <1>6, <1>7, <1>8, <1>9, <1>10, <1>11, <1>12, <1>13, <1>14, <1>15
     DEF PullNext

(* The end of a sync, as it changes the rows. *)
LEMMA CommitIs ==
  ASSUME PullShape, RowsLostOnlyByOverlap, Commit
  PROVE  RowsOK' /\ RowsLostOnlyByOverlap'
<1> USE DEF PullShape, PullingOK, RowsOK
<1>1. rows' = [x \in RowIds |-> IF x \in Positions THEN [rows[x] EXCEPT !.own = NewOwn(x)] ELSE rows[x]]
  BY DEF Commit
<1>2. told' = [x \in RowIds |-> IF x \in DOMAIN sync.wrote THEN [told[x] EXCEPT !.own = sync.wrote[x]] ELSE told[x]]
  BY DEF Commit
<1>3. ASSUME NEW x \in RowIds PROVE RowOK(x, rows'[x]) /\ DOMAIN told'[x] = Fields(x)
  <2>1. RowOK(x, rows[x]) /\ DOMAIN told[x] = Fields(x)
    OBVIOUS
  <2>2. x \in Companies => rows'[x].place = rows[x].place
    BY <1>1, <2>1 DEF RowOK, Fields
  <2> QED
    BY <1>1, <1>2, <2>1, <2>2 DEF RowOK
<1>4. RowsOK'
  BY <1>1, <1>2, <1>3 DEF RowIds
<1>5. ASSUME NEW x \in RowIds, NEW f \in DOMAIN rows'[x], rows'[x][f] # told'[x][f]
      PROVE  <<x, f>> \in overlapped'
  <2>1. f \in DOMAIN rows[x] /\ f \in DOMAIN told[x]
    BY <1>1 DEF RowOK
  <2>2. ~(x \in DOMAIN sync.wrote /\ f = "own")
    BY <1>1, <1>2, <1>5, <2>1 DEF NewOwn
  <2>3. rows'[x][f] = rows[x][f]
    BY <1>1, <2>1, <2>2 DEF NewOwn
  <2>4. told'[x][f] = told[x][f]
    BY <1>2, <2>1, <2>2
  <2>5. <<x, f>> \in overlapped
    BY <1>5, <2>1, <2>3, <2>4 DEF RowsLostOnlyByOverlap
  <2> QED
    BY <2>2, <2>5 DEF Commit
<1>6. RowsLostOnlyByOverlap'
  BY <1>1, <1>5 DEF RowsLostOnlyByOverlap
<1> QED
  BY <1>4, <1>6

(* The columns of a body are those of one table. *)
LEMMA BodyIs ==
  ASSUME NEW patch \in Bodies, "place" \in DOMAIN patch
  PROVE  patch.place \in Places \cup {Nothing, Unset}
BY DEF Bodies

LEMMA EditWriteIs ==
  ASSUME PullShape, RowsLostOnlyByOverlap, NEW e \in Editors, NEW patch \in Bodies, EditWrite(e, patch)
  PROVE  RowsOK' /\ OpenedOK' /\ RowsLostOnlyByOverlap'
<1> USE DEF PullShape, RowsOK
<1>1. PICK x, r : /\ opened[e] = [of |-> x, row |-> r]
                  /\ x \in RowIds /\ RowOK(x, r)
  BY DEF EditWrite, OpenedOK
<1>2. opened[e].of = x /\ opened[e].row = r
  BY <1>1
<1>3. /\ DOMAIN patch = DOMAIN rows[x]
      /\ rows' = [rows EXCEPT ![x] = patched(r, patch)]
      /\ told' = [told EXCEPT ![x] = [f \in DOMAIN rows[x] |-> IF patch[f] = Unset THEN told[x][f] ELSE patch[f]]]
      /\ overlapped' = {o \in overlapped : o[1] # x \/ patch[o[2]] = Unset}
                         \cup {<<x, f>> : f \in {g \in DOMAIN patch : patch[g] = Unset /\ r[g] # rows[x][g]}}
  BY <1>1, <1>2 DEF EditWrite
<1>4. DOMAIN r = Fields(x) /\ DOMAIN rows[x] = Fields(x) /\ DOMAIN patch = Fields(x)
  BY <1>1, <1>3 DEF RowOK
<1>5. patched(r, patch) = [f \in Fields(x) |-> IF patch[f] = Unset THEN r[f] ELSE patch[f]]
  BY <1>4 DEF patched
<1>6. RowOK(x, patched(r, patch))
  BY <1>1, <1>4, <1>5, BodyIs DEF RowOK, Fields
<1>7. RowsOK'
  BY <1>1, <1>3, <1>4, <1>6 DEF RowIds
<1>8. OpenedOK'
  <2>1. opened' = [opened EXCEPT ![e] = [opened[e] EXCEPT !.of = Nothing]]
    BY DEF EditWrite
  <2>2. [opened[e] EXCEPT !.of = Nothing] = [of |-> Nothing, row |-> r]
    BY <1>1
  <2> QED
    BY <2>1, <2>2 DEF OpenedOK
<1>9. ASSUME NEW y \in RowIds, NEW f \in DOMAIN rows'[y], rows'[y][f] # told'[y][f]
      PROVE  <<y, f>> \in overlapped'
  <2>1. CASE y # x
    <3>1. rows'[y] = rows[y] /\ told'[y] = told[y]
      BY <1>3, <2>1
    <3>2. <<y, f>> \in overlapped
      BY <1>9, <3>1 DEF RowsLostOnlyByOverlap
    <3> QED
      BY <1>3, <2>1, <3>2
  <2>2. CASE y = x
    <3>1. rows'[x] = patched(r, patch) /\ f \in Fields(x)
      BY <1>1, <1>3, <1>5, <1>9, <2>2
    <3>2. told'[x] = [g \in Fields(x) |-> IF patch[g] = Unset THEN told[x][g] ELSE patch[g]]
      BY <1>1, <1>3, <1>4
    <3>3. patch[f] = Unset /\ r[f] # told[x][f]
      BY <1>5, <1>9, <2>2, <3>1, <3>2
    <3>4. CASE r[f] # rows[x][f]
      BY <1>3, <1>4, <2>2, <3>1, <3>3, <3>4
    <3>5. CASE r[f] = rows[x][f]
      <4>1. <<x, f>> \in overlapped
        BY <1>1, <1>4, <3>1, <3>3, <3>5 DEF RowsLostOnlyByOverlap
      <4> QED
        BY <1>3, <2>2, <3>3, <4>1
    <3> QED
      BY <3>4, <3>5
  <2> QED
    BY <2>1, <2>2
<1>10. RowsLostOnlyByOverlap'
  BY <1>3, <1>9 DEF RowsLostOnlyByOverlap
<1> QED
  BY <1>7, <1>8, <1>10

LEMMA StepRows ==
  ASSUME PullShape, RowsLostOnlyByOverlap, [PullNext]_pullVars
  PROVE  RowsOK' /\ OpenedOK' /\ RowsLostOnlyByOverlap'
<1> DEFINE Goal == RowsOK' /\ OpenedOK' /\ RowsLostOnlyByOverlap'
<1>1. ASSUME UNCHANGED <<rows, told, overlapped, opened>> PROVE Goal
  <2>1. RowsOK' /\ OpenedOK'
    BY <1>1 DEF PullShape, RowsOK, OpenedOK
  <2> QED
    BY <1>1, <2>1 DEF RowsLostOnlyByOverlap
<1>2. ASSUME Commit, UNCHANGED opened PROVE Goal
  <2>1. OpenedOK'
    BY <1>2 DEF PullShape, OpenedOK
  <2> QED
    BY <1>2, <2>1, CommitIs
<1>3. ASSUME NEW e \in Editors, NEW x \in DOMAIN rows, EditRead(e, x) PROVE Goal
  <2>1. UNCHANGED <<rows, told, overlapped>>
    BY <1>3 DEF EditRead, books
  <2>2. x \in RowIds /\ RowOK(x, rows[x])
    BY DEF PullShape, RowsOK
  <2>3. OpenedOK'
    BY <1>3, <2>2 DEF EditRead, PullShape, OpenedOK
  <2>4. RowsOK' /\ RowsLostOnlyByOverlap'
    BY <2>1 DEF PullShape, RowsOK, RowsLostOnlyByOverlap
  <2> QED
    BY <2>3, <2>4
<1>4. ASSUME NEW e \in Editors, NEW patch \in Bodies, EditWrite(e, patch) PROVE Goal
  BY <1>4, EditWriteIs
<1>5. CASE PullNext
  <2>1. CASE Begin \/ ListPage \/ TakeFile \/ TurnPage \/ FetchShare \/ FetchNote \/ Return
    <3>1. UNCHANGED <<rows, told, overlapped, opened>>
      BY <2>1 DEF Begin, ListPage, TakeFile, TurnPage, FetchShare, FetchNote, Return, books
    <3> QED
      BY <1>1, <3>1
  <2>2. CASE Fail \/ Succeed
    BY <1>2, <2>2 DEF Fail, Succeed
  <2>3. CASE TokenExpires \/ \E c \in Companies : Turn(c)
    <3>1. UNCHANGED <<rows, told, overlapped, opened>>
      BY <2>3 DEF TokenExpires, Turn, books
    <3> QED
      BY <1>1, <3>1
  <2>4. CASE \E x \in Places : \E v \in Has(vendor) : Move(x, v)
    <3>1. UNCHANGED <<rows, told, overlapped, opened>>
      BY <2>4 DEF Move, books
    <3> QED
      BY <1>1, <3>1
  <2> QED
    BY <1>3, <1>4, <1>5, <2>1, <2>2, <2>3, <2>4 DEF PullNext
<1>6. CASE UNCHANGED pullVars
  BY <1>1, <1>6 DEF pullVars, books
<1> QED
  BY <1>5, <1>6

(* What a person or the vendor set last is what a company or a position    *)
(* holds, unless a request that had read the row before wrote it back.     *)
(* The PATCH handlers and the writes of the affinity sync.                 *)
THEOREM NothingElseReverts == PullSpec => []RowsLostOnlyByOverlap
<1>1. PullShape /\ RowsLostOnlyByOverlap /\ [PullNext]_pullVars => (PullShape /\ RowsLostOnlyByOverlap)'
  BY StepSync, StepRows DEF PullShape
<1> QED
  BY <1>1, InitPull, PTL DEF PullSpec

-----------------------------------------------------------------------------
(* What a sync has seen still stands at the vendor, and of every company   *)
(* mapped to its place it is still to come, or here.                       *)
Held(c) == {p \in Positions : CompanyOf[p] = c}

Brought(c, s) ==
  CASE vendor = "onedrive" -> Stored(s[2])
    [] vendor = "granola"  -> Stored(s[1])
    [] vendor = "affinity" -> s[2] # Nothing /\ Held(c) # {} =>
                                \E p \in Held(c) : p \in DOMAIN sync.wrote /\ sync.wrote[p] = s[2]

Beyond(s) == sync.after \in Nat /\ s[2] > sync.after

Coming(s) ==
  \/ sync.stage = "ask" /\ (vendor = "onedrive" => Beyond(s))
  \/ sync.stage = "page" /\ (s[2] \in sync.page \/ (sync.more /\ Beyond(s)))

Due(c, s) == c \in sync.todo \/ (c = sync.co /\ Coming(s)) \/ Brought(c, s)

Mapped(s) == {c \in Companies : sync.place[c] = s[1]}

SeenOK ==
  /\ vendor \in Vendors /\ remote \in [Places -> Has(vendor)]
  /\ \A s \in sync.seen : s[1] \in Places /\ s \in Items(s[1])
  /\ sync.stage \in {"idle", "failed"} => sync.seen = {}

DueOK ==
  /\ sync.stage = "page" => vendor = "onedrive"
  /\ sync.stage \in {"next", "ask", "page"} =>
       \A s \in sync.seen : Mapped(s) # {} /\ \A c \in Mapped(s) : Due(c, s)

PullInv == PullShape /\ SeenOK /\ DueOK /\ SyncBringsAll
-----------------------------------------------------------------------------
(* A bounded set of numbers has a greatest element. *)
LEMMA BoundedMax ==
  ASSUME NEW S \in SUBSET Nat, S # {}, NEW n \in Nat, \A y \in S : y <= n
  PROVE  Max(S) \in S /\ \A y \in S : Max(S) >= y
<1> DEFINE T == {m \in Nat : \A y \in S : y <= m}
<1>1. T \subseteq Nat /\ n \in T
  OBVIOUS
<1>2. PICK m \in T : \A k \in T : ~(<<k, m>> \in OpToRel(<, Nat))
  <2> HIDE DEF T
  <2> QED
    BY <1>1, WFMin, NatLessThanWellFounded
<1>3. m \in Nat /\ (\A y \in S : y <= m) /\ \A k \in T : ~(k < m)
  BY <1>2 DEF OpToRel
<1>4. m \in S
  <2> SUFFICES ASSUME m \notin S PROVE FALSE
    OBVIOUS
  <2>1. \A y \in S : y \in Nat /\ y <= m /\ y # m
    <3> HIDE DEF T
    <3> QED
      BY <1>3
  <2>2. PICK y \in S : TRUE
    OBVIOUS
  <2>3. m # 0
    <3> HIDE DEF T
    <3> QED
      BY <1>3, <2>1, <2>2
  <2>4. m - 1 \in T /\ m - 1 < m
    BY <1>3, <2>1, <2>3
  <2> QED
    BY <1>3, <2>4
<1>5. \E x \in S : \A y \in S : x >= y
  BY <1>3, <1>4
<1> QED
  BY <1>5 DEF Max

(* A page of a listing: what it leaves out comes after it. *)
LEMMA PageIs ==
  ASSUME NEW place, remote[place] \subseteq Nat, NEW after \in Nat, NEW f \in Rest(place, after),
         f \notin graphChildren(place, after)
  PROVE  LET page == graphChildren(place, after)
         IN Max(page \cup {after}) \in Nat /\ f > Max(page \cup {after})
<1> DEFINE page == graphChildren(place, after)
           below(x) == {g \in Rest(place, after) : g < x}
<1>1. Rest(place, after) \subseteq Nat /\ f \in Nat /\ f > after
  BY DEF Rest
<1>2. ASSUME NEW g \in page PROVE g < f
  <2>1. g \in Rest(place, after) /\ g \in Nat /\ Cardinality(below(g)) < PageSize
    BY <1>1, <1>2 DEF graphChildren
  <2>2. ~(Cardinality(below(f)) < PageSize)
    BY DEF graphChildren
  <2> SUFFICES ASSUME f <= g PROVE FALSE
    BY <1>1, <2>1
  <2>3. below(f) \subseteq below(g)
    BY <1>1, <2>1
  <2>4. below(g) \subseteq 0..g
    BY <1>1, <2>1
  <2>5. IsFiniteSet(0..g)
    <3>1. g \in Int /\ 0 \in Int
      BY <2>1
    <3> QED
      BY <3>1, FS_Interval
  <2>6. IsFiniteSet(below(g))
    BY <2>4, <2>5, FS_Subset
  <2>7. IsFiniteSet(below(f)) /\ Cardinality(below(f)) <= Cardinality(below(g))
    BY <2>3, <2>6, FS_Subset
  <2>8. Cardinality(below(f)) \in Nat /\ Cardinality(below(g)) \in Nat
    BY <2>6, <2>7, FS_CardinalityType
  <2> HIDE DEF below
  <2> QED
    BY <2>1, <2>2, <2>7, <2>8, VendorPullAssumption
<1>3. page \cup {after} \in SUBSET Nat
  BY <1>1 DEF graphChildren
<1>4. \A g \in page \cup {after} : g < f
  BY <1>1, <1>2
<1>5. \A g \in page \cup {after} : g <= f
  BY <1>1, <1>3, <1>4
<1>6. Max(page \cup {after}) \in page \cup {after}
  <2> HIDE DEF page
  <2> QED
    BY <1>1, <1>3, <1>5, BoundedMax
<1> QED
  BY <1>3, <1>4, <1>6
-----------------------------------------------------------------------------
(* The fields of a sync that a step changes. *)
LEMMA SyncFields ==
  ASSUME PullingOK
  PROVE  DOMAIN sync = {"stage", "todo", "place", "co", "after", "page", "more", "mine", "wrote", "seen"}
BY DEF PullingOK, Idle

LEMMA SeenFacts ==
  ASSUME SeenOK, NEW s \in sync.seen
  PROVE  /\ s[1] \in Places /\ remote[s[1]] # Gone
         /\ vendor = "onedrive" => s[2] \in remote[s[1]] /\ s[2] \in Supported /\ s[2] \in Nat /\ s[2] > 0
         /\ vendor # "onedrive" => s[2] = remote[s[1]]
<1>1. s[1] \in Places /\ s \in Items(s[1])
  BY DEF SeenOK
<1>2. remote[s[1]] # Gone
  BY <1>1 DEF Items
<1>3. ASSUME vendor = "onedrive"
      PROVE  s[2] \in remote[s[1]] /\ s[2] \in Supported /\ s[2] \in Nat /\ s[2] > 0
  <2>1. PICK f \in remote[s[1]] \cap Supported : s = <<s[1], f>>
    BY <1>1, <1>2, <1>3 DEF Items
  <2> QED
    BY <2>1, VendorPullAssumption
<1>4. ASSUME vendor # "onedrive" PROVE s[2] = remote[s[1]]
  <2>1. s = <<s[1], remote[s[1]]>>
    BY <1>1, <1>2, <1>4 DEF Items
  <2> QED
    BY <2>1
<1> QED
  BY <1>1, <1>2, <1>3, <1>4

LEMMA FilesAreNumbers ==
  ASSUME SeenOK, vendor = "onedrive", NEW place \in Places, remote[place] # Gone
  PROVE  remote[place] \subseteq Nat
<1>1. remote[place] \in Has("onedrive")
  BY DEF SeenOK
<1>2. Has("onedrive") = (SUBSET Files) \cup {Gone}
  BY Zenon DEF Has
<1>3. remote[place] \in SUBSET Files
  BY <1>1, <1>2
<1> QED
  BY <1>3, VendorPullAssumption

LEMMA InitSeen == PullInit => SeenOK /\ DueOK /\ SyncBringsAll
BY DEF PullInit, SeenOK, DueOK, SyncBringsAll, Idle

(* What a sync has seen of a place stands there as it did. *)
LEMMA MoveKeepsSeen ==
  ASSUME PullShape, SeenOK, NEW x \in Places, NEW v \in Has(vendor), Move(x, v)
  PROVE  SeenOK'
<1>1. vendor' = vendor /\ remote' \in [Places -> Has(vendor)]
  BY DEF Move, SeenOK
<1>2. /\ sync'.seen = {s \in sync.seen : s[1] # x \/ Stays(s[2], v)}
      /\ sync'.stage = sync.stage
  BY SyncFields DEF Move, PullShape
<1>3. ASSUME NEW s \in sync'.seen PROVE s[1] \in Places /\ s \in Items(s[1])'
  <2>1. s \in sync.seen /\ s[1] \in Places /\ s \in Items(s[1])
    BY <1>2 DEF SeenOK
  <2>2. CASE s[1] # x
    <3>1. remote'[s[1]] = remote[s[1]]
      BY <2>1, <2>2 DEF Move, SeenOK
    <3> QED
      BY <1>1, <2>1, <3>1 DEF Items
  <2>3. CASE s[1] = x
    <3>1. remote'[s[1]] = v /\ v # remote[s[1]]
      BY <2>1, <2>3 DEF Move, SeenOK
    <3>2. Stays(s[2], v)
      BY <1>2, <2>3
    <3>3. vendor = "onedrive" /\ v # Gone /\ s[2] \in v
      BY <2>1, <3>1, <3>2, SeenFacts DEF Stays
    <3>4. PICK f \in remote[s[1]] \cap Supported : s = <<s[1], f>>
      BY <2>1, <3>3, SeenFacts DEF Items
    <3>5. s[2] = f
      BY <3>4
    <3>6. f \in remote'[s[1]] \cap Supported /\ remote'[s[1]] # Gone
      BY <3>1, <3>3, <3>4, <3>5
    <3> QED
      BY <1>1, <2>1, <3>3, <3>4, <3>6 DEF Items
  <2> QED
    BY <2>2, <2>3
<1>4. sync'.stage \in {"idle", "failed"} => sync'.seen = {}
  BY <1>2 DEF SeenOK
<1>5. vendor' \in Vendors
  BY <1>1 DEF SeenOK
<1> QED
  BY <1>1, <1>3, <1>4, <1>5 DEF SeenOK

Stages == {"ask", "page", "next", "done"}

LEMMA StepSeen ==
  ASSUME PullShape, SeenOK, [PullNext]_pullVars
  PROVE  SeenOK'
<1>1. ASSUME UNCHANGED <<vendor, remote>>, sync'.seen = sync.seen,
             sync'.stage \in Stages \/ sync'.stage = sync.stage
      PROVE  SeenOK'
  BY <1>1 DEF SeenOK, Items, Stages
<1>2. ASSUME UNCHANGED <<vendor, remote>>, sync' = Idle \/ sync' = [Idle EXCEPT !.stage = "failed"]
      PROVE  SeenOK'
  BY <1>2 DEF SeenOK, Idle
<1>3. CASE UNCHANGED pullVars
  BY <1>1, <1>3 DEF pullVars
<1>4. ASSUME NEW x \in Places, NEW v \in Has(vendor), Move(x, v) PROVE SeenOK'
  BY <1>4, MoveKeepsSeen
<1>5. CASE TokenExpires
  BY <1>1, <1>5 DEF TokenExpires
<1>6. CASE Begin
  <2>1. CASE UNCHANGED sync
    BY <1>1, <1>6, <2>1 DEF Begin
  <2>2. CASE ~UNCHANGED sync
    <3> DEFINE place == [c \in Companies |-> rows[c].place]
               targets == {c \in Companies : place[c] # Nothing}
    <3>1. sync' = [Idle EXCEPT !.stage = "next", !.todo = targets, !.place = place,
                               !.seen = UNION {Items(place[c]) : c \in targets}]
      BY <1>6, <2>2 DEF Begin
    <3>2. sync'.stage = "next" /\ sync'.seen = UNION {Items(place[c]) : c \in targets}
      BY <3>1 DEF Idle
    <3>3. UNCHANGED <<vendor, remote>>
      BY <1>6 DEF Begin
    <3>4. ASSUME NEW s \in sync'.seen PROVE s[1] \in Places /\ s \in Items(s[1])'
      <4>1. PICK c \in targets : s \in Items(place[c])
        BY <3>2
      <4>2. place[c] \in Places
        BY <4>1 DEF PullShape, RowsOK, RowOK, RowIds
      <4>3. s[1] = place[c]
        BY <4>1 DEF Items
      <4> QED
        BY <3>3, <4>1, <4>2, <4>3 DEF Items
    <3> QED
      BY <3>2, <3>3, <3>4 DEF SeenOK
  <2> QED
    BY <2>1, <2>2
<1>7. CASE ListPage
  BY <1>1, <1>7, SyncFields DEF ListPage, PullShape, Stages
<1>8. CASE TakeFile
  BY <1>1, <1>8, SyncFields DEF TakeFile, PullShape, Stages
<1>9. CASE TurnPage
  BY <1>1, <1>9, SyncFields DEF TurnPage, PullShape, Stages
<1>10. CASE FetchShare
  BY <1>1, <1>10, SyncFields DEF FetchShare, PullShape, Stages
<1>11. CASE FetchNote
  BY <1>1, <1>11, SyncFields DEF FetchNote, PullShape, Stages
<1>12. CASE Succeed
  BY <1>1, <1>12, SyncFields DEF Succeed, PullShape, Stages
<1>13. CASE Fail
  BY <1>2, <1>13 DEF Fail
<1>14. CASE Return
  BY <1>2, <1>14 DEF Return
<1>15. ASSUME NEW c \in Companies, Turn(c) PROVE SeenOK'
  BY <1>1, <1>15, SyncFields DEF Turn, PullShape, Stages
<1>16. ASSUME NEW e \in Editors, NEW x \in DOMAIN rows, EditRead(e, x) PROVE SeenOK'
  BY <1>1, <1>16 DEF EditRead
<1>17. ASSUME NEW e \in Editors, NEW patch \in Bodies, EditWrite(e, patch) PROVE SeenOK'
  BY <1>1, <1>17 DEF EditWrite
<1> QED
  BY <1>3, <1>4, <1>5, <1>6, <1>7, <1>8, <1>9, <1>10, <1>11, <1>12, <1>13, <1>14, <1>15, <1>16, <1>17
     DEF PullNext
-----------------------------------------------------------------------------
(* What is due stays due or comes, step by step. *)
LEMMA StoredStays ==
  ASSUME UNCHANGED vault, sync.mine \subseteq sync'.mine, NEW a, Stored(a)
  PROVE  \E d \in vault' \cup sync'.mine : d.art = a
BY DEF Stored

LEMMA BroughtStays ==
  ASSUME UNCHANGED <<vendor, vault>>, sync.mine \subseteq sync'.mine, sync'.wrote = sync.wrote,
         vendor \in Vendors, NEW c, NEW s, Brought(c, s)
  PROVE  Brought(c, s)'
<1>1. CASE vendor = "onedrive"
  BY <1>1, StoredStays DEF Brought, Stored
<1>2. CASE vendor = "granola"
  BY <1>2, StoredStays DEF Brought, Stored
<1>3. CASE vendor = "affinity"
  BY <1>3 DEF Brought
<1> QED
  BY <1>1, <1>2, <1>3 DEF Vendors

(* A page is listed. *)
LEMMA ListPageOwes ==
  ASSUME PullInv, ListPage, NEW s \in sync.seen, NEW c \in Mapped(s), Due(c, s)
  PROVE  Due(c, s)'
<1> DEFINE page == graphChildren(Place, sync.after)
           more == nextLink(page)
           next == Max(page \cup {sync.after})
<1>1. sync' = [sync EXCEPT !.stage = "page", !.page = page, !.more = more, !.after = next]
  BY DEF ListPage
<1>2. /\ sync'.stage = "page" /\ sync'.page = page /\ sync'.more = more /\ sync'.after = next
      /\ sync'.todo = sync.todo /\ sync'.co = sync.co /\ sync'.mine = sync.mine /\ sync'.wrote = sync.wrote
  <2> HIDE DEF page, more, next
  <2> QED
    BY <1>1, SyncFields DEF PullInv, PullShape
<1>3. CASE Brought(c, s)
  <2>1. Brought(c, s)'
    BY <1>2, <1>3, BroughtStays DEF ListPage, books, PullInv, SeenOK
  <2> QED
    BY <2>1 DEF Due
<1>4. CASE c \in sync.todo
  BY <1>2, <1>4 DEF Due
<1>5. CASE c = sync.co /\ Coming(s)
  <2>1. Place = s[1] /\ Beyond(s)
    BY <1>5 DEF Place, Coming, ListPage, Mapped
  <2>2. s[2] \in remote[Place] /\ s[2] \in Nat /\ remote[Place] \subseteq Nat
    BY <2>1, SeenFacts, FilesAreNumbers DEF PullInv, ListPage
  <2>3. s[2] \in Rest(Place, sync.after) /\ sync.after \in Nat
    BY <2>1, <2>2 DEF Rest, Beyond
  <2>4. CASE s[2] \in page
    <3>1. Coming(s)'
      BY <1>2, <2>4 DEF Coming
    <3> QED
      BY <1>2, <1>5, <3>1 DEF Due
  <2>5. CASE s[2] \notin page
    <3>1. more
      BY <2>3, <2>5 DEF nextLink
    <3>2. next \in Nat /\ s[2] > next
      BY <2>2, <2>3, <2>5, PageIs
    <3>3. Coming(s)'
      <4> HIDE DEF page, more, next
      <4> QED
        BY <1>2, <3>1, <3>2 DEF Coming, Beyond
    <3> QED
      BY <1>2, <1>5, <3>3 DEF Due
  <2> QED
    BY <2>4, <2>5
<1> QED
  BY <1>3, <1>4, <1>5 DEF Due

(* A file of the page is taken. *)
LEMMA TakeFileOwes ==
  ASSUME PullInv, TakeFile, NEW s \in sync.seen, NEW c \in Mapped(s), Due(c, s)
  PROVE  Due(c, s)'
<1> DEFINE f == Min(sync.page)
           mine == IF Stored(f) \/ f \notin Supported THEN sync.mine ELSE sync.mine \cup {Document(f)}
<1>1. sync' = [sync EXCEPT !.page = sync.page \ {f}, !.mine = mine]
  BY DEF TakeFile
<1>2. /\ sync'.page = sync.page \ {f} /\ sync'.mine = mine /\ sync'.stage = sync.stage /\ sync'.more = sync.more
      /\ sync'.after = sync.after /\ sync'.todo = sync.todo /\ sync'.co = sync.co /\ sync'.wrote = sync.wrote
  <2> HIDE DEF f, mine
  <2> QED
    BY <1>1, SyncFields DEF PullInv, PullShape
<1>3. vendor = "onedrive" /\ UNCHANGED <<vendor, vault>> /\ sync.stage = "page"
  BY DEF TakeFile, PullInv, DueOK, books
<1>4. sync.mine \subseteq sync'.mine
  BY <1>2
<1>5. CASE Brought(c, s)
  <2>1. Brought(c, s)'
    BY <1>2, <1>3, <1>4, <1>5, BroughtStays DEF PullInv, SeenOK
  <2> QED
    BY <2>1 DEF Due
<1>6. CASE c \in sync.todo
  BY <1>2, <1>6 DEF Due
<1>7. CASE c = sync.co /\ Coming(s)
  <2>1. CASE s[2] = f
    <3>1. s[2] \in Supported
      BY <1>3, SeenFacts DEF PullInv
    <3>2. \E d \in vault' \cup sync'.mine : d.art = s[2]
      <4>1. CASE Stored(f)
        BY <1>3, <1>4, <2>1, <4>1, StoredStays
      <4>2. CASE ~Stored(f)
        <5>1. Document(f) \in sync'.mine
          BY <1>2, <2>1, <3>1, <4>2
        <5>2. Document(f).art = f
          BY DEF Document
        <5> QED
          BY <2>1, <5>1, <5>2
      <4> QED
        BY <4>1, <4>2
    <3>3. Brought(c, s)'
      BY <1>3, <3>2 DEF Brought, Stored
    <3> QED
      BY <3>3 DEF Due
  <2>2. CASE s[2] # f
    <3>1. Coming(s)'
      <4> HIDE DEF f, mine
      <4> QED
        BY <1>2, <1>3, <1>7, <2>2 DEF Coming, Beyond
    <3> QED
      BY <1>2, <1>7, <3>1 DEF Due
  <2> QED
    BY <2>1, <2>2
<1> QED
  BY <1>5, <1>6, <1>7 DEF Due

LEMMA TurnPageOwes ==
  ASSUME PullInv, TurnPage, NEW s \in sync.seen, NEW c \in Mapped(s), Due(c, s)
  PROVE  Due(c, s)'
<1>1. /\ sync'.stage = (IF sync.more THEN "ask" ELSE "next")
      /\ sync'.after = sync.after /\ sync'.todo = sync.todo /\ sync'.co = sync.co
      /\ sync'.mine = sync.mine /\ sync'.wrote = sync.wrote
  BY SyncFields DEF TurnPage, PullInv, PullShape
<1>2. UNCHANGED <<vendor, vault>> /\ sync.stage = "page" /\ sync.page = {}
  BY DEF TurnPage, books
<1>3. CASE Brought(c, s)
  <2>1. Brought(c, s)'
    BY <1>1, <1>2, <1>3, BroughtStays DEF PullInv, SeenOK
  <2> QED
    BY <2>1 DEF Due
<1>4. CASE c \in sync.todo
  BY <1>1, <1>4 DEF Due
<1>5. CASE c = sync.co /\ Coming(s)
  <2>1. Coming(s)'
    BY <1>1, <1>2, <1>5 DEF Coming, Beyond
  <2> QED
    BY <1>1, <1>5, <2>1 DEF Due
<1> QED
  BY <1>3, <1>4, <1>5 DEF Due

(* The next company's turn. *)
LEMMA TurnOwes ==
  ASSUME PullInv, NEW d \in Companies, Turn(d), NEW s \in sync.seen, NEW c \in Mapped(s), Due(c, s)
  PROVE  Due(c, s)'
<1>1. /\ sync'.stage = "ask" /\ sync'.after = 0 /\ sync'.todo = sync.todo \ {d} /\ sync'.co = d
      /\ sync'.mine = sync.mine /\ sync'.wrote = sync.wrote
  BY SyncFields DEF Turn, PullInv, PullShape
<1>2. UNCHANGED <<vendor, vault>> /\ sync.stage = "next"
  BY DEF Turn, books
<1>3. CASE Brought(c, s)
  <2>1. Brought(c, s)'
    BY <1>1, <1>2, <1>3, BroughtStays DEF PullInv, SeenOK
  <2> QED
    BY <2>1 DEF Due
<1>4. CASE c \in sync.todo
  <2>1. vendor = "onedrive" => s[2] \in Nat /\ s[2] > 0
    BY SeenFacts DEF PullInv
  <2>2. Coming(s)'
    BY <1>1, <1>2, <2>1 DEF Coming, Beyond
  <2> QED
    BY <1>1, <1>4, <2>2 DEF Due
<1>5. ~Coming(s)
  BY <1>2 DEF Coming
<1> QED
  BY <1>3, <1>4, <1>5 DEF Due

(* An ownership is fetched. *)
LEMMA FetchShareOwes ==
  ASSUME PullInv, FetchShare, NEW s \in sync.seen, NEW c \in Mapped(s), Due(c, s)
  PROVE  Due(c, s)'
<1>1. vendor = "affinity" /\ UNCHANGED <<vendor, vault, remote>> /\ sync.stage = "ask"
  BY DEF FetchShare, books, affinityCompany
<1>2. CASE c \in sync.todo
  <2>1. sync'.todo = sync.todo
    BY SyncFields DEF FetchShare, PullInv, PullShape
  <2> QED
    BY <1>2, <2>1 DEF Due
<1>3. CASE mapAffinityCompany = Nothing \/ Held(sync.co) = {}
  <2>1. sync'.todo = sync.todo /\ sync'.mine = sync.mine /\ sync'.wrote = sync.wrote
    BY <1>3, SyncFields DEF FetchShare, PullInv, PullShape, Held
  <2>2. CASE Brought(c, s)
    <3>1. Brought(c, s)'
      BY <1>1, <2>1, <2>2, BroughtStays DEF PullInv, SeenOK
    <3> QED
      BY <3>1 DEF Due
  <2>3. CASE c = sync.co
    <3>1. s[2] = remote[Place] /\ remote[Place] # Gone /\ Place \in Places
      BY <1>1, <2>3, SeenFacts DEF PullInv, Place, Mapped
    <3>2. s[2] \in Shares \cup {Nothing}
      <4>1. Has("affinity") = Shares \cup {Nothing, Gone}
        BY DEF Has
      <4>2. remote[Place] \in Has("affinity")
        BY <1>1, <3>1 DEF PullInv, SeenOK
      <4> QED
        BY <3>1, <4>1, <4>2
    <3>3. s[2] = Nothing \/ Held(c) = {}
      BY <1>3, <2>3, <3>1, <3>2 DEF mapAffinityCompany
    <3>4. Brought(c, s)'
      BY <1>1, <3>3 DEF Brought
    <3> QED
      BY <3>4 DEF Due
  <2> QED
    BY <1>2, <2>2, <2>3 DEF Due
<1>4. CASE mapAffinityCompany # Nothing /\ Held(sync.co) # {}
  <2>1. PICK p \in Held(sync.co) :
          sync' = [sync EXCEPT !.stage = "next", !.wrote = Noted(sync.wrote, p, mapAffinityCompany)]
    BY <1>4 DEF FetchShare, Held
  <2>2. sync'.wrote = Noted(sync.wrote, p, mapAffinityCompany)
    BY <2>1, SyncFields DEF PullInv, PullShape
  <2>3. CASE c = sync.co
    <3>1. s[2] = remote[Place]
      BY <1>1, <2>3, SeenFacts DEF PullInv, Place, Mapped
    <3>2. mapAffinityCompany = remote[Place]
      BY <1>4 DEF mapAffinityCompany
    <3>3. p \in DOMAIN sync'.wrote /\ sync'.wrote[p] = s[2]
      BY <2>2, <3>1, <3>2 DEF Noted
    <3>4. Brought(c, s)'
      BY <1>1, <2>1, <2>3, <3>3 DEF Brought
    <3> QED
      BY <3>4 DEF Due
  <2>4. CASE c # sync.co /\ Brought(c, s)
    <3>1. ASSUME NEW q \in Held(c), q \in DOMAIN sync.wrote
          PROVE  q \in DOMAIN sync'.wrote /\ sync'.wrote[q] = sync.wrote[q]
      <4>1. q # p
        BY <2>1, <2>4, <3>1 DEF Held
      <4> QED
        BY <2>2, <3>1, <4>1 DEF Noted
    <3>2. Brought(c, s)'
      BY <1>1, <2>4, <3>1 DEF Brought
    <3> QED
      BY <3>2 DEF Due
  <2> QED
    BY <1>2, <2>3, <2>4 DEF Due
<1> QED
  BY <1>3, <1>4

(* A note is fetched. *)
LEMMA FetchNoteOwes ==
  ASSUME PullInv, FetchNote, NEW s \in sync.seen, NEW c \in Mapped(s), Due(c, s)
  PROVE  Due(c, s)'
<1> DEFINE mine == IF ~fetchGranolaNote \/ Stored(Place) THEN sync.mine ELSE sync.mine \cup {Document(Place)}
<1>1. sync' = [sync EXCEPT !.stage = "next", !.mine = mine]
  BY DEF FetchNote
<1>2. sync'.mine = mine /\ sync'.todo = sync.todo /\ sync'.wrote = sync.wrote
  <2> HIDE DEF mine
  <2> QED
    BY <1>1, SyncFields DEF PullInv, PullShape
<1>3. vendor = "granola" /\ UNCHANGED <<vendor, vault>>
  BY DEF FetchNote, books
<1>4. sync.mine \subseteq sync'.mine
  BY <1>2
<1>5. CASE Brought(c, s)
  <2>1. Brought(c, s)'
    BY <1>2, <1>3, <1>4, <1>5, BroughtStays DEF PullInv, SeenOK
  <2> QED
    BY <2>1 DEF Due
<1>6. CASE c \in sync.todo
  BY <1>2, <1>6 DEF Due
<1>7. CASE c = sync.co
  <2>1. s[1] = Place /\ remote[Place] # Gone /\ Place \in Places
    BY <1>7, SeenFacts DEF PullInv, Place, Mapped
  <2>2. fetchGranolaNote
    <3>1. Has("granola") = {"note", "large", Gone}
      BY DEF Has
    <3>2. remote[Place] \in Has("granola")
      BY <1>3, <2>1 DEF PullInv, SeenOK
    <3> QED
      BY <2>1, <3>1, <3>2 DEF fetchGranolaNote
  <2>3. \E d \in vault' \cup sync'.mine : d.art = s[1]
    <3>1. CASE Stored(Place)
      BY <1>3, <1>4, <2>1, <3>1, StoredStays
    <3>2. CASE ~Stored(Place)
      <4>1. Document(Place) \in sync'.mine
        BY <1>2, <2>2, <3>2
      <4>2. Document(Place).art = Place
        BY DEF Document
      <4> QED
        BY <2>1, <4>1, <4>2
    <3> QED
      BY <3>1, <3>2
  <2>4. Brought(c, s)'
    BY <1>3, <2>3 DEF Brought, Stored
  <2> QED
    BY <2>4 DEF Due
<1> QED
  BY <1>5, <1>6, <1>7 DEF Due

(* The beginning of a sync: all of what it has seen is due. *)
LEMMA BeginOwes ==
  ASSUME PullInv, Begin, ~UNCHANGED sync
  PROVE  DueOK' /\ SyncBringsAll'
<1> DEFINE place == [c \in Companies |-> rows[c].place]
           targets == {c \in Companies : place[c] # Nothing}
<1>1. sync' = [Idle EXCEPT !.stage = "next", !.todo = targets, !.place = place,
                           !.seen = UNION {Items(place[c]) : c \in targets}]
  BY DEF Begin
<1>2. /\ sync'.stage = "next" /\ sync'.seen = UNION {Items(place[c]) : c \in targets}
      /\ sync'.todo = targets /\ sync'.place = place
  BY <1>1 DEF Idle
<1>3. ASSUME NEW s \in sync'.seen
      PROVE  Mapped(s)' # {} /\ \A c \in Mapped(s)' : Due(c, s)'
  <2>1. PICK d \in targets : s \in Items(place[d])
    BY <1>2
  <2>2. s[1] = place[d]
    BY <2>1 DEF Items
  <2>3. Mapped(s)' = {c \in Companies : place[c] = s[1]}
    BY <1>2 DEF Mapped
  <2>4. d \in Mapped(s)'
    BY <2>1, <2>2, <2>3
  <2>5. ASSUME NEW c \in Mapped(s)' PROVE c \in targets
    BY <2>1, <2>2, <2>3, <2>5
  <2> QED
    BY <1>2, <2>4, <2>5 DEF Due
<1> QED
  BY <1>2, <1>3 DEF DueOK, SyncBringsAll

(* The end of a sync that found nothing left to do. *)
LEMMA SucceedBrings ==
  ASSUME PullInv, Succeed
  PROVE  DueOK' /\ SyncBringsAll'
<1>1. /\ sync'.stage = "done" /\ sync'.seen = sync.seen /\ sync'.place = sync.place /\ sync'.wrote = sync.wrote
      /\ vault' = vault \cup sync.mine /\ vendor' = vendor /\ sync.stage = "next" /\ sync.todo = {}
  BY SyncFields DEF Succeed, Commit, PullInv, PullShape
<1>2. ASSUME NEW s \in sync.seen PROVE Mapped(s) # {} /\ \A c \in Mapped(s) : Brought(c, s)
  BY <1>1 DEF PullInv, DueOK, Due, Coming
<1>3. ASSUME NEW s \in sync.seen, vendor = "onedrive" PROVE \E d \in vault' : d.art = s[2]
  BY <1>1, <1>2, <1>3 DEF Brought, Stored
<1>4. ASSUME NEW s \in sync.seen, vendor = "granola" PROVE \E d \in vault' : d.art = s[1]
  BY <1>1, <1>2, <1>4 DEF Brought, Stored
<1>5. ASSUME NEW s \in sync.seen, vendor = "affinity", NEW c \in Companies,
             sync.place[c] = s[1], s[2] # Nothing, Held(c) # {}
      PROVE  \E p \in Held(c) : p \in DOMAIN sync.wrote /\ sync.wrote[p] = s[2]
  BY <1>2, <1>5 DEF Brought, Mapped
<1>6. SyncBringsAll'
  <2>1. CASE vendor = "onedrive"
    BY <1>1, <1>3, <2>1 DEF SyncBringsAll
  <2>2. CASE vendor = "granola"
    BY <1>1, <1>4, <2>2 DEF SyncBringsAll
  <2>3. CASE vendor = "affinity"
    BY <1>1, <1>5, <2>3 DEF SyncBringsAll, Held
  <2> QED
    BY <2>1, <2>2, <2>3 DEF PullInv, SeenOK, Vendors
<1> QED
  BY <1>1, <1>6 DEF DueOK

LEMMA StepDue ==
  ASSUME PullInv, [PullNext]_pullVars
  PROVE  DueOK' /\ SyncBringsAll'
<1> DEFINE Goal == DueOK' /\ SyncBringsAll'
<1>1. ASSUME UNCHANGED <<vendor, vault>>, sync'.seen \subseteq sync.seen,
             \A f \in {"stage", "todo", "place", "co", "after", "page", "more", "mine", "wrote"} : sync'[f] = sync[f]
      PROVE  Goal
  <2>1. ASSUME NEW s \in sync.seen, NEW c, Due(c, s) PROVE Due(c, s)'
    BY <1>1, <2>1 DEF Due, Coming, Beyond, Brought, Stored
  <2>2. \A s \in sync'.seen : Mapped(s)' = Mapped(s)
    BY <1>1 DEF Mapped
  <2>3. DueOK'
    BY <1>1, <2>1, <2>2 DEF DueOK, PullInv
  <2>4. SyncBringsAll'
    <3>1. CASE vendor = "onedrive"
      BY <1>1, <3>1 DEF SyncBringsAll, PullInv
    <3>2. CASE vendor = "granola"
      BY <1>1, <3>2 DEF SyncBringsAll, PullInv
    <3>3. CASE vendor = "affinity"
      BY <1>1, <3>3 DEF SyncBringsAll, PullInv
    <3> QED
      BY <3>1, <3>2, <3>3 DEF PullInv, SeenOK, Vendors
  <2> QED
    BY <2>3, <2>4
<1>2. ASSUME UNCHANGED <<vendor, vault, sync>> PROVE Goal
  BY <1>1, <1>2
<1>3. ASSUME sync' = Idle \/ sync' = [Idle EXCEPT !.stage = "failed"] PROVE Goal
  <2>1. sync'.stage \in {"idle", "failed"}
    BY <1>3 DEF Idle
  <2> QED
    BY <2>1 DEF DueOK, SyncBringsAll
<1>4. ASSUME sync'.stage \in {"next", "ask", "page"}, sync'.stage = "page" => vendor' = "onedrive",
             sync.stage \in {"next", "ask", "page"},
             sync'.seen = sync.seen, sync'.place = sync.place,
             \A s \in sync.seen : \A c \in Mapped(s) : Due(c, s) => Due(c, s)'
      PROVE  Goal
  <2>1. \A s \in sync.seen : Mapped(s)' = Mapped(s)
    BY <1>4 DEF Mapped
  <2>2. DueOK'
    BY <1>4, <2>1 DEF DueOK, PullInv
  <2> QED
    BY <1>4, <2>2 DEF SyncBringsAll
<1>5. CASE UNCHANGED pullVars
  BY <1>2, <1>5 DEF pullVars, books
<1>6. ASSUME NEW x \in Places, NEW v \in Has(vendor), Move(x, v) PROVE Goal
  <2>1. UNCHANGED <<vendor, vault>>
    BY <1>6 DEF Move, books
  <2>2. /\ sync'.seen \subseteq sync.seen
        /\ \A f \in {"stage", "todo", "place", "co", "after", "page", "more", "mine", "wrote"} : sync'[f] = sync[f]
    BY <1>6, SyncFields DEF Move, PullInv, PullShape
  <2> QED
    BY <1>1, <2>1, <2>2
<1>7. CASE TokenExpires
  BY <1>2, <1>7 DEF TokenExpires, books
<1>8. CASE Begin
  <2>1. CASE UNCHANGED sync
    BY <1>2, <1>8, <2>1 DEF Begin, books
  <2> QED
    BY <1>8, <2>1, BeginOwes
<1>9. CASE ListPage
  <2>1. /\ sync'.stage = "page" /\ vendor' = "onedrive" /\ sync.stage = "ask"
        /\ sync'.seen = sync.seen /\ sync'.place = sync.place
    BY <1>9, SyncFields DEF ListPage, PullInv, PullShape
  <2> QED
    BY <1>4, <1>9, <2>1, ListPageOwes
<1>10. CASE TakeFile
  <2>1. /\ sync'.stage = "page" /\ vendor' = "onedrive" /\ sync.stage = "page"
        /\ sync'.seen = sync.seen /\ sync'.place = sync.place
    BY <1>10, SyncFields DEF TakeFile, PullInv, PullShape, DueOK
  <2> QED
    BY <1>4, <1>10, <2>1, TakeFileOwes
<1>11. CASE TurnPage
  <2>1. /\ sync'.stage \in {"ask", "next"} /\ sync.stage = "page"
        /\ sync'.seen = sync.seen /\ sync'.place = sync.place
    BY <1>11, SyncFields DEF TurnPage, PullInv, PullShape
  <2> QED
    BY <1>4, <1>11, <2>1, TurnPageOwes
<1>12. CASE FetchShare
  <2>1. /\ sync'.stage = "next" /\ sync.stage = "ask"
        /\ sync'.seen = sync.seen /\ sync'.place = sync.place
    BY <1>12, SyncFields DEF FetchShare, PullInv, PullShape
  <2> QED
    BY <1>4, <1>12, <2>1, FetchShareOwes
<1>13. CASE FetchNote
  <2>1. /\ sync'.stage = "next" /\ sync.stage = "ask"
        /\ sync'.seen = sync.seen /\ sync'.place = sync.place
    BY <1>13, SyncFields DEF FetchNote, PullInv, PullShape
  <2> QED
    BY <1>4, <1>13, <2>1, FetchNoteOwes
<1>14. CASE Fail
  BY <1>3, <1>14 DEF Fail
<1>15. CASE Succeed
  BY <1>15, SucceedBrings
<1>16. CASE Return
  BY <1>3, <1>16 DEF Return
<1>17. ASSUME NEW d \in Companies, Turn(d) PROVE Goal
  <2>1. /\ sync'.stage = "ask" /\ sync.stage = "next"
        /\ sync'.seen = sync.seen /\ sync'.place = sync.place
    BY <1>17, SyncFields DEF Turn, PullInv, PullShape
  <2> QED
    BY <1>4, <1>17, <2>1, TurnOwes
<1>18. ASSUME NEW e \in Editors, NEW x \in DOMAIN rows, EditRead(e, x) PROVE Goal
  BY <1>2, <1>18 DEF EditRead, books
<1>19. ASSUME NEW e \in Editors, NEW patch \in Bodies, EditWrite(e, patch) PROVE Goal
  BY <1>2, <1>19 DEF EditWrite
<1> QED
  BY <1>5, <1>6, <1>7, <1>8, <1>9, <1>10, <1>11, <1>12, <1>13, <1>14, <1>15, <1>16, <1>17, <1>18, <1>19
     DEF PullNext

LEMMA StepPull ==
  ASSUME PullInv, RowsLostOnlyByOverlap, [PullNext]_pullVars
  PROVE  (PullInv /\ RowsLostOnlyByOverlap)'
BY StepSync, StepRows, StepSeen, StepDue DEF PullInv, PullShape

(* A sync that reports connected has brought all that stood in the places  *)
(* it read from its begin to its end, whatever the number of companies,    *)
(* files, pages and moves.  The loops of connector-jobs.ts over companies, *)
(* pages and files.                                                        *)
THEOREM NothingIsPassedOver == PullSpec => []SyncBringsAll
<1>1. PullInit => PullInv /\ RowsLostOnlyByOverlap
  BY InitPull, InitSeen DEF PullInv
<1>2. PullInv /\ RowsLostOnlyByOverlap /\ [PullNext]_pullVars => (PullInv /\ RowsLostOnlyByOverlap)'
  BY StepPull
<1>3. PullInv => SyncBringsAll
  BY DEF PullInv
<1> QED
  BY <1>1, <1>2, <1>3, PTL DEF PullSpec
-----------------------------------------------------------------------------
(***************************************************************************)
(* What a parse reads: only what stands under a metric's own name passes   *)
(* the gate of auto-confirm.                                               *)
(***************************************************************************)
(* A proposal that the gate lets pass was read under a metric's own name,  *)
(* not in a memo, and of money in a unit the document names.               *)
ProposalFields == {"kind", "key", "unit", "confidence", "via", "label", "value", "period", "cell", "page", "excerpt"}

Earned(p) ==
  /\ p.via = "cell" /\ kind # "docx"
  /\ Catalog[p.key].family = "money" => p.unit \in p.label.units \cup HeadUnits

ProposalOK(p) ==
  /\ DOMAIN p = ProposalFields
  /\ p.confidence \in Int
  /\ p.kind = "metric" /\ p.confidence >= 50 => Earned(p)

OwnBookOK == \A k \in (DOMAIN own) \cap Keys : own[k].aliases \subseteq DOMAIN Length

ReadOK == stage = "assist" => \A p \in read.found : ProposalOK(p)

SheetInv ==
  /\ OwnBookOK
  /\ ReadOK
  /\ stage # "done" => book = {}
  /\ GuessesAreReviewed
-----------------------------------------------------------------------------
(* Among finitely many texts one is longest. *)
LEMMA LongestIs ==
  ASSUME NEW found, IsFiniteSet(found), found # {},
         \A f \in found : Length[f[2]] \in Nat
  PROVE  Longest(found) \in found
<1> DEFINE Longer(f) == {g \in found : Length[g[2]] > Length[f[2]]}
           Sizes == {Cardinality(Longer(f)) : f \in found}
<1>1. ASSUME NEW f \in found
      PROVE  IsFiniteSet(Longer(f)) /\ Cardinality(Longer(f)) \in Nat
  <2>1. Longer(f) \in SUBSET found
    OBVIOUS
  <2>2. IsFiniteSet(Longer(f))
    BY <2>1, FS_Subset
  <2> QED
    BY <2>2, FS_CardinalityType
<1>2. Sizes \subseteq Nat /\ Sizes # {}
  BY <1>1
<1>3. PICK n \in Sizes : \A k \in Sizes : ~(<<k, n>> \in OpToRel(<, Nat))
  <2> HIDE DEF Sizes
  <2> QED
    BY <1>2, WFMin, NatLessThanWellFounded
<1>4. n \in Nat /\ \A k \in Sizes : ~(k < n)
  <2> HIDE DEF Sizes
  <2> QED
    BY <1>2, <1>3 DEF OpToRel
<1>5. PICK f \in found : n = Cardinality(Longer(f))
  BY <1>3
<1>6. ASSUME NEW g \in found PROVE Length[f[2]] >= Length[g[2]]
  <2> SUFFICES ASSUME Length[g[2]] > Length[f[2]] PROVE FALSE
    OBVIOUS
  <2>1. Longer(g) \subseteq Longer(f) /\ g \in Longer(f) /\ g \notin Longer(g)
    OBVIOUS
  <2>2. Cardinality(Longer(g)) < Cardinality(Longer(f))
    <3> HIDE DEF Longer
    <3>1. /\ Cardinality(Longer(g)) <= Cardinality(Longer(f))
          /\ Cardinality(Longer(f)) = Cardinality(Longer(g)) => Longer(f) = Longer(g)
      BY <1>1, <2>1, FS_Subset
    <3> QED
      BY <1>1, <2>1, <3>1
  <2>3. Cardinality(Longer(g)) \in Sizes
    OBVIOUS
  <2> HIDE DEF Sizes, Longer
  <2> QED
    BY <1>4, <1>5, <2>2, <2>3
<1> QED
  BY <1>6 DEF Longest

LEMMA BookIs ==
  ASSUME OwnBookOK, NEW k \in Keys
  PROVE  /\ resolveMetricCatalog[k].family = Catalog[k].family
         /\ Aliases(resolveMetricCatalog, k) \subseteq DOMAIN Length
BY SheetReaderAssumption DEF OwnBookOK, resolveMetricCatalog, Aliases, Of

(* A label is matched with a metric of the catalog or with none. *)
LEMMA MatchIs ==
  ASSUME NEW label, NEW catalog, \A k \in Keys : Aliases(catalog, k) \subseteq DOMAIN Length
  PROVE  matchMetricAlias(label, catalog) \in Keys \cup {Null}
<1> DEFINE exact == {k \in Keys : label.text \in Aliases(catalog, k)}
           inside == {f \in Keys \X label.contains : f[2] \in Aliases(catalog, f[1])}
<1>1. CASE exact # {}
  BY <1>1 DEF matchMetricAlias
<1>2. CASE exact = {} /\ inside # {}
  <2>1. \A f \in inside : f \in Keys \X DOMAIN Length
    OBVIOUS
  <2>2. IsFiniteSet(Keys \X DOMAIN Length)
    BY SheetReaderAssumption, FS_Product
  <2>3. IsFiniteSet(inside)
    <3>1. inside \in SUBSET (Keys \X DOMAIN Length)
      BY <2>1
    <3> HIDE DEF inside
    <3> QED
      BY <2>2, <3>1, FS_Subset
  <2>4. \A f \in inside : Length[f[2]] \in Nat
    BY <2>1, SheetReaderAssumption
  <2>5. Longest(inside) \in inside
    <3> HIDE DEF inside
    <3> QED
      BY <1>2, <2>3, <2>4, LongestIs
  <2>6. Longest(inside)[1] \in Keys
    BY <2>5
  <2> QED
    BY <1>2, <2>6 DEF matchMetricAlias
<1>3. CASE exact = {} /\ inside = {}
  BY <1>3 DEF matchMetricAlias
<1> QED
  BY <1>1, <1>2, <1>3

LEMMA UnitIs ==
  ASSUME NEW units, detectUnit(units) \notin {"unknown", "ambiguous"}
  PROVE  detectUnit(units) \in units
BY DEF detectUnit

(* What a cell gives before the cap of its document's kind. *)
LEMMA CellIs ==
  ASSUME OwnBookOK, NEW lines, NEW r, NEW c,
         NEW catalog \in {Catalog, resolveMetricCatalog}, NEW p \in ProposalsAt(lines, r, c, catalog)
  PROVE  /\ DOMAIN p = ProposalFields
         /\ p.confidence \in Int
         /\ p.kind = "metric" /\ p.confidence >= 50 =>
              /\ p.via = "cell"
              /\ Catalog[p.key].family = "money" => p.unit \in p.label.units \cup HeadUnits
<1> DEFINE label   == lines[r].label
           cell    == lines[r].cells[c]
           unit    == detectUnit(label.units \cup HeadUnits)
           exact   == matchMetricAlias(label, catalog)
           near    == exact = Null
           key     == IF near THEN suggestCatalogMetricFuzzy(label) ELSE exact
           unclear == \/ unit = "ambiguous"
                      \/ exact # Null /\ catalog[exact].family = "money" /\ unit = "unknown"
           found(what, named, in, sure, how) ==
             [kind |-> what, key |-> named, unit |-> in, confidence |-> sure, via |-> how,
              label |-> label, value |-> parseNumber(cell), period |-> Period(label, c),
              cell |-> CitedCell(r, c), page |-> kind \in {"pdf", "pdf_page", "pdf_text"},
              excerpt |-> <<label, cell>>]
           named == IF unit # "unknown" THEN unit ELSE IF near THEN Catalog[key].unit ELSE catalog[key].unit
           ambiguous == found("unit_ambiguity", exact, "unknown", 35, "cell")
           metric == found("metric", key, named, confidenceOf(near, unit), IF near THEN "likeness" ELSE "cell")
<1>1. \/ unclear /\ p = ambiguous
      \/ ~unclear /\ p = metric
  BY DEF ProposalsAt
<1>2. CASE unclear /\ p = ambiguous
  BY <1>2 DEF ProposalFields
<1>3. CASE ~unclear /\ p = metric
  <2>1. /\ DOMAIN p = ProposalFields /\ p.confidence = confidenceOf(near, unit)
        /\ p.via = (IF near THEN "likeness" ELSE "cell") /\ p.key = key /\ p.unit = named /\ p.label = label
    <3> HIDE DEF label, cell, unit, key, near, named
    <3> QED
      BY <1>3 DEF ProposalFields
  <2>2. p.confidence \in Int /\ (near => p.confidence = 48)
    BY <2>1 DEF confidenceOf
  <2>3. CASE near
    BY <2>1, <2>2, <2>3
  <2>4. CASE ~near
    <3>1. exact \in Keys
      <4>1. \A k \in Keys : Aliases(catalog, k) \subseteq DOMAIN Length
        BY BookIs, SheetReaderAssumption DEF Aliases
      <4> HIDE DEF label
      <4> QED
        BY <2>4, <4>1, MatchIs
    <3>2. catalog[exact].family = Catalog[exact].family
      <4> HIDE DEF exact
      <4> QED
        BY <3>1, BookIs
    <3>3. ASSUME Catalog[p.key].family = "money" PROVE p.unit \in p.label.units \cup HeadUnits
      <4>1. unit \notin {"unknown", "ambiguous"}
        <5>1. p.key = exact
          BY <2>1, <2>4
        <5> HIDE DEF exact, unit
        <5> QED
          BY <1>3, <2>4, <3>2, <3>3, <5>1
      <4>2. unit \in label.units \cup HeadUnits
        <5> HIDE DEF label
        <5> QED
          BY <4>1, UnitIs
      <4>3. p.unit = unit
        <5> HIDE DEF unit, key, near
        <5> QED
          BY <2>1, <4>1
      <4> HIDE DEF unit, label
      <4> QED
        BY <2>1, <4>2, <4>3
    <3> HIDE DEF label, unit, near, key, named, exact
    <3> QED
      BY <2>1, <2>2, <2>4, <3>3
  <2> QED
    BY <2>3, <2>4
<1> QED
  BY <1>1, <1>2, <1>3

(* A memo is capped below the lowest threshold. *)
LEMMA CappedIs ==
  ASSUME NEW n \in Int
  PROVE  /\ Least(n, Cap) \in Int
         /\ Least(n, Cap) >= 50 => n >= 50 /\ kind # "docx"
BY DEF Least, Cap

LEMMA ExtractIs ==
  ASSUME OwnBookOK, NEW p \in extractBuffer
  PROVE  ProposalOK(p)
<1> DEFINE lines == RowsRead
           catalog == IF kind \in {"xlsx", "csv"} THEN resolveMetricCatalog ELSE Catalog
           found == extractFromRows(lines, catalog)
           capped == {[q EXCEPT !.confidence = Least(q.confidence, Cap)] : q \in found}
<1>1. p \in capped
  BY DEF extractBuffer, dedupeProposals
<1>2. PICK q \in found : p = [q EXCEPT !.confidence = Least(q.confidence, Cap)]
  BY <1>1
<1>3. PICK r, c : q \in ProposalsAt(lines, r, c, catalog)
  BY DEF extractFromRows
<1>4. /\ DOMAIN q = ProposalFields
      /\ q.confidence \in Int
      /\ q.kind = "metric" /\ q.confidence >= 50 =>
           /\ q.via = "cell"
           /\ Catalog[q.key].family = "money" => q.unit \in q.label.units \cup HeadUnits
  <2>1. catalog \in {Catalog, resolveMetricCatalog}
    OBVIOUS
  <2> HIDE DEF catalog, lines
  <2> QED
    BY <1>3, <2>1, CellIs
<1>5. /\ p.confidence = Least(q.confidence, Cap)
      /\ DOMAIN p = ProposalFields
      /\ p.kind = q.kind /\ p.via = q.via /\ p.key = q.key /\ p.unit = q.unit /\ p.label = q.label
  BY <1>2, <1>4 DEF ProposalFields
<1>6. p.confidence \in Int /\ (p.confidence >= 50 => q.confidence >= 50 /\ kind # "docx")
  BY <1>4, <1>5, CappedIs
<1> QED
  BY <1>4, <1>5, <1>6 DEF ProposalOK, Earned

(* What the model proposes stays below every threshold. *)
LEMMA AssistIs ==
  ASSUME NEW replies, NEW p \in parseExtractAssistJson(replies)
  PROVE  ProposalOK(p)
<1>1. PICK reply \in replies : p \in Resolved(reply)
  BY DEF parseExtractAssistJson
<1>2. DOMAIN p = ProposalFields /\ p.confidence \in {35, 45}
  BY <1>1 DEF Resolved, ProposalFields
<1> QED
  BY <1>2 DEF ProposalOK

LEMMA MergeIsOfBoth ==
  ASSUME NEW found, NEW assisted, NEW p \in mergeExtractProposals(found, assisted)
  PROVE  p \in found \/ p \in assisted
<1> DEFINE extra == {x \in assisted : ~\E q \in found : Alike(x, q)}
<1>1. CASE p \notin found
  <2>1. PICK q \in extra : p = CHOOSE x \in extra : Alike(x, q)
    BY <1>1 DEF mergeExtractProposals
  <2>2. Alike(q, q)
    BY DEF Alike
  <2>3. p \in extra
    <3> HIDE DEF extra
    <3> QED
      BY <2>1, <2>2
  <2> QED
    BY <2>3
<1> QED
  BY <1>1

LEMMA MergeIs ==
  ASSUME NEW found, NEW assisted, \A p \in found \cup assisted : ProposalOK(p),
         NEW p \in mergeExtractProposals(found, assisted)
  PROVE  ProposalOK(p)
BY MergeIsOfBoth

(* What the transaction of a parse puts in the book. *)
LEMMA WriteIs ==
  ASSUME NEW proposals, \A q \in proposals : ProposalOK(q), NEW min,
         Write(proposals, min), UNCHANGED <<kind, head, ledger>>
  PROVE  GuessesAreReviewed'
<1>1. ASSUME NEW p \in book' PROVE Corrected(p) \/ Earned(p)
  <2>1. PICK q \in proposals : p = applyCorrectionLedger(q)
    BY DEF Write
  <2>2. shouldAutoConfirm(p, min)
    BY DEF Write
  <2>3. CASE p = q
    <3>1. min \in Int /\ min >= 50 /\ p.confidence >= min /\ p.kind = "metric"
      BY <2>2 DEF shouldAutoConfirm
    <3> QED
      BY <2>1, <2>3, <3>1 DEF ProposalOK
  <2>4. CASE p # q
    <3> DEFINE c == CHOOSE x \in Correction(q) : TRUE
    <3>1. Correction(q) # {} /\ p = [q EXCEPT !.value = c.value, !.confidence = 99]
      BY <2>1, <2>4 DEF applyCorrectionLedger
    <3>2. c \in Correction(q)
      BY <3>1
    <3>3. p.key = q.key /\ p.period = q.period /\ p.value = c.value
      <4> HIDE DEF c
      <4> QED
        BY <2>1, <3>1 DEF ProposalOK, ProposalFields
    <3> HIDE DEF c
    <3> QED
      BY <3>2, <3>3 DEF Correction, Corrected
  <2> QED
    BY <2>3, <2>4
<1>2. \A p \in book' : Corrected(p)' \/ Earned(p)'
  BY <1>1 DEF Corrected, Earned, HeadUnits
<1> QED
  BY <1>2 DEF GuessesAreReviewed, Earned
-----------------------------------------------------------------------------
LEMMA InitSheet == SheetInit => SheetInv
<1> SUFFICES ASSUME SheetInit PROVE SheetInv
  OBVIOUS
<1>1. DOMAIN own = {}
  <2>1. own = <<>>
    BY DEF SheetInit
  <2> QED
    BY <2>1
<1> QED
  BY <1>1 DEF SheetInit, SheetInv, OwnBookOK, ReadOK, GuessesAreReviewed

LEMMA StepSheet ==
  ASSUME SheetInv, [SheetNext]_sheetVars
  PROVE  SheetInv'
<1> USE DEF SheetInv
<1>1. ASSUME UNCHANGED <<kind, head, own, ledger, read, book, stage>> PROVE SheetInv'
  BY <1>1 DEF OwnBookOK, ReadOK, ProposalOK, Earned, HeadUnits, GuessesAreReviewed, Corrected
<1>2. ASSUME NEW r, WriteRow(r) PROVE SheetInv'
  BY <1>1, <1>2 DEF WriteRow, settings
<1>3. ASSUME NEW t, SaveThreshold(t) PROVE SheetInv'
  BY <1>1, <1>3 DEF SaveThreshold
<1>4. ASSUME NEW b \in Books, SaveFormulaBook(b) PROVE SheetInv'
  <2>1. OwnBookOK'
    BY <1>4, SheetReaderAssumption DEF SaveFormulaBook, OwnBookOK
  <2>2. UNCHANGED <<kind, head, ledger, read, book, stage>>
    BY <1>4 DEF SaveFormulaBook
  <2> QED
    BY <2>1, <2>2 DEF ReadOK, ProposalOK, Earned, HeadUnits, GuessesAreReviewed, Corrected
<1>5. ASSUME NEW c, Correct(c) PROVE SheetInv'
  <2>1. book = {} /\ UNCHANGED <<kind, head, own, read, book, stage>>
    BY <1>5 DEF Correct, settings
  <2> QED
    BY <2>1 DEF OwnBookOK, ReadOK, ProposalOK, Earned, HeadUnits, GuessesAreReviewed
<1>6. CASE RunParse
  <2>1. UNCHANGED <<kind, head, own, ledger>> /\ read'.found = extractBuffer
    BY <1>6 DEF RunParse, settings
  <2>2. OwnBookOK'
    BY <2>1 DEF OwnBookOK
  <2>3. ReadOK'
    BY <2>1, ExtractIs DEF ReadOK, ProposalOK, Earned, HeadUnits
  <2>4. CASE AssistWanted(extractBuffer)
    <3>1. book' = {}
      BY <1>6, <2>4 DEF RunParse
    <3> QED
      BY <2>2, <2>3, <3>1 DEF GuessesAreReviewed
  <2>5. CASE ~AssistWanted(extractBuffer)
    <3>1. Write(extractBuffer, threshold)
      BY <1>6, <2>5 DEF RunParse
    <3>2. GuessesAreReviewed'
      BY <2>1, <3>1, ExtractIs, WriteIs
    <3>3. stage' = "done"
      BY <3>1 DEF Write
    <3> QED
      BY <2>2, <2>3, <3>2, <3>3
  <2> QED
    BY <2>4, <2>5
<1>7. ASSUME NEW replies, Assisted(replies) PROVE SheetInv'
  <2> DEFINE merged == mergeExtractProposals(read.found, parseExtractAssistJson(replies))
  <2>1. UNCHANGED <<kind, head, own, ledger, read>> /\ stage = "assist" /\ Write(merged, read.min)
    BY <1>7 DEF Assisted, settings
  <2>2. \A p \in merged : ProposalOK(p)
    <3>1. \A p \in read.found \cup parseExtractAssistJson(replies) : ProposalOK(p)
      BY <2>1, AssistIs DEF ReadOK
    <3> QED
      BY <3>1, MergeIs
  <2>3. GuessesAreReviewed'
    <3> HIDE DEF merged
    <3> QED
      BY <2>1, <2>2, WriteIs
  <2>4. stage' = "done"
    BY <2>1 DEF Write
  <2>5. OwnBookOK'
    BY <2>1 DEF OwnBookOK
  <2> QED
    BY <2>3, <2>4, <2>5 DEF ReadOK
<1>8. CASE UNCHANGED sheetVars
  BY <1>1, <1>8 DEF sheetVars, settings
<1> QED
  BY <1>2, <1>3, <1>4, <1>5, <1>6, <1>7, <1>8 DEF SheetNext

(* Only what was read under a metric's own name goes into the book without *)
(* a person, and of money only in a unit the document names, unless it     *)
(* carries the value of a correction - whatever the catalog, the book of   *)
(* the organisation, the document, the replies of the model and the        *)
(* threshold.  The confidences of extract.ts and the gate of ops.ts.       *)
THEOREM OnlyReadingsPassTheGate == SheetSpec => []GuessesAreReviewed
<1>1. SheetInv => GuessesAreReviewed
  BY DEF SheetInv
<1> QED
  BY <1>1, InitSheet, StepSheet, PTL DEF SheetSpec
-----------------------------------------------------------------------------
(* Letters and numbers.  What is true of every number if it is true of all *)
(* smaller ones is shown of the least of which it is not.                  *)
LEMMA LeastNumber ==
  ASSUME NEW S \in SUBSET Nat, S # {}
  PROVE  \E n \in S : \A m \in S : n <= m
<1>1. PICK n \in S : \A m \in S : ~(<<m, n>> \in OpToRel(<, Nat))
  BY WFMin, NatLessThanWellFounded
<1>2. \A m \in S : ~(m < n)
  BY <1>1 DEF OpToRel
<1> QED
  BY <1>2

LEMMA Quotient ==
  ASSUME NEW n \in Nat, n # 0
  PROVE  /\ (n - 1) \div 26 \in Nat /\ (n - 1) \div 26 < n
         /\ ((n - 1) % 26) + 1 \in Nat
         /\ n = ((n - 1) \div 26) * 26 + (((n - 1) % 26) + 1)
OBVIOUS

(* f gives the letters of each number of N. *)
Prior(n) == (n - 1) \div 26
Letter(n) == ((n - 1) % 26) + 1
Letters(f, N) == f = [n \in N |-> IF n = 0 THEN <<>> ELSE Append(f[Prior(n)], Letter(n))]

LEMMA PriorIs ==
  ASSUME NEW n \in Nat, n # 0
  PROVE  Prior(n) \in Nat /\ Prior(n) < n /\ Letter(n) \in Nat /\ n = Prior(n) * 26 + Letter(n)
BY Quotient DEF Prior, Letter

LEMMA LettersIs ==
  ASSUME NEW f, NEW N, Letters(f, N), NEW n \in N
  PROVE  f[n] = IF n = 0 THEN <<>> ELSE Append(f[Prior(n)], Letter(n))
BY DEF Letters

LEMMA LettersAreUnique ==
  ASSUME NEW f, NEW g, NEW n \in Nat, NEW m \in Nat, Letters(f, 0..n), Letters(g, 0..m),
         NEW k \in Nat, k <= n, k <= m
  PROVE  f[k] = g[k]
<1> DEFINE B == {i \in Nat : i <= n /\ i <= m /\ f[i] # g[i]}
<1> SUFFICES ASSUME B # {} PROVE FALSE
  OBVIOUS
<1>1. PICK i \in B : \A j \in B : i <= j
  <2>1. B \in SUBSET Nat
    OBVIOUS
  <2> HIDE DEF B
  <2> QED
    BY <2>1, LeastNumber
<1>2. i \in 0..n /\ i \in 0..m /\ i \in Nat /\ f[i] # g[i]
  OBVIOUS
<1>3. f[i] = IF i = 0 THEN <<>> ELSE Append(f[Prior(i)], Letter(i))
  <2> HIDE DEF B
  <2> QED
    BY <1>2, LettersIs
<1>4. g[i] = IF i = 0 THEN <<>> ELSE Append(g[Prior(i)], Letter(i))
  <2> HIDE DEF B
  <2> QED
    BY <1>2, LettersIs
<1>5. i # 0
  BY <1>2, <1>3, <1>4
<1>6. Prior(i) \in Nat /\ Prior(i) < i
  BY <1>2, <1>5, PriorIs
<1>7. Prior(i) \notin B /\ Prior(i) <= n /\ Prior(i) <= m
  <2>1. Prior(i) <= n /\ Prior(i) <= m /\ ~(i <= Prior(i))
    BY <1>2, <1>6
  <2> HIDE DEF B
  <2> QED
    BY <1>1, <2>1
<1>8. f[Prior(i)] = g[Prior(i)]
  BY <1>6, <1>7
<1> QED
  BY <1>2, <1>3, <1>4, <1>8

LEMMA LettersExist ==
  ASSUME NEW n \in Nat
  PROVE  \E f : Letters(f, 0..n)
<1> DEFINE B == {i \in Nat : ~\E f : Letters(f, 0..i)}
<1> SUFFICES ASSUME B # {} PROVE FALSE
  OBVIOUS
<1>1. PICK m \in B : \A j \in B : m <= j
  <2>1. B \in SUBSET Nat
    OBVIOUS
  <2> HIDE DEF B
  <2> QED
    BY <2>1, LeastNumber
<1> DEFINE Part(i) == CHOOSE f : Letters(f, 0..i)
           At(i) == Part(i)[i]
           f == [i \in 0..m |-> IF i = 0 THEN <<>> ELSE Append(At(Prior(i)), Letter(i))]
<1>2. ASSUME NEW i \in Nat, i < m PROVE Letters(Part(i), 0..i)
  <2>1. i \notin B
    <3>1. m \in Nat /\ ~(m <= i)
      BY <1>2
    <3> HIDE DEF B
    <3> QED
      BY <1>1, <3>1
  <2> QED
    BY <2>1
<1>3. m \in Nat
  OBVIOUS
<1> HIDE DEF Part
<1>4. ASSUME NEW i \in Nat, i < m PROVE At(i) = f[i]
  <2>1. Letters(Part(i), 0..i) /\ i \in 0..i /\ i \in 0..m
    BY <1>2, <1>3, <1>4
  <2>2. At(i) = IF i = 0 THEN <<>> ELSE Append(Part(i)[Prior(i)], Letter(i))
    BY <2>1, LettersIs
  <2>3. CASE i = 0
    BY <2>1, <2>2, <2>3
  <2>4. CASE i # 0
    <3>1. Prior(i) \in Nat /\ Prior(i) < i /\ Prior(i) < m
      BY <1>3, <1>4, <2>4, PriorIs
    <3>2. Letters(Part(Prior(i)), 0..Prior(i))
      BY <1>2, <3>1
    <3>3. Part(i)[Prior(i)] = At(Prior(i))
      BY <2>1, <3>1, <3>2, LettersAreUnique
    <3> QED
      BY <2>1, <2>2, <2>4, <3>3
  <2> QED
    BY <2>3, <2>4
<1>5. Letters(f, 0..m)
  <2>1. ASSUME NEW i \in 0..m, i # 0 PROVE At(Prior(i)) = f[Prior(i)]
    <3>1. Prior(i) \in Nat /\ Prior(i) < m
      BY <1>3, <2>1, PriorIs
    <3> HIDE DEF At, f
    <3> QED
      BY <1>4, <3>1
  <2>2. f = [i \in 0..m |-> IF i = 0 THEN <<>> ELSE Append(f[Prior(i)], Letter(i))]
    <3> HIDE DEF At
    <3> QED
      BY <2>1
  <2> HIDE DEF f
  <2> QED
    BY <2>2 DEF Letters
<1> QED
  BY <1>5

LEMMA ColumnsExist == \E f : Letters(f, Nat)
<1> DEFINE Part(i) == CHOOSE f : Letters(f, 0..i)
           At(i) == Part(i)[i]
           f == [i \in Nat |-> At(i)]
<1>1. ASSUME NEW i \in Nat PROVE Letters(Part(i), 0..i)
  BY LettersExist
<1> HIDE DEF Part
<1>2. ASSUME NEW i \in Nat PROVE At(i) = IF i = 0 THEN <<>> ELSE Append(f[Prior(i)], Letter(i))
  <2>1. Letters(Part(i), 0..i) /\ i \in 0..i
    BY <1>1
  <2>2. At(i) = IF i = 0 THEN <<>> ELSE Append(Part(i)[Prior(i)], Letter(i))
    BY <2>1, LettersIs
  <2>3. CASE i = 0
    BY <2>2, <2>3
  <2>4. CASE i # 0
    <3>1. Prior(i) \in Nat /\ Prior(i) < i
      BY <2>4, PriorIs
    <3>2. Letters(Part(Prior(i)), 0..Prior(i))
      BY <1>1, <3>1
    <3>3. Part(i)[Prior(i)] = At(Prior(i))
      BY <2>1, <3>1, <3>2, LettersAreUnique
    <3>4. f[Prior(i)] = At(Prior(i))
      BY <3>1
    <3> HIDE DEF At, f
    <3> QED
      BY <2>2, <2>4, <3>3, <3>4
  <2> QED
    BY <2>3, <2>4
<1>3. f = [i \in Nat |-> IF i = 0 THEN <<>> ELSE Append(f[Prior(i)], Letter(i))]
  <2> HIDE DEF At
  <2> QED
    BY <1>2
<1> HIDE DEF f
<1> QED
  BY <1>3 DEF Letters

LEMMA ColumnIs ==
  ASSUME NEW n \in Nat
  PROVE  colToLetter[n] = IF n = 0 THEN <<>> ELSE Append(colToLetter[Prior(n)], Letter(n))
<1>1. colToLetter = CHOOSE f : Letters(f, Nat)
  BY DEF colToLetter, Letters, Prior, Letter
<1>2. Letters(colToLetter, Nat)
  BY <1>1, ColumnsExist
<1> QED
  BY <1>2, LettersIs
-----------------------------------------------------------------------------
(* The number of a word, as FoldLeft computes it: of each set of places,   *)
(* from the last one.                                                      *)
LEMMA LeastPart ==
  ASSUME NEW S, IsFiniteSet(S), NEW B \in SUBSET (SUBSET S), B # {}
  PROVE  \E s \in B : \A w \in B : w \subseteq s => w = s
<1> DEFINE Sizes == {Cardinality(s) : s \in B}
<1>1. \A s \in B : IsFiniteSet(s) /\ Cardinality(s) \in Nat
  BY FS_Subset, FS_CardinalityType
<1>2. Sizes \in SUBSET Nat /\ Sizes # {}
  BY <1>1
<1>3. PICK n \in Sizes : \A k \in Sizes : n <= k
  <2> HIDE DEF Sizes
  <2> QED
    BY <1>2, LeastNumber
<1>4. PICK s \in B : n = Cardinality(s)
  BY <1>3
<1>5. ASSUME NEW w \in B, w \subseteq s PROVE w = s
  <2>1. Cardinality(w) <= Cardinality(s) /\ (Cardinality(s) = Cardinality(w) => s = w)
    BY <1>1, <1>5, FS_Subset
  <2>2. Cardinality(w) \in Sizes
    OBVIOUS
  <2>3. n <= Cardinality(w)
    <3> HIDE DEF Sizes
    <3> QED
      BY <1>3, <2>2
  <2> HIDE DEF Sizes
  <2> QED
    BY <1>1, <1>4, <2>1, <2>3
<1> QED
  BY <1>5

Earlier(s) == s \ {Max(s)}
Counts(w, n, col) ==
  col = [s \in SUBSET (1..n) |-> IF s = {} THEN 0 ELSE col[Earlier(s)] * 26 + w[Max(s)]]

LEMMA PlaceIs ==
  ASSUME NEW n \in Nat, NEW s \in SUBSET (1..n), NEW y \in s
  PROVE  y \in Nat /\ 1 <= y /\ y <= n
<1>1. y \in 1..n
  OBVIOUS
<1> QED
  BY <1>1

LEMMA EarlierIs ==
  ASSUME NEW n \in Nat, NEW s \in SUBSET (1..n), s # {}
  PROVE  Max(s) \in s /\ Earlier(s) \subseteq s /\ Earlier(s) # s
<1>1. s \in SUBSET Nat /\ \A y \in s : y <= n
  OBVIOUS
<1>2. Max(s) \in s
  BY <1>1, BoundedMax
<1> HIDE DEF Earlier
<1> QED
  BY <1>2 DEF Earlier

LEMMA CountsIs ==
  ASSUME NEW w, NEW n, NEW col, Counts(w, n, col), NEW s \in SUBSET (1..n)
  PROVE  col[s] = IF s = {} THEN 0 ELSE col[Earlier(s)] * 26 + w[Max(s)]
BY DEF Counts

LEMMA IntervalsAreFinite ==
  ASSUME NEW n \in Nat
  PROVE  IsFiniteSet(1..n) /\ Cardinality(1..n) = n
<1>1. IsFiniteSet(1..n) /\ Cardinality(1..n) = IF 1 > n THEN 0 ELSE n - 1 + 1
  BY FS_Interval
<1> QED
  BY <1>1

(* Two words that agree at some places count the same there. *)
LEMMA CountsAgree ==
  ASSUME NEW n \in Nat, NEW m \in Nat, NEW v, NEW w, NEW a, NEW b, Counts(v, n, a), Counts(w, m, b),
         \A i \in 1..n : i <= m => v[i] = w[i]
  PROVE  \A s \in SUBSET (1..n) : s \subseteq 1..m => a[s] = b[s]
<1> DEFINE B == {s \in SUBSET (1..n) : s \subseteq 1..m /\ a[s] # b[s]}
<1> SUFFICES ASSUME B # {} PROVE FALSE
  OBVIOUS
<1>1. PICK s \in B : \A x \in B : x \subseteq s => x = s
  <2>1. B \in SUBSET (SUBSET (1..n))
    OBVIOUS
  <2> DEFINE P == 1..n
  <2>2. B \in SUBSET (SUBSET P) /\ IsFiniteSet(P)
    BY <2>1, IntervalsAreFinite
  <2> HIDE DEF B, P
  <2> QED
    BY ONLY <2>2, B # {}, LeastPart
<1>2. s \in SUBSET (1..n) /\ s \in SUBSET (1..m) /\ a[s] # b[s]
  OBVIOUS
<1>3. a[s] = (IF s = {} THEN 0 ELSE a[Earlier(s)] * 26 + v[Max(s)])
  <2> HIDE DEF B
  <2> QED
    BY <1>2, Zenon DEF Counts
<1>4. b[s] = (IF s = {} THEN 0 ELSE b[Earlier(s)] * 26 + w[Max(s)])
  <2> HIDE DEF B
  <2> QED
    BY <1>2, Zenon DEF Counts
<1>5. CASE s = {}
  BY <1>2, <1>3, <1>4, <1>5
<1>6. CASE s # {}
  <2>1. Max(s) \in s /\ Earlier(s) \subseteq s /\ Earlier(s) # s
    <3> HIDE DEF B
    <3> QED
      BY <1>2, <1>6, EarlierIs
  <2>2. Earlier(s) \notin B
    <3> HIDE DEF B
    <3> QED
      BY <1>1, <2>1
  <2>3. a[Earlier(s)] = b[Earlier(s)]
    BY <1>2, <2>1, <2>2
  <2>4. v[Max(s)] = w[Max(s)]
    <3>1. Max(s) \in 1..n /\ Max(s) \in 1..m
      BY <1>2, <2>1
    <3>2. Max(s) <= m
      BY <3>1
    <3> HIDE DEF B
    <3> QED
      BY <3>1, <3>2
  <2> HIDE DEF B
  <2> QED
    BY <1>2, <1>3, <1>4, <1>6, <2>3, <2>4
<1> QED
  BY <1>5, <1>6

LEMMA CountsExist ==
  ASSUME NEW n \in Nat, NEW w
  PROVE  \E col : Counts(w, n, col)
<1> DEFINE B == {i \in Nat : ~\E col : Counts(w, i, col)}
<1> SUFFICES ASSUME B # {} PROVE FALSE
  OBVIOUS
<1>1. PICK m \in B : \A j \in B : m <= j
  <2>1. B \in SUBSET Nat
    OBVIOUS
  <2> HIDE DEF B
  <2> QED
    BY <2>1, LeastNumber
<1> DEFINE Part(i) == CHOOSE col : Counts(w, i, col)
           At(s) == Part(Max(s))[s]
           Sum(s) == IF s = {} THEN 0 ELSE At(s)
           col == [s \in SUBSET (1..m) |->
                     IF s = {} THEN 0 ELSE Sum(Earlier(s)) * 26 + w[Max(s)]]
<1>2. m \in Nat /\ ~\E c : Counts(w, m, c)
  OBVIOUS
<1>3. ASSUME NEW i \in Nat, i < m PROVE Counts(w, i, Part(i))
  <2>1. i \notin B
    <3>1. ~(m <= i)
      BY <1>2, <1>3
    <3> HIDE DEF B
    <3> QED
      BY <1>1, <3>1
  <2> QED
    BY <2>1
<1> HIDE DEF Part, B
<1>4. ASSUME NEW s \in SUBSET (1..m), s # {}, Max(s) < m PROVE At(s) = col[s]
  <2>1. Max(s) \in s /\ Earlier(s) \subseteq s /\ Earlier(s) # s /\ Max(s) \in Nat
    <3>1. Max(s) \in s /\ Earlier(s) \subseteq s /\ Earlier(s) # s
      BY <1>2, <1>4, EarlierIs
    <3>2. Max(s) \in Nat
      <4> HIDE DEF At, col
      <4> QED
        BY <1>2, <1>4, <3>1, PlaceIs
    <3> QED
      BY <3>1, <3>2
  <2>2. Counts(w, Max(s), Part(Max(s)))
    BY <1>3, <1>4, <2>1
  <2>3. s \in SUBSET (1..Max(s))
    <3>1. s \in SUBSET Nat /\ \A y \in s : y <= m /\ y >= 1
      BY <1>2
    <3>2. \A y \in s : Max(s) >= y
      BY <1>2, <1>4, <3>1, BoundedMax
    <3> QED
      BY <2>1, <3>1, <3>2
  <2>4. At(s) = Part(Max(s))[Earlier(s)] * 26 + w[Max(s)]
    BY <1>4, <2>2, <2>3, Zenon DEF Counts
  <2>5. Part(Max(s))[Earlier(s)] = Sum(Earlier(s))
    <3> DEFINE e == Earlier(s)
    <3>1. e \in SUBSET (1..Max(s)) /\ e \in SUBSET (1..m)
      BY <2>1, <2>3
    <3>2. CASE e = {}
      BY <2>2, <3>1, <3>2, Zenon DEF Counts
    <3>3. CASE e # {}
      <4>1. Max(e) \in e /\ Max(e) \in Nat /\ Max(e) < Max(s) /\ e \in SUBSET (1..Max(e))
        <5>1. e \in SUBSET Nat /\ \A y \in e : 1 <= y /\ y <= Max(s) /\ y # Max(s)
          BY <2>1, <3>1 DEF Earlier
        <5> HIDE DEF e
        <5>2. Max(e) \in e /\ \A y \in e : Max(e) >= y
          BY <2>1, <3>3, <5>1, BoundedMax
        <5>3. Max(e) \in Nat /\ Max(e) <= Max(s) /\ Max(e) # Max(s)
          BY <5>1, <5>2
        <5>4. \A y \in e : y \in Nat /\ 1 <= y /\ y <= Max(e)
          BY <5>1, <5>2
        <5>5. e \subseteq 1..Max(e)
          BY <5>3, <5>4
        <5> QED
          BY <2>1, <5>2, <5>3, <5>5
      <4>2. Max(e) < m
        BY <1>2, <1>4, <2>1, <4>1
      <4>3. Counts(w, Max(e), Part(Max(e)))
        BY <1>3, <4>1, <4>2
      <4> HIDE DEF e
      <4>4. Part(Max(s))[e] = Part(Max(e))[e]
        <5>1. \A x \in SUBSET (1..Max(s)) : x \subseteq 1..Max(e) => Part(Max(s))[x] = Part(Max(e))[x]
          BY <2>1, <2>2, <4>1, <4>3, CountsAgree
        <5> QED
          BY <3>1, <4>1, <5>1
      <4> QED
        BY <3>3, <4>4 DEF e
    <3> QED
      BY <3>2, <3>3
  <2>6. col[s] = Sum(Earlier(s)) * 26 + w[Max(s)]
    <3> HIDE DEF Sum
    <3> QED
      BY <1>4
  <2> QED
    BY <2>4, <2>5, <2>6
<1>5. Counts(w, m, col)
  <2>1. ASSUME NEW s \in SUBSET (1..m), s # {} PROVE Sum(Earlier(s)) = col[Earlier(s)]
    <3> DEFINE e == Earlier(s)
    <3>1. Max(s) \in s /\ e \subseteq s
      BY <1>2, <2>1, EarlierIs
    <3>2. e \in SUBSET (1..m)
      BY <3>1
    <3>3. CASE e = {}
      BY <3>2, <3>3
    <3>4. CASE e # {}
      <4>1. Max(s) \in Nat /\ Max(s) <= m
        <5> HIDE DEF At, col
        <5> QED
          BY <1>2, <2>1, <3>1, PlaceIs
      <4>2. \A y \in s : y <= Max(s)
        <5>1. s \in SUBSET Nat /\ \A y \in s : y <= m
          BY <1>2
        <5> QED
          BY <1>2, <2>1, <5>1, BoundedMax
      <4>3. Max(e) \in e
        BY <1>2, <3>2, <3>4, EarlierIs
      <4>4. Max(e) \in s /\ Max(e) # Max(s)
        BY <3>1, <4>3 DEF Earlier
      <4>5. Max(e) < m
        <5>1. Max(e) <= Max(s)
          BY <4>2, <4>4
        <5>2. Max(e) \in Nat
          <6> HIDE DEF At, col, e
          <6> QED
            BY <1>2, <4>4, PlaceIs
        <5> QED
          BY <1>2, <4>1, <4>4, <5>1, <5>2
      <4> HIDE DEF e, At, col
      <4>6. At(e) = col[e]
        BY <1>4, <3>2, <3>4, <4>5
      <4> QED
        BY <3>4, <4>6 DEF e
    <3> QED
      BY <3>3, <3>4
  <2>2. col = [s \in SUBSET (1..m) |-> IF s = {} THEN 0 ELSE col[Earlier(s)] * 26 + w[Max(s)]]
    <3> HIDE DEF Sum
    <3> QED
      BY <2>1
  <2> HIDE DEF col
  <2> QED
    BY <2>2 DEF Counts
<1> QED
  BY <1>2, <1>5

LEMMA WordIs ==
  ASSUME NEW w \in Seq(Nat)
  PROVE  \E col : Counts(w, Len(w), col) /\ a1ToRC(w) = col[1..Len(w)]
<1>1. DOMAIN w = 1..Len(w) /\ Len(w) \in Nat
  OBVIOUS
<1>2. a1ToRC(w) = (CHOOSE col : col = [s \in SUBSET DOMAIN w |->
                     IF s = {} THEN 0 ELSE col[Earlier(s)] * 26 + w[Max(s)]])[DOMAIN w]
  BY DEF a1ToRC, FoldLeft, MapThenFoldSet, Earlier
<1>3. a1ToRC(w) = (CHOOSE col : Counts(w, Len(w), col))[1..Len(w)]
  BY <1>1, <1>2, Zenon DEF Counts
<1> DEFINE col == CHOOSE col : Counts(w, Len(w), col)
<1>4. Counts(w, Len(w), col)
  BY <1>1, CountsExist
<1> QED
  BY <1>3, <1>4

LEMMA WordGrows ==
  ASSUME NEW w \in Seq(Nat), NEW l \in Nat
  PROVE  a1ToRC(Append(w, l)) = a1ToRC(w) * 26 + l
<1> DEFINE n == Len(w)
           u == Append(w, l)
<1>1. n \in Nat /\ u \in Seq(Nat) /\ Len(u) = n + 1 /\ u[n + 1] = l /\ \A i \in 1..(n + 1) : i <= n => u[i] = w[i]
  OBVIOUS
<1>2. PICK a : Counts(w, n, a) /\ a1ToRC(w) = a[1..n]
  BY WordIs
<1>3. PICK b : Counts(u, n + 1, b) /\ a1ToRC(u) = b[1..(n + 1)]
  <2>1. \E b : Counts(u, Len(u), b) /\ a1ToRC(u) = b[1..Len(u)]
    <3> HIDE DEF u
    <3> QED
      BY <1>1, WordIs
  <2> HIDE DEF u, n
  <2> QED
    BY <1>1, <2>1
<1> HIDE DEF n, u
<1> DEFINE s == 1..(n + 1)
<1>4. s # {} /\ s \in SUBSET (1..(n + 1)) /\ s \in SUBSET Nat /\ \A y \in s : y <= n + 1
  <2>1. n + 1 \in s
    BY <1>1
  <2>2. \A y \in s : y \in Nat /\ y <= n + 1
    BY <1>1
  <2> HIDE DEF s
  <2>3. s \in SUBSET (1..(n + 1))
    BY DEF s
  <2> QED
    BY <2>1, <2>2, <2>3
<1>5. Max(s) = n + 1
  <2>1. Max(s) \in s /\ \A y \in s : Max(s) >= y
    <3>1. n + 1 \in Nat
      BY <1>1
    <3> HIDE DEF s
    <3> QED
      BY <1>4, <3>1, BoundedMax
  <2>2. n + 1 \in s
    BY <1>1
  <2>3. Max(s) >= n + 1 /\ Max(s) <= n + 1 /\ Max(s) \in Nat
    <3> HIDE DEF s
    <3> QED
      BY <1>4, <2>1, <2>2
  <2> HIDE DEF s
  <2> QED
    BY <1>1, <2>3
<1>6. Earlier(s) = 1..n
  BY <1>1, <1>5 DEF Earlier
<1>7. b[s] = b[1..n] * 26 + l
  <2>1. b[s] = b[Earlier(s)] * 26 + u[Max(s)]
    <3> HIDE DEF s
    <3> QED
      BY <1>3, <1>4, Zenon DEF Counts
  <2> HIDE DEF s
  <2> QED
    BY <1>1, <1>5, <1>6, <2>1
<1>8. b[1..n] = a[1..n]
  <2>1. n + 1 \in Nat /\ (1..n) \in SUBSET (1..(n + 1)) /\ (1..n) \subseteq 1..n
    BY <1>1
  <2>2. \A x \in SUBSET (1..(n + 1)) : x \subseteq 1..n => b[x] = a[x]
    BY <1>1, <1>2, <1>3, <2>1, CountsAgree
  <2> QED
    BY <2>1, <2>2
<1> QED
  BY <1>2, <1>3, <1>7, <1>8 DEF u

(* The letters of a column are read back as that column. *)
LEMMA ColumnIsRead ==
  ASSUME NEW n \in Nat
  PROVE  colToLetter[n] \in Seq(Nat) /\ a1ToRC(colToLetter[n]) = n
<1> DEFINE B == {i \in Nat : ~(colToLetter[i] \in Seq(Nat) /\ a1ToRC(colToLetter[i]) = i)}
<1> SUFFICES ASSUME B # {} PROVE FALSE
  OBVIOUS
<1>1. PICK i \in B : \A j \in B : i <= j
  <2>1. B \in SUBSET Nat
    OBVIOUS
  <2> HIDE DEF B
  <2> QED
    BY <2>1, LeastNumber
<1>2. i \in Nat /\ ~(colToLetter[i] \in Seq(Nat) /\ a1ToRC(colToLetter[i]) = i)
  OBVIOUS
<1>3. CASE i = 0
  <2>1. colToLetter[i] = <<>>
    BY <1>3, ColumnIs
  <2>2. <<>> \in Seq(Nat) /\ Len(<<>>) = 0 /\ 1..0 = {}
    OBVIOUS
  <2>3. PICK col : Counts(<<>>, 0, col) /\ a1ToRC(<<>>) = col[1..0]
    BY <2>2, WordIs
  <2>4. col[1..0] = 0
    BY <2>2, <2>3, Zenon DEF Counts
  <2> QED
    BY <1>2, <1>3, <2>1, <2>2, <2>3, <2>4
<1>4. CASE i # 0
  <2> DEFINE p == Prior(i)
  <2>1. p \in Nat /\ p < i /\ Letter(i) \in Nat /\ i = p * 26 + Letter(i)
    BY <1>2, <1>4, PriorIs
  <2>2. p \notin B
    <3>1. ~(i <= p)
      BY <1>2, <2>1
    <3> HIDE DEF B, p
    <3> QED
      BY <1>1, <3>1
  <2>3. colToLetter[p] \in Seq(Nat) /\ a1ToRC(colToLetter[p]) = p
    BY <2>1, <2>2
  <2>4. colToLetter[i] = Append(colToLetter[p], Letter(i))
    BY <1>2, <1>4, ColumnIs
  <2> HIDE DEF B, p
  <2>5. colToLetter[i] \in Seq(Nat)
    BY <2>1, <2>3, <2>4
  <2>6. a1ToRC(colToLetter[i]) = a1ToRC(colToLetter[p]) * 26 + Letter(i)
    BY <2>1, <2>3, <2>4, WordGrows
  <2> QED
    BY <1>2, <2>1, <2>3, <2>5, <2>6
<1> QED
  BY <1>3, <1>4
-----------------------------------------------------------------------------
(* Where a proposal of a workbook says that it comes from. *)
Rows == [label : Labels, cells : [1..Columns -> CellTexts]] \cup {Blank}

(* A proposal read in a cell shows that cell; one of the model shows none. *)
Cited(p) ==
  /\ DOMAIN p = ProposalFields
  /\ p.via # "model" /\ ~p.page
  /\ \E r \in DOMAIN RowsRead, c \in 1..Columns :
       p.cell = CitedCell(r, c) /\ p.excerpt = <<RowsRead[r].label, RowsRead[r].cells[c]>>

Unplaced(p) == DOMAIN p = ProposalFields /\ p.via = "model" /\ p.cell = Null

SourcesOK ==
  /\ body \in Seq(Rows)
  /\ stage = "open" => read.found = {} /\ inbox = {}
  /\ kind = "xlsx" => /\ \A p \in read.found : Cited(p)
                      /\ \A i \in inbox : Cited(i.p) \/ Unplaced(i.p)
-----------------------------------------------------------------------------
(* Above the first blank row the reader counts as the workbook does. *)
LEMMA RowIs ==
  ASSUME body \in Seq(Rows), NEW r \in DOMAIN RowsRead, \A i \in 1..r : body[i] # Blank
  PROVE  r \in Nat /\ r \in DOMAIN body /\ RowsRead[r] = body[r]
<1> DEFINE n == Len(body)
<1>1. n \in Nat /\ DOMAIN body = 1..n
  OBVIOUS
<1> HIDE DEF n
<1>2. Filled \in SUBSET (1..n)
  BY <1>1 DEF Filled
<1>3. IsFiniteSet(Filled) /\ Cardinality(Filled) \in Nat /\ Cardinality(Filled) <= n
  <2>1. IsFiniteSet(1..n) /\ Cardinality(1..n) = n
    BY <1>1, IntervalsAreFinite
  <2> QED
    BY <1>2, <2>1, FS_Subset, FS_CardinalityType
<1>4. r \in Nat /\ 1 <= r /\ r <= n /\ r \in DOMAIN body
  <2>1. r \in 1..Cardinality(Filled)
    BY DEF RowsRead
  <2> QED
    BY <1>1, <1>3, <2>1
<1>5. Filled \cap (1..r) = 1..r
  <2>1. \A i \in 1..r : i \in DOMAIN body
    BY <1>1, <1>4
  <2> QED
    BY <2>1 DEF Filled
<1>6. r \in Filled /\ Cardinality(Filled \cap (1..r)) = r
  <2>1. r \in 1..r
    BY <1>4
  <2> QED
    BY <1>4, <1>5, <2>1, IntervalsAreFinite
<1>7. ASSUME NEW i \in Filled, Cardinality(Filled \cap (1..i)) = r PROVE i = r
  <2> DEFINE P == Filled \cap (1..i)
  <2>1. i \in Nat /\ 1 <= i /\ i <= n
    <3>1. i \in 1..n
      BY <1>2
    <3> QED
      BY <1>1, <3>1
  <2>2. IsFiniteSet(1..i) /\ Cardinality(1..i) = i
    BY <2>1, IntervalsAreFinite
  <2>3. IsFiniteSet(P) /\ Cardinality(P) <= i
    <3>1. P \in SUBSET (1..i)
      OBVIOUS
    <3> HIDE DEF P
    <3> QED
      BY <2>2, <3>1, FS_Subset
  <2>4. ~(r < i)
    <3> SUFFICES ASSUME r < i PROVE FALSE
      OBVIOUS
    <3> DEFINE Q == (1..r) \cup {i}
    <3>1. Q \in SUBSET P
      <4>1. i \in P
        BY <2>1
      <4>2. \A j \in 1..r : j \in P
        BY <1>4, <1>5, <2>1
      <4> QED
        BY <4>1, <4>2
    <3>2. Cardinality(Q) = r + 1
      <4>1. IsFiniteSet(1..r) /\ Cardinality(1..r) = r /\ i \notin 1..r
        BY <1>4, <2>1, IntervalsAreFinite
      <4> QED
        BY <4>1, FS_AddElement
    <3>3. Cardinality(Q) <= Cardinality(P)
      <4> HIDE DEF P, Q
      <4> QED
        BY <2>3, <3>1, FS_Subset
    <3> QED
      BY <1>4, <1>7, <3>2, <3>3
  <2> QED
    BY <1>4, <1>7, <2>1, <2>3, <2>4
<1>8. NthFilled(r) = r
  BY <1>6, <1>7 DEF NthFilled
<1> QED
  BY <1>4, <1>8 DEF RowsRead

LEMMA SourcesAreShown == SourcesOK => CitesItsCell
<1> SUFFICES ASSUME SourcesOK PROVE CitesItsCell
  OBVIOUS
<1> USE SheetReaderAssumption
<1>1. LettersAgree
  <2>1. \A n \in 1..LastColumn : n \in Nat
    OBVIOUS
  <2> QED
    BY <2>1, ColumnIsRead DEF LettersAgree
<1>2. ASSUME kind = "xlsx", NEW i \in inbox, i.p.via = "model" PROVE SourceViewer(i.p) = <<Null, Null>>
  <2>1. i.p.cell = Null
    BY <1>2 DEF SourcesOK, Cited, Unplaced
  <2>2. canHighlightSource(i.p) \in {"page", Null} /\ Null \notin {"page", "cell"}
    BY <2>1 DEF canHighlightSource
  <2>3. previewPage(i.p) = <<Null, Null>>
    BY <1>2 DEF previewPage
  <2> QED
    BY <2>2, <2>3 DEF SourceViewer
<1>3. ASSUME kind = "xlsx", NEW i \in inbox, i.p.via # "model",
             ~\E r \in 1..(i.p.cell.row - 1) : body[r] = Blank
      PROVE  SourceViewer(i.p) = i.p.excerpt
  <2>1. Cited(i.p) /\ body \in Seq(Rows)
    BY <1>3 DEF SourcesOK, Unplaced
  <2>2. PICK r \in DOMAIN RowsRead, c \in 1..Columns :
          i.p.cell = CitedCell(r, c) /\ i.p.excerpt = <<RowsRead[r].label, RowsRead[r].cells[c]>>
    BY <2>1 DEF Cited
  <2>3. Cardinality(Filled) \in Nat
    <3>1. IsFiniteSet(1..Len(body)) /\ Filled \in SUBSET (1..Len(body))
      BY <2>1, IntervalsAreFinite DEF Filled
    <3> QED
      BY <3>1, FS_Subset, FS_CardinalityType
  <2>4. r \in Nat /\ c \in Nat /\ c + 1 \in Nat
    <3>1. r \in 1..Cardinality(Filled)
      BY DEF RowsRead
    <3> QED
      BY <2>3, <3>1
  <2>5. /\ i.p.cell = [row |-> r + 1, col |-> colToLetter[c + 1]]
        /\ i.p.cell.row = r + 1 /\ i.p.cell.col = colToLetter[c + 1]
        /\ i.p.cell.row - 1 = r
    BY <2>2, <2>4 DEF CitedCell
  <2>6. colToLetter[c + 1] \in Seq(Nat) /\ a1ToRC(i.p.cell.col) - 1 = c
    <3>1. colToLetter[c + 1] \in Seq(Nat) /\ a1ToRC(colToLetter[c + 1]) = c + 1
      BY <2>4, ColumnIsRead
    <3> QED
      BY <2>4, <2>5, <3>1
  <2>7. r \in DOMAIN body /\ RowsRead[r] = body[r]
    BY <1>3, <2>1, <2>5, RowIs
  <2>8. canHighlightSource(i.p) = "cell"
    <3>1. i.p.cell # Null
      <4>1. i.p.cell \in [row : Nat, col : Seq(Nat)]
        <5>1. r + 1 \in Nat
          BY <2>4
        <5> QED
          BY <2>5, <2>6, <5>1
      <4> QED
        BY <4>1
    <3>2. ~i.p.page
      BY <2>1 DEF Cited
    <3> QED
      BY <3>1, <3>2 DEF canHighlightSource
  <2>9. SourceViewer(i.p) = Preview(i.p.cell)
    BY <1>3, <2>8 DEF SourceViewer, previewSheet
  <2>10. Preview(i.p.cell) = <<body[r].label, body[r].cells[c]>>
    BY <2>5, <2>6, <2>7 DEF Preview
  <2> QED
    BY <2>2, <2>7, <2>9, <2>10
<1> QED
  BY <1>1, <1>2, <1>3 DEF CitesItsCell

LEMMA RowsStay ==
  ASSUME UNCHANGED body
  PROVE  RowsRead' = RowsRead /\ \A p : (Cited(p)' <=> Cited(p)) /\ (Unplaced(p)' <=> Unplaced(p))
<1>1. Filled' = Filled
  BY DEF Filled
<1>2. \A r : NthFilled(r)' = NthFilled(r)
  BY <1>1 DEF NthFilled
<1>3. RowsRead' = RowsRead
  BY <1>1, <1>2 DEF RowsRead
<1> QED
  BY <1>3 DEF Cited, Unplaced

LEMMA CellIsCited ==
  ASSUME NEW lines, NEW r, NEW c, NEW catalog, NEW p \in ProposalsAt(lines, r, c, catalog)
  PROVE  /\ DOMAIN p = ProposalFields
         /\ p.via # "model" /\ (p.page <=> kind \in {"pdf", "pdf_page", "pdf_text"})
         /\ p.cell = CitedCell(r, c) /\ p.excerpt = <<lines[r].label, lines[r].cells[c]>>
<1> DEFINE label   == lines[r].label
           cell    == lines[r].cells[c]
           unit    == detectUnit(label.units \cup HeadUnits)
           exact   == matchMetricAlias(label, catalog)
           near    == exact = Null
           key     == IF near THEN suggestCatalogMetricFuzzy(label) ELSE exact
           named == IF unit # "unknown" THEN unit ELSE IF near THEN Catalog[key].unit ELSE catalog[key].unit
<1>1. PICK what, in, of, sure, how :
        /\ how \in {"cell", "likeness"}
        /\ p = [kind |-> what, key |-> of, unit |-> in, confidence |-> sure, via |-> how,
                label |-> label, value |-> parseNumber(cell), period |-> Period(label, c),
                cell |-> CitedCell(r, c), page |-> kind \in {"pdf", "pdf_page", "pdf_text"},
                excerpt |-> <<label, cell>>]
  <2> HIDE DEF unit, exact
  <2> QED
    BY DEF ProposalsAt, unit, exact
<1> HIDE DEF label, cell
<1>2. /\ DOMAIN p = ProposalFields
      /\ p.via # "model" /\ (p.page <=> kind \in {"pdf", "pdf_page", "pdf_text"})
      /\ p.cell = CitedCell(r, c) /\ p.excerpt = <<label, cell>>
  BY <1>1 DEF ProposalFields
<1> QED
  BY <1>2 DEF label, cell

(* Of a workbook everything found is cited. *)
LEMMA FoundIsCited ==
  ASSUME kind = "xlsx", NEW p \in extractBuffer
  PROVE  Cited(p)
<1> DEFINE lines == RowsRead
           catalog == IF kind \in {"xlsx", "csv"} THEN resolveMetricCatalog ELSE Catalog
           found == extractFromRows(lines, catalog)
           capped == {[q EXCEPT !.confidence = Least(q.confidence, Cap)] : q \in found}
<1>1. p \in capped
  BY DEF extractBuffer
<1>2. PICK q \in found : p = [q EXCEPT !.confidence = Least(q.confidence, Cap)]
  BY <1>1
<1>3. PICK r \in DOMAIN RowsRead, c \in 1..Columns : q \in ProposalsAt(lines, r, c, catalog)
  BY DEF extractFromRows
<1>4. /\ DOMAIN q = ProposalFields
      /\ q.via # "model" /\ (q.page <=> kind \in {"pdf", "pdf_page", "pdf_text"})
      /\ q.cell = CitedCell(r, c) /\ q.excerpt = <<lines[r].label, lines[r].cells[c]>>
  <2> HIDE DEF catalog, lines
  <2> QED
    BY <1>3, CellIsCited
<1>5. /\ DOMAIN p = ProposalFields
      /\ p.via = q.via /\ p.page = q.page /\ p.cell = q.cell /\ p.excerpt = q.excerpt
  <2> HIDE DEF found
  <2> QED
    BY <1>2, <1>4 DEF ProposalFields
<1>6. ~p.page
  BY <1>4, <1>5
<1> QED
  BY <1>3, <1>4, <1>5, <1>6 DEF Cited

LEMMA AssistIsUnplaced ==
  ASSUME NEW replies, NEW p \in parseExtractAssistJson(replies)
  PROVE  Unplaced(p)
<1>1. PICK reply \in replies : p \in Resolved(reply)
  BY DEF parseExtractAssistJson
<1> QED
  BY <1>1 DEF Resolved, Unplaced, ProposalFields

(* What the transaction of a parse puts in the inbox. *)
LEMMA WriteKeepsSources ==
  ASSUME NEW proposals, \A q \in proposals : Cited(q) \/ Unplaced(q), NEW min,
         Write(proposals, min), UNCHANGED <<body, kind>>, NEW i \in inbox'
  PROVE  Cited(i.p)' \/ Unplaced(i.p)'
<1>1. PICK q \in proposals : i.p = applyCorrectionLedger(q)
  BY DEF Write
<1>2. /\ DOMAIN i.p = DOMAIN q
      /\ i.p.via = q.via /\ i.p.page = q.page /\ i.p.cell = q.cell /\ i.p.excerpt = q.excerpt
  <2>1. DOMAIN q = ProposalFields
    BY DEF Cited, Unplaced
  <2>2. CASE i.p = q
    BY <2>2
  <2>3. CASE i.p # q
    <3> DEFINE x == CHOOSE x \in Correction(q) : TRUE
    <3>1. i.p = [q EXCEPT !.value = x.value, !.confidence = 99]
      BY <1>1, <2>3 DEF applyCorrectionLedger
    <3> HIDE DEF x
    <3> QED
      BY <2>1, <3>1 DEF ProposalFields
  <2> QED
    BY <2>2, <2>3
<1>3. Cited(i.p) \/ Unplaced(i.p)
  BY <1>2 DEF Cited, Unplaced
<1> QED
  BY <1>3, RowsStay
-----------------------------------------------------------------------------
LEMMA InitSources == SheetInit => SourcesOK
BY DEF SheetInit, SourcesOK

LEMMA StepSources ==
  ASSUME SourcesOK, [SheetNext]_sheetVars
  PROVE  SourcesOK'
<1>1. ASSUME UNCHANGED <<kind, body, read, inbox, stage>> PROVE SourcesOK'
  BY <1>1, RowsStay DEF SourcesOK
<1>2. ASSUME NEW r \in Rows, WriteRow(r) PROVE SourcesOK'
  BY <1>2 DEF WriteRow, SourcesOK
<1>3. ASSUME NEW t, SaveThreshold(t) PROVE SourcesOK'
  BY <1>1, <1>3 DEF SaveThreshold
<1>4. ASSUME NEW b, SaveFormulaBook(b) PROVE SourcesOK'
  BY <1>1, <1>4 DEF SaveFormulaBook
<1>5. ASSUME NEW c, Correct(c) PROVE SourcesOK'
  BY <1>1, <1>5 DEF Correct
<1>6. CASE RunParse
  <2>1. UNCHANGED <<kind, body>> /\ read'.found = extractBuffer /\ stage = "open" /\ stage' \in {"assist", "done"}
    BY <1>6 DEF RunParse, Write
  <2>2. ASSUME kind = "xlsx" PROVE \A p \in extractBuffer : Cited(p)
    BY <2>2, FoundIsCited
  <2>3. ASSUME kind = "xlsx" PROVE \A p \in read'.found : Cited(p)'
    BY <2>1, <2>2, <2>3, RowsStay
  <2>4. ASSUME kind = "xlsx" PROVE \A i \in inbox' : Cited(i.p)' \/ Unplaced(i.p)'
    <3>1. CASE AssistWanted(extractBuffer)
      <4>1. inbox' = {}
        BY <1>6, <3>1 DEF RunParse, SourcesOK
      <4> QED
        BY <4>1
    <3>2. CASE ~AssistWanted(extractBuffer)
      <4>1. Write(extractBuffer, threshold)
        BY <1>6, <3>2 DEF RunParse
      <4> QED
        BY <2>1, <2>2, <2>4, <4>1, WriteKeepsSources
    <3> QED
      BY <3>1, <3>2
  <2>5. body' \in Seq(Rows)
    BY <2>1 DEF SourcesOK
  <2> QED
    BY <2>1, <2>3, <2>4, <2>5 DEF SourcesOK
<1>7. ASSUME NEW replies, Assisted(replies) PROVE SourcesOK'
  <2> DEFINE assisted == parseExtractAssistJson(replies)
             merged == mergeExtractProposals(read.found, assisted)
  <2>1. UNCHANGED <<kind, body, read>> /\ stage' = "done" /\ Write(merged, read.min)
    BY <1>7 DEF Assisted, Write
  <2>2. ASSUME kind = "xlsx" PROVE \A p \in merged : Cited(p) \/ Unplaced(p)
    <3>1. \A p \in read.found : Cited(p)
      BY <2>2 DEF SourcesOK
    <3>2. \A p \in assisted : Unplaced(p)
      BY AssistIsUnplaced
    <3>3. \A p \in merged : p \in read.found \/ p \in assisted
      BY MergeIsOfBoth
    <3> QED
      BY <3>1, <3>2, <3>3
  <2>3. ASSUME kind = "xlsx" PROVE \A i \in inbox' : Cited(i.p)' \/ Unplaced(i.p)'
    <3> HIDE DEF merged
    <3> QED
      BY <2>1, <2>2, <2>3, WriteKeepsSources
  <2>4. ASSUME kind = "xlsx" PROVE \A p \in read'.found : Cited(p)'
    BY <2>1, <2>4, RowsStay DEF SourcesOK
  <2>5. body' \in Seq(Rows)
    BY <2>1 DEF SourcesOK
  <2> QED
    BY <2>1, <2>3, <2>4, <2>5 DEF SourcesOK
<1>8. CASE UNCHANGED sheetVars
  BY <1>1, <1>8 DEF sheetVars
<1>9. CASE \E l \in Labels, cs \in [1..Columns -> CellTexts] : WriteRow([label |-> l, cells |-> cs])
  BY <1>2, <1>9 DEF Rows
<1>10. CASE WriteRow(Blank)
  BY <1>2, <1>10 DEF Rows
<1> QED
  BY <1>3, <1>4, <1>5, <1>6, <1>7, <1>8, <1>9, <1>10 DEF SheetNext

(* The source a reviewer is sent to shows the label and the figure of the  *)
(* proposal, unless a blank row lies above it, and what a model proposed   *)
(* is sent to no cell - in any workbook, of any number of rows and         *)
(* columns.  The locators of extract.ts, read back by sheet-preview.ts.    *)
THEOREM SourcesLeadBack == SheetSpec => []CitesItsCell
BY InitSources, StepSources, SourcesAreShown, PTL DEF SheetSpec
-----------------------------------------------------------------------------
(* Fiscal.  A date is some month of a year of its own, and the fiscal year  *)
(* it falls in begins at most 11 months before it.                         *)
YearStart(t, fyStart) == MonthNo(fyEndYear(t, fyStart) - 1, fyStart)

LEMMA MonthIs ==
  ASSUME NEW t \in Int
  PROVE  /\ YearOf(t) \in Int /\ MonthOf(t) \in 1..12 /\ t = 12 * YearOf(t) + MonthOf(t) - 1
         /\ MonthNo(YearOf(t), MonthOf(t)) = t
BY DEF YearOf, MonthOf, MonthNo

LEMMA YearIs ==
  ASSUME NEW t \in Int, NEW f \in 1..12
  PROVE  /\ fyEndYear(t, f) \in Int /\ YearStart(t, f) = 12 * (fyEndYear(t, f) - 1) + f - 1
         /\ YearStart(t, f) \in Int /\ t - YearStart(t, f) \in 0..11
         /\ (MonthOf(t) - f + 12) % 12 = t - YearStart(t, f)
<1> DEFINE y == YearOf(t)
           m == MonthOf(t)
<1>1. y \in Int /\ m \in 1..12 /\ t = 12 * y + m - 1
  BY MonthIs
<1> HIDE DEF y, m
<1>2. fyEndYear(t, f) = IF m >= f THEN y + 1 ELSE y
  BY DEF fyEndYear, y, m
<1>3. YearStart(t, f) = 12 * (fyEndYear(t, f) - 1) + f - 1
  BY DEF YearStart, MonthNo
<1>4. CASE m >= f
  BY <1>1, <1>2, <1>3, <1>4 DEF m
<1>5. CASE ~(m >= f)
  BY <1>1, <1>2, <1>3, <1>5 DEF m
<1> QED
  BY <1>4, <1>5

LEMMA YearPeriodIs ==
  ASSUME NEW t \in Int, NEW f \in 1..12
  PROVE  periodContaining(t, "fy", f)
           = [start |-> YearStart(t, f), end |-> YearStart(t, f) + 11, grain |-> "fy"]
<1>1. periodContaining(t, "fy", f) = fyBounds(fyEndYear(t, f), f)
  BY DEF periodContaining
<1>2. MonthNo(fyEndYear(t, f), f) - 1 = YearStart(t, f) + 11
  <2> DEFINE e == fyEndYear(t, f)
             S == YearStart(t, f)
  <2>1. e \in Int /\ S \in Int /\ S = 12 * (e - 1) + f - 1
    BY YearIs
  <2>2. MonthNo(e, f) = 12 * e + f - 1
    BY DEF MonthNo
  <2> HIDE DEF e, S
  <2>3. (12 * e + f - 1) - 1 = S + 11
    BY <2>1
  <2> QED
    BY <2>2, <2>3 DEF e, S
<1> QED
  BY <1>1, <1>2 DEF fyBounds, YearStart

LEMMA QuarterPeriodIs ==
  ASSUME NEW t \in Int, NEW f \in 1..12
  PROVE  LET q == YearStart(t, f) + 3 * ((t - YearStart(t, f)) \div 3)
         IN periodContaining(t, "quarter", f) = [start |-> q, end |-> q + 2, grain |-> "quarter"]
<1> DEFINE o == t - YearStart(t, f)
           y == fyEndYear(t, f) - 1
           j == o \div 3
           s == f + j * 3
           first == MonthNo(y + (s - 1) \div 12, ((s - 1) % 12) + 1)
<1>1. y \in Int /\ o \in 0..11 /\ YearStart(t, f) = 12 * y + f - 1 /\ YearStart(t, f) \in Int
  <2>1. /\ fyEndYear(t, f) \in Int /\ YearStart(t, f) = 12 * (fyEndYear(t, f) - 1) + f - 1
        /\ YearStart(t, f) \in Int /\ t - YearStart(t, f) \in 0..11
    BY YearIs
  <2> QED
    BY <2>1
<1>2. j \in 0..3
  <2> HIDE DEF o
  <2> QED
    BY <1>1
<1>3. periodContaining(t, "quarter", f) = quarterBounds(y, j + 1, f)
  <2>1. (MonthOf(t) - f + 12) % 12 = o
    BY YearIs
  <2> QED
    BY <2>1 DEF periodContaining
<1> HIDE DEF o, y, j
<1>4. quarterBounds(y, j + 1, f) = [start |-> first, end |-> first + 2, grain |-> "quarter"]
  <2>1. f + ((j + 1) - 1) * 3 = s
    BY <1>2
  <2> QED
    BY <2>1 DEF quarterBounds
<1>5. first = YearStart(t, f) + 3 * j
  <2>1. s - 1 \in Int /\ s \in Int
    BY <1>2
  <2>2. 12 * ((s - 1) \div 12) + ((s - 1) % 12) = s - 1
    <3> HIDE DEF s
    <3> QED
      BY <2>1
  <2>3. first = 12 * y + 12 * ((s - 1) \div 12) + ((s - 1) % 12)
    <3> DEFINE a == (s - 1) \div 12
               b == (s - 1) % 12
    <3>1. a \in Int /\ b \in Int
      BY <2>1
    <3> HIDE DEF a, b, s
    <3>2. first = 12 * (y + a) + (b + 1) - 1
      BY DEF MonthNo, a, b
    <3>3. first = 12 * y + 12 * a + b
      BY <1>1, <3>1, <3>2
    <3> QED
      BY <3>3 DEF a, b
  <2> HIDE DEF first
  <2>4. first = 12 * y + (s - 1)
    <3> HIDE DEF s
    <3> QED
      BY <1>1, <2>1, <2>2, <2>3
  <2> QED
    BY <1>1, <1>2, <2>4
<1> QED
  BY <1>3, <1>4, <1>5 DEF o, j

LEMMA MonthPeriodIs ==
  ASSUME NEW t \in Int, NEW f
  PROVE  periodContaining(t, "month", f) = [start |-> t, end |-> t, grain |-> "month"]
BY MonthIs DEF periodContaining, monthBounds

(* Periods of n months that begin at a multiple of n after the same month  *)
(* are the same or apart.                                                  *)
LEMMA SameOrApart ==
  ASSUME NEW a \in Int, NEW b \in Int, NEW n \in {1, 3, 12}, NEW i \in Int, a - b = n * i
  PROVE  a = b \/ (a..(a + n - 1)) \cap (b..(b + n - 1)) = {}
<1>1. CASE i = 0
  BY <1>1
<1>2. CASE i >= 1
  <2>1. a >= b + n
    BY <1>2
  <2> QED
    BY <2>1
<1>3. CASE i <= -1
  <2>1. b >= a + n
    BY <1>3
  <2> QED
    BY <2>1
<1> QED
  BY <1>1, <1>2, <1>3

LEMMA PeriodsTile ==
  ASSUME NEW t \in Int, NEW u \in Int, NEW f \in 1..12, NEW g \in Grains
  PROVE  \/ periodContaining(u, g, f) = periodContaining(t, g, f)
         \/ Months(periodContaining(u, g, f)) \cap Months(periodContaining(t, g, f)) = {}
<1> DEFINE S == YearStart(t, f)
           U == YearStart(u, f)
           k == fyEndYear(u, f) - fyEndYear(t, f)
<1>1. /\ S \in Int /\ U \in Int /\ k \in Int /\ U - S = 12 * k
      /\ t - S \in 0..11 /\ u - U \in 0..11
  <2> DEFINE v == fyEndYear(t, f)
             w == fyEndYear(u, f)
  <2>1. v \in Int /\ S \in Int /\ S = 12 * (v - 1) + f - 1 /\ t - S \in 0..11
    BY YearIs
  <2>2. w \in Int /\ U \in Int /\ U = 12 * (w - 1) + f - 1 /\ u - U \in 0..11
    BY YearIs
  <2>3. k = w - v
    OBVIOUS
  <2> HIDE DEF v, w, S, U, k
  <2> QED
    BY <2>1, <2>2, <2>3
<1>2. CASE g = "fy"
  <2>1. /\ periodContaining(t, g, f) = [start |-> S, end |-> S + 11, grain |-> "fy"]
        /\ periodContaining(u, g, f) = [start |-> U, end |-> U + 11, grain |-> "fy"]
    BY <1>2, YearPeriodIs
  <2> HIDE DEF S, U, k
  <2>2. U = S \/ (U..(U + 12 - 1)) \cap (S..(S + 12 - 1)) = {}
    BY <1>1, SameOrApart
  <2>3. U + 12 - 1 = U + 11 /\ S + 12 - 1 = S + 11
    BY <1>1
  <2> QED
    BY <2>1, <2>2, <2>3 DEF Months
<1>3. CASE g = "quarter"
  <2> DEFINE a == S + 3 * ((t - S) \div 3)
             b == U + 3 * ((u - U) \div 3)
             i == 4 * k + (u - U) \div 3 - (t - S) \div 3
  <2>1. /\ periodContaining(t, g, f) = [start |-> a, end |-> a + 2, grain |-> "quarter"]
        /\ periodContaining(u, g, f) = [start |-> b, end |-> b + 2, grain |-> "quarter"]
    BY <1>3, QuarterPeriodIs
  <2>2. a \in Int /\ b \in Int /\ i \in Int /\ b - a = 3 * i
    <3> DEFINE c == (t - S) \div 3
               d == (u - U) \div 3
    <3>1. c \in Int /\ d \in Int
      BY <1>1
    <3> HIDE DEF S, U, k, c, d
    <3>2. a = S + 3 * c /\ b = U + 3 * d /\ i = 4 * k + d - c
      BY DEF c, d
    <3> HIDE DEF a, b, i
    <3> QED
      BY <1>1, <3>1, <3>2
  <2> HIDE DEF a, b, i
  <2>3. b = a \/ (b..(b + 3 - 1)) \cap (a..(a + 3 - 1)) = {}
    BY <2>2, SameOrApart
  <2>4. b + 3 - 1 = b + 2 /\ a + 3 - 1 = a + 2
    BY <2>2
  <2> QED
    BY <2>1, <2>3, <2>4 DEF Months
<1>4. CASE g = "month"
  BY <1>4, MonthPeriodIs DEF Months
<1> QED
  BY <1>2, <1>3, <1>4 DEF Grains

LEMMA OneHint ==
  ASSUME NEW h, NEW f
  PROVE  parsePeriodHint(<<h>>, f) = PeriodOf(h, f)
<1> DEFINE hints == <<h>>
           first == CHOOSE i \in DOMAIN hints : \A j \in DOMAIN hints :
                      \/ Rank(hints[i].form) < Rank(hints[j].form)
                      \/ hints[i].form = hints[j].form /\ i <= j
<1>1. DOMAIN hints = {1} /\ hints[1] = h /\ hints # <<>>
  OBVIOUS
<1>2. parsePeriodHint(hints, f) = PeriodOf(hints[first], f)
  BY <1>1 DEF parsePeriodHint
<1> HIDE DEF hints
<1>3. first = 1
  BY <1>1
<1> QED
  BY <1>1, <1>2, <1>3 DEF hints

(* Whatever month a company's fiscal year begins with, the month, quarter  *)
(* and year a date falls in nest and tile the calendar, and the FY26 and   *)
(* FY26 M5 the book prints are read back as the periods they stand for:    *)
(* fiscal.ts for every date whose two-digit year is of this century.       *)
THEOREM CalendarHolds ==
  ASSUME NEW t \in Int, NEW f \in 1..12, fyEndYear(t, f) \in 2000..2099
  PROVE  PeriodsAgree(t, f)
<1> DEFINE S == YearStart(t, f)
           Q == periodContaining(t, "quarter", f)
           Y == periodContaining(t, "fy", f)
           y == fyEndYear(t, f)
           Said(form, month) == parsePeriodHint(<<[form |-> form, year |-> fyLabel(t, f), month |-> month]>>, f)
<1>1. S \in Int /\ t - S \in 0..11 /\ S = 12 * (y - 1) + f - 1 /\ y \in Int
  <2>1. /\ fyEndYear(t, f) \in Int /\ YearStart(t, f) = 12 * (fyEndYear(t, f) - 1) + f - 1
        /\ YearStart(t, f) \in Int /\ t - YearStart(t, f) \in 0..11
    BY ONLY YearIs
  <2> QED
    BY <2>1
<1>2. Y = [start |-> S, end |-> S + 11, grain |-> "fy"]
  BY YearPeriodIs
<1>3. LET q == S + 3 * ((t - S) \div 3) IN Q = [start |-> q, end |-> q + 2, grain |-> "quarter"]
  BY QuarterPeriodIs
<1> DEFINE q == S + 3 * ((t - S) \div 3)
<1>4. Months(Q) = q..(q + 2) /\ Months(Y) = S..(S + 11)
  BY <1>2, <1>3 DEF Months
<1>5. q \in Int /\ S <= q /\ q + 2 <= S + 11 /\ q <= t /\ t <= q + 2
  <2> DEFINE o == t - S
             c == o \div 3
  <2>1. o \in 0..11 /\ q = S + 3 * c
    BY <1>1
  <2> HIDE DEF o
  <2>2. c \in Int /\ 0 <= c /\ c <= 3 /\ 3 * c <= o /\ o <= 3 * c + 2
    BY <2>1
  <2>3. S \in Int /\ o \in Int /\ t = S + o
    BY <1>1 DEF o
  <2> HIDE DEF S, c, q
  <2>4. q \in Int /\ S <= q /\ q + 2 <= S + 11
    BY ONLY <2>1, <2>2, <2>3
  <2>5. q <= t /\ t <= q + 2
    BY ONLY <2>1, <2>2, <2>3
  <2> QED
    BY <2>4, <2>5
<1> HIDE DEF S, q, Q, Y
<1>6. t \in Months(Q) /\ Months(Q) \subseteq Months(Y)
  BY <1>1, <1>4, <1>5
<1>7. Cardinality(Months(Q)) = 3 /\ Cardinality(Months(Y)) = 12
  <2>1. Cardinality(q..(q + 2)) = (q + 2) - q + 1 /\ Cardinality(S..(S + 11)) = (S + 11) - S + 1
    BY <1>1, <1>5, FS_Interval
  <2> QED
    BY <1>1, <1>4, <1>5, <2>1
<1>8. \A g \in Grains, u \in (t - 12)..(t + 12) :
          \/ periodContaining(u, g, f) = periodContaining(t, g, f)
          \/ Months(periodContaining(u, g, f)) \cap Months(periodContaining(t, g, f)) = {}
  BY PeriodsTile
<1>9. FullYear(fyLabel(t, f)) = y
  BY DEF FullYear, fyLabel
<1> HIDE DEF y
<1>10. Said("fy", 1) = Y
  <2>1. Said("fy", 1) = fyBounds(y, f)
    BY <1>9, OneHint DEF PeriodOf
  <2>2. Y = fyBounds(y, f)
    BY DEF Y, y, periodContaining
  <2> QED
    BY <2>1, <2>2
<1>11. Said("fyMonth", t - Y.start + 1) = periodContaining(t, "month", f)
  <2> DEFINE m == f + (t - S + 1) - 1
  <2>1. Said("fyMonth", t - Y.start + 1) = monthBounds(y - 1 + (m - 1) \div 12, ((m - 1) % 12) + 1)
    BY <1>2, <1>9, OneHint DEF PeriodOf
  <2>2. m - 1 = t - 12 * (y - 1) /\ m \in Int
    BY <1>1
  <2> HIDE DEF m
  <2> DEFINE a == (m - 1) \div 12
             b == (m - 1) % 12
  <2>3. a \in Int /\ b \in Int /\ 12 * a + b = m - 1
    BY <2>2
  <2>4. MonthNo(y - 1 + a, b + 1) = 12 * (y - 1 + a) + (b + 1) - 1
    BY DEF MonthNo
  <2> HIDE DEF a, b
  <2>5. MonthNo(y - 1 + a, b + 1) = t
    BY <1>1, <2>2, <2>3, <2>4
  <2> QED
    BY <2>1, <2>5, MonthPeriodIs DEF monthBounds, a, b
<1>12. LET e == lastCalendarQuarterEnd(t) IN e < t /\ t - e <= 3 /\ MonthOf(e) % 3 = 0
  <2> DEFINE z == YearOf(t)
             m == MonthOf(t)
             e == lastCalendarQuarterEnd(t)
  <2>1. z \in Int /\ m \in 1..12 /\ t = 12 * z + m - 1
    BY MonthIs
  <2>2. \/ m \in 1..3 /\ e = 12 * z - 1
        \/ m \in 4..6 /\ e = 12 * z + 2
        \/ m \in 7..9 /\ e = 12 * z + 5
        \/ m \in 10..12 /\ e = 12 * z + 8
    <3> HIDE DEF z, m
    <3>1. e = CASE m <= 3 -> MonthNo(z - 1, 12) [] m \in 4..6 -> MonthNo(z, 3)
                [] m \in 7..9 -> MonthNo(z, 6) [] OTHER -> MonthNo(z, 9)
      BY DEF lastCalendarQuarterEnd, z, m
    <3> QED
      BY <2>1, <3>1 DEF MonthNo
  <2> HIDE DEF z, m, e
  <2> QED
    BY <2>1, <2>2 DEF e, MonthOf
<1> QED
  BY <1>6, <1>7, <1>8, <1>10, <1>11, <1>12 DEF PeriodsAgree, Q, Y

-----------------------------------------------------------------------------
(* The years of the book's months are of this century, so CalendarHolds.   *)
LEMMA BookMonthsAgree ==
  ASSUME NEW t \in BookMonths, NEW f \in 1..12
  PROVE  PeriodsAgree(t, f)
<1>1. t \in 24000..25187
  <2>1. t \in MonthNo(2000, 1)..MonthNo(2098, 12)
    BY FiscalCalendarAssumption
  <2>2. MonthNo(2000, 1) = 24000 /\ MonthNo(2098, 12) = 25187
    BY DEF MonthNo
  <2> QED
    BY <2>1, <2>2
<1>2. YearOf(t) \in Int /\ MonthOf(t) \in 1..12 /\ t = 12 * YearOf(t) + MonthOf(t) - 1
  BY <1>1, MonthIs
<1>3. YearOf(t) \in 2000..2098
  <2>1. ASSUME NEW y \in Int, NEW m \in Int, NEW u \in Int,
               u = 12 * y + m - 1, m >= 1, m <= 12, u >= 24000, u <= 25187
        PROVE  y >= 2000 /\ y <= 2098
    BY <2>1, SMT
  <2>2. t \in Int /\ t >= 24000 /\ t <= 25187
    BY <1>1, SMT
  <2>3. MonthOf(t) \in Int /\ MonthOf(t) >= 1 /\ MonthOf(t) <= 12
    BY <1>2, SMT
  <2>4. YearOf(t) >= 2000 /\ YearOf(t) <= 2098
    BY <1>2, <2>1, <2>2, <2>3, SMT
  <2> QED
    BY <1>2, <2>4, SMT
<1>4. t \in Int /\ fyEndYear(t, f) \in 2000..2099
  BY <1>1, <1>3 DEF fyEndYear
<1> QED
  BY <1>4, CalendarHolds

LEMMA StartIs ==
  ASSUME NEW o \in {Unfilled} \cup 1..12
  PROVE  fyStartMonth(o) \in 1..12
BY DEF fyStartMonth, DefaultStart, Unfilled

LEMMA CalendarTypeHolds == CalendarSpec => []CalendarTypeOK
<1>1. CalendarInit => CalendarTypeOK
  BY DEF CalendarInit, CalendarTypeOK
<1>2. CalendarTypeOK /\ [CalendarNext]_calendarVars => CalendarTypeOK'
  BY DEF CalendarTypeOK, CalendarNext, calendarVars, PatchFyStart, LookUp
<1> QED
  BY <1>1, <1>2, PTL DEF CalendarSpec

(* Whatever start a company's fiscal year has, however often it is edited  *)
(* and whichever month of the book is looked up: the periods derived from  *)
(* the month tile the calendar and are read back from their names.         *)
THEOREM CalendarAlwaysAgrees == CalendarSpec => []CalendarAgrees
<1>1. CalendarTypeOK => CalendarAgrees
  <2> SUFFICES ASSUME CalendarTypeOK, looked # NoMonth
               PROVE  PeriodsAgree(looked, fyStartMonth(fyOverride))
    BY DEF CalendarAgrees
  <2> DEFINE f == fyStartMonth(fyOverride)
  <2>1. looked \in BookMonths
    BY DEF CalendarTypeOK
  <2>2. fyOverride \in {Unfilled} \cup 1..12
    BY DEF CalendarTypeOK
  <2>3. f \in 1..12
    BY <2>2, StartIs
  <2> HIDE DEF f
  <2>4. PeriodsAgree(looked, f)
    BY <2>1, <2>3, BookMonthsAgree
  <2> QED
    BY <2>4 DEF f
<1> QED
  BY <1>1, CalendarTypeHolds, PTL
=============================================================================
