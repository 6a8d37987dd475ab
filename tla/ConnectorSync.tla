---------------------------- MODULE ConnectorSync ----------------------------
(***************************************************************************)
(* One connector of an organisation that pulls files (OneDrive): admins    *)
(* save credentials, test, authorise and disconnect; syncs list the        *)
(* vendor's artifacts and ingest those they do not know.  Each is one      *)
(* transaction at READ COMMITTED that reads the connector's row first,     *)
(* calls the vendor, and writes the row, with what it read, together with  *)
(* its commit.  What a sync ingested is parsed after the commit, one       *)
(* document after the other, by the process that ran it.                   *)
(*                                                                         *)
(* The sealed secrets are one value, the credential; a credential is       *)
(* accepted by the vendor or not.                                          *)
(***************************************************************************)
EXTENDS Naturals, FiniteSets

CONSTANTS
  Artifacts, \* files the vendor lists, by external id
  Creds,
  Good,      \* the credentials the vendor accepts
  Env,       \* the credential of the process environment, or None
  None,
  Syncs,     \* calls of runConnectorSync   (bound: each is asked for once)
  Inline,    \* those the API runs itself, as Redis did not answer in time
  Checks,    \* tests and OAuth callbacks  (bound: each runs once, as one of the two)
  Ops        \* what may go wrong, a subset of Operations

Operations == {"vendor", "parse", "crash"}
Requests   == Syncs \cup Checks
Statuses   == {"not_connected", "configured", "connected", "error"}
Documents  == Artifacts \X Syncs   \* a row of documents: its external id and who inserted it

ASSUME ConnectorSyncAssumption ==
  /\ Good \subseteq Creds
  /\ None \notin Creds \cup Syncs
  /\ Env \in Creds \cup {None}
  /\ Ops \subseteq Operations
  /\ Inline \subseteq Syncs
  /\ Syncs \cap Checks = {}

VARIABLES
  status,   \* connectors.status
  secret,   \* the sealed secrets, or None
  lastSync, \* whether connectors.lastSyncAt is set
  docs,     \* the committed rows of documents
  parsed,   \* those whose parse has committed
  pc,       \* where each request is
  cred,     \* the credential it resolved, or None
  org,      \* whether that is the organisation's own
  todo,     \* the artifacts a sync has still to look at
  art,      \* the one it fetches
  pending,  \* the documents it inserted and has to parse
  worker,   \* the sync the worker runs: it takes one job at a time
  stalled   \* the syncs whose worker died once

row    == <<status, secret, lastSync>>
locals == <<cred, org, todo, art, pending>>
vars   == <<row, docs, parsed, pc, locals, worker, stalled>>

Init ==
  /\ status = "not_connected" /\ secret = None /\ lastSync = FALSE
  /\ docs = {} /\ parsed = {}
  /\ pc = [r \in Requests |-> "idle"]
  /\ cred = [r \in Requests |-> None]
  /\ org = [r \in Requests |-> FALSE]
  /\ todo = [s \in Syncs |-> {}]
  /\ art = [s \in Syncs |-> None]
  /\ pending = [s \in Syncs |-> {}]
  /\ worker = None
  /\ stalled = {}
-----------------------------------------------------------------------------
Go(r, from, to) == pc[r] = from /\ pc' = [pc EXCEPT ![r] = to]

(* The end of a request: its locals are gone, the worker is free again.    *)
Finish(r, from, to) ==
  /\ Go(r, from, to)
  /\ cred' = [cred EXCEPT ![r] = None]
  /\ org' = [org EXCEPT ![r] = FALSE]
  /\ todo' = [s \in Syncs |-> IF s = r THEN {} ELSE todo[s]]
  /\ art' = [s \in Syncs |-> IF s = r THEN None ELSE art[s]]
  /\ pending' = [s \in Syncs |-> IF s = r THEN {} ELSE pending[s]]
  /\ worker' = IF worker = r THEN None ELSE worker

(* resolveSecrets: the organisation's own secrets win over those of the    *)
(* environment.  Without any a request has only one thing left to write.   *)
Resolve(r, next) ==
  LET found == IF secret # None THEN secret ELSE Env IN
  /\ Go(r, "idle", IF found = None THEN "bare" ELSE next)
  /\ cred' = [cred EXCEPT ![r] = found]
  /\ org' = [org EXCEPT ![r] = secret # None]

(* POST /credentials and /disconnect: each UPDATE sets whatever it sets    *)
(* without looking at the row.                                             *)
Save(c) ==
  /\ status' = "configured"
  /\ secret' = c
  /\ UNCHANGED <<lastSync, docs, parsed, pc, locals, worker, stalled>>

Disconnect ==
  /\ status' = "not_connected"
  /\ secret' = None
  /\ lastSync' = FALSE
  /\ UNCHANGED <<docs, parsed, pc, locals, worker, stalled>>

MissingCredentials(r) ==
  /\ Finish(r, "bare", "done")
  /\ status' = "not_connected"
  /\ UNCHANGED <<secret, lastSync, docs, parsed, stalled>>

Accepts(r) == cred[r] \in Good
Refuses(r) == cred[r] \notin Good \/ "vendor" \in Ops

(* persistSecretColumns: the secrets a request resolved are sealed again,  *)
(* unless they are the environment's.                                      *)
Persist(r) == secret' = IF org[r] THEN cred[r] ELSE secret
-----------------------------------------------------------------------------
(* runConnectorHealth.  A refusal is written with the secrets, an error    *)
(* thrown on the way without.                                              *)
TestRead(t) ==
  /\ Resolve(t, "check")
  /\ UNCHANGED <<row, docs, parsed, todo, art, pending, worker, stalled>>

TestCheck(t) ==
  /\ \/ Accepts(t) /\ Go(t, "check", "ok")
     \/ Refuses(t) /\ (Go(t, "check", "refused") \/ Go(t, "check", "thrown"))
  /\ UNCHANGED <<row, docs, parsed, locals, worker, stalled>>

TestCommit(t) ==
  /\ \/ Finish(t, "ok", "done") /\ status' = "connected" /\ Persist(t)
     \/ Finish(t, "refused", "done") /\ status' = "error" /\ Persist(t)
     \/ Finish(t, "thrown", "done") /\ status' = "error" /\ UNCHANGED secret
  /\ UNCHANGED <<lastSync, docs, parsed, stalled>>

(* The OAuth callback seals what it read with the new token; the test that *)
(* follows is another of Checks.                                           *)
CallbackRead(b) ==
  /\ secret # None \/ Env # None
  /\ Resolve(b, "exchange")
  /\ UNCHANGED <<row, docs, parsed, todo, art, pending, worker, stalled>>

CallbackCommit(b) ==
  /\ Accepts(b)
  /\ Finish(b, "exchange", "done")
  /\ status' = "configured"
  /\ secret' = cred[b]
  /\ UNCHANGED <<lastSync, docs, parsed, stalled>>
-----------------------------------------------------------------------------
(* Mutant: the worker takes a job while it runs another. *)
StartAnyway(s) ==
  /\ s \notin Inline
  /\ Resolve(s, "check")
  /\ worker' = s
  /\ UNCHANGED <<row, docs, parsed, todo, art, pending, stalled>>

(* runConnectorSync begins, in the worker or in the API. *)
Start(s) ==
  /\ s \notin Inline
  /\ worker = None
  /\ Resolve(s, "check")
  /\ worker' = s
  /\ UNCHANGED <<row, docs, parsed, todo, art, pending, stalled>>

StartInline(s) ==
  /\ s \in Inline
  /\ Resolve(s, "check")
  /\ UNCHANGED <<row, docs, parsed, todo, art, pending, worker, stalled>>

SyncCheck(s) ==
  /\ \/ Accepts(s) /\ Go(s, "check", "list") /\ todo' = [todo EXCEPT ![s] = Artifacts]
     \/ Refuses(s) /\ Go(s, "check", "catch") /\ UNCHANGED todo
  /\ UNCHANGED <<row, docs, parsed, cred, org, art, pending, worker, stalled>>

(* The next artifact: known ones are skipped. *)
Known(s, a) == \E d \in docs \cup pending[s] : d[1] = a

Look(s, a) ==
  /\ a \in todo[s]
  /\ Go(s, "list", IF Known(s, a) THEN "list" ELSE "fetch")
  /\ todo' = [todo EXCEPT ![s] = @ \ {a}]
  /\ art' = [art EXCEPT ![s] = IF Known(s, a) THEN None ELSE a]
  /\ UNCHANGED <<row, docs, parsed, cred, org, pending, worker, stalled>>

(* Its file is fetched and stored and its row inserted; files of other     *)
(* kinds and empty ones are passed over.                                   *)
Take(s) ==
  /\ Go(s, "fetch", "list")
  /\ pending' = [pending EXCEPT ![s] = @ \cup {<<art[s], s>>}]
  /\ art' = [art EXCEPT ![s] = None]
  /\ UNCHANGED <<row, docs, parsed, cred, org, todo, worker, stalled>>

(* Listing or fetching throws. *)
VendorFails(s) ==
  /\ "vendor" \in Ops
  /\ Go(s, "list", "catch") \/ Go(s, "fetch", "catch")
  /\ UNCHANGED <<row, docs, parsed, locals, worker, stalled>>

(* The catch block (or the refusal of the check): the status is written    *)
(* and the transaction commits, with the documents inserted so far; they   *)
(* are not parsed.                                                         *)
SyncFails(s) ==
  /\ Finish(s, "catch", "failed")
  /\ status' = "error"
  /\ docs' = docs \cup pending[s]
  /\ UNCHANGED <<secret, lastSync, parsed, stalled>>

(* Mutant: the secrets are not written with the status. *)
StatusOnly(s) ==
  /\ todo[s] = {}
  /\ Go(s, "list", "parse")
  /\ status' = "connected" /\ lastSync' = TRUE
  /\ docs' = docs \cup pending[s]
  /\ UNCHANGED <<secret, parsed, locals, worker, stalled>>

(* Mutant: parses run inside the transaction, where they see no document. *)
ParsesInside(s) ==
  /\ todo[s] = {}
  /\ Finish(s, "list", "done")
  /\ status' = "connected" /\ lastSync' = TRUE
  /\ Persist(s)
  /\ docs' = docs \cup pending[s]
  /\ UNCHANGED <<parsed, stalled>>

SyncCommit(s) ==
  /\ todo[s] = {}
  /\ Go(s, "list", "parse")
  /\ status' = "connected" /\ lastSync' = TRUE
  /\ Persist(s)
  /\ docs' = docs \cup pending[s]
  /\ UNCHANGED <<parsed, locals, worker, stalled>>

(* runParseJob of the next document; when one throws the job fails and the *)
(* others are not parsed.                                                  *)
Parse(s, d) ==
  /\ pc[s] = "parse"
  /\ d \in pending[s]
  /\ parsed' = parsed \cup {d}
  /\ pending' = [pending EXCEPT ![s] = @ \ {d}]
  /\ UNCHANGED <<row, docs, pc, cred, org, todo, art, worker, stalled>>

ParseFails(s) ==
  /\ "parse" \in Ops
  /\ pending[s] # {}
  /\ Finish(s, "parse", "failed")
  /\ UNCHANGED <<row, docs, parsed, stalled>>

SyncDone(s) ==
  /\ pending[s] = {}
  /\ Finish(s, "parse", "done")
  /\ UNCHANGED <<row, docs, parsed, stalled>>

(* The process dies: an open transaction is rolled back, parses that are   *)
(* left are forgotten.  BullMQ puts the worker's job back once.            *)
Crash(s) ==
  /\ "crash" \in Ops
  /\ pc[s] \notin {"idle", "done", "failed"}
  /\ IF worker = s /\ s \notin stalled
       THEN Finish(s, pc[s], "idle") /\ stalled' = stalled \cup {s}
       ELSE Finish(s, pc[s], "failed") /\ UNCHANGED stalled
  /\ UNCHANGED <<row, docs, parsed>>
-----------------------------------------------------------------------------
Sync(s) ==
  \/ Start(s) \/ StartInline(s) \/ MissingCredentials(s) \/ SyncCheck(s)
  \/ (\E a \in Artifacts : Look(s, a)) \/ Take(s)
  \/ VendorFails(s) \/ SyncFails(s) \/ SyncCommit(s)
  \/ (\E d \in Documents : Parse(s, d)) \/ ParseFails(s) \/ SyncDone(s)
  \/ Crash(s)

Next ==
  \/ \E c \in Creds : Save(c)
  \/ Disconnect
  \/ \E t \in Checks : \/ TestRead(t) \/ TestCheck(t) \/ TestCommit(t) \/ MissingCredentials(t)
                       \/ CallbackRead(t) \/ CallbackCommit(t)
  \/ \E s \in Syncs : Sync(s)

Spec == Init /\ [][Next]_vars
-----------------------------------------------------------------------------
(* Types of the state. *)
TypeOK ==
  /\ status \in Statuses
  /\ secret \in Creds \cup {None}
  /\ lastSync \in BOOLEAN
  /\ docs \subseteq Documents /\ parsed \subseteq Documents
  /\ pc \in [Requests -> {"idle", "bare", "check", "exchange", "ok", "refused", "thrown", "list",
                          "fetch", "catch", "parse", "done", "failed"}]
  /\ cred \in [Requests -> Creds \cup {None}]
  /\ org \in [Requests -> BOOLEAN]
  /\ todo \in [Syncs -> SUBSET Artifacts]
  /\ art \in [Syncs -> Artifacts \cup {None}]
  /\ pending \in [Syncs -> SUBSET Documents]
  /\ worker \in Syncs \cup {None}
  /\ stalled \subseteq Syncs

(* docs/connectors/README.md: "connected" means that the last health check *)
(* succeeded, and lastSyncAt is that of a real sync.  Without credentials  *)
(* in the environment, a connector shown as connected has stored           *)
(* credentials that the vendor accepts, whatever saves, tests, syncs and   *)
(* disconnects overlap, and one that shows a sync has credentials at all.  *)
RowIsHonest ==
  Env = None =>
    /\ status = "connected" => secret \in Good
    /\ lastSync => secret # None

(* A re-sync skips what is known: of the worker's syncs, one after the     *)
(* other, only one ingests a file of the vendor, also after failures and   *)
(* stalled jobs, and beside a sync that the API runs.                      *)
IngestedOnce ==
  \A c, d \in docs : c[1] = d[1] /\ {c[2], d[2]} \cap Inline = {} => c = d

InLine(d) == pc[d[2]] = "parse" /\ d \in pending[d[2]]

(* A document that a sync committed is parsed or about to be: nothing else *)
(* would ever parse it.  Only a failure or the death of the process in the *)
(* middle of that sync leaves it aside.                                    *)
SyncedIsParsed ==
  \A d \in docs \ parsed : InLine(d) \/ pc[d[2]] = "failed" \/ d[2] \in stalled

(* What a sync ingested is background work of the process that ran it: a   *)
(* document is owed its parse from the moment it is committed, and left    *)
(* aside only with a failed or stalled job.  A sync that fails half-way is *)
(* the exception: it commits what nothing will parse.                      *)
Situation(d) ==
  IF d \notin docs THEN "unknown"
  ELSE IF d \in parsed THEN "ended"
  ELSE IF InLine(d) THEN "owed" ELSE "lost"
Promise == INSTANCE BackgroundWork WITH
  Work <- Documents,
  state <- [d \in Documents |-> Situation(d)],
  noted <- {d \in Documents : pc[d[2]] = "failed" \/ d[2] \in stalled}
ingestion == <<docs, parsed, pc, pending, stalled>>
NoPullForgotten ==
  /\ Promise!Init
  /\ [][ingestion' # ingestion /\ ~(\E s \in Syncs : SyncFails(s)) => Promise!Next]_vars
=============================================================================
