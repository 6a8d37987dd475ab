# A TLA+ model of the V3 portfolio book

This directory is a verification project for the repository: TLA+ modules for the parts of the
system in which several requests, jobs and processes touch the same rows and for the rules by which
figures are read, shown and released; TLC configurations that check them on small instances; and
TLAPS proofs of the properties that matter most. Paths below are relative to the root of the
repository.

Run inside this directory: `tlc -config MCMetricBook.cfg MCMetricBook` checks a run,
`tlapm MetricBookProofs.tla` checks the proofs of a module.

## 1. Inventory

The system is a portfolio "book" for a venture fund. A Next.js application (`apps/web`) talks
through a proxy of its own to a Hono API (`apps/api`), which reads and writes Postgres
(`packages/db`) and puts jobs on BullMQ queues in Redis; one worker process (`apps/worker`) runs
them, one job per queue at a time. Files live in an object store. Rules without I/O are in
`packages/core`.

**How the parts interact.** Most requests are wrapped in `withOrg` (`packages/db/src/client.ts:37`):
one Postgres transaction at READ COMMITTED which sets the organisation for row level security; the
handlers about members and invitations run statements that commit one by one. No handler takes a
row lock (`FOR UPDATE` does not occur). So each SELECT sees its own snapshot, what was read may be
stale when it is used, and only unique indexes and the row locks of UPDATE serialise writers. Jobs
are enqueued outside the transaction, with a 1.5 s time-out after which the API does the work
itself, although the job may still land (`apps/api/src/queues.ts:43-71`). The browser keeps answers
in SWR's cache, which outlive the session and the role they were given to.

| Component | State | Operations | Hard behaviour | What makes it correct | Module |
|---|---|---|---|---|---|
| Metric book and review inbox (`routes.ts:827-954`, `ingest.ts`, `corrections.ts`, `ops.ts`) | `metric_values` (versions of a figure), `inbox_items`, `corrections` | parse, auto-confirm, confirm, reject | two writers of one figure; the ledger read before and used after other commits; status read before it is used | one chain of versions per figure; nothing reported changes; a decided item has its figure; human values win over extraction | `MetricBook` |
| Upload and parse queue (`routes.ts:656-758`, `queues.ts`, `worker/src/index.ts`, `ingest.ts`, `job-phase.ts`) | files, `documents`, `parse_jobs`, BullMQ's sets | upload, enqueue, time-out, worker takes, inline parse, re-parse | crash between file, row and job; late answers of Redis; stalled jobs; errors rolled back with their record | no listed document is forgotten; every upload ends | `ParseQueue` |
| Extraction (`extract.ts`, `catalog.ts`, `metric-book.ts`, `fuzzy-rank.ts`, `propose.ts`, `fiscal.ts`, `cell-refs.ts`, `sheet-preview.ts`) | the document, the threshold, the formula book, the ledger | rows to proposals, assist of the model, ledger, gate, preview of a citation; editing a company's fiscal year | two readers count rows; settings read before and used after the model answers | guesses are reviewed; a citation leads to its cell; periods tile the calendar | `SheetReader`, `Fiscal`, `FiscalCalendar` |
| NAV marks, lock, pack (`routes.ts:1328-1628`, `nav.ts`, `nav-snapshot.ts`) | `positions`, `marks`, `nav_period_locks`, packs in the object store | mark, edit position, lock, unlock | gate read before a write; lock, unlock and relock of one date; the put inside a transaction | the official pack exists, is of its date, and is never changed by unlock (D7) | `NavLock` |
| Risk flags (`flags-job.ts`, `routes.ts:1274-1326`, `flags.ts`) | `flag_events`, thresholds | refresh, snooze, mute, unmute | a refresh of many statements beside users and other refreshes; locks kept over companies | no alert lost, held rows stay held, refreshes end, the list follows the book | `FlagJob`, detectors in `Figures` |
| Connectors (`connector-jobs.ts`, `connector-secrets.ts`, `connector-routes.ts`, `connectors/`) | `connectors`, sealed tokens, mappings, ownerships | sync, token renewal, test, connect, disconnect, mapping | two syncs at once; disconnect during a sync; parses after the commit; listings that change while they are read | a document is ingested once; what is shown as connected is; a sync brings all | `ConnectorSync`, `VendorPull` |
| Reports, monthly pack (`report-job.ts`, `monthly-pack-job.ts`, `routes.ts:1931-2080`, worker schedules) | `reports`, artifacts | draft, edit, render, daily tick | repeated ticks, lost edits, a render that runs twice | one pack a month; a queued render ends; an edit is lost only under another | `ReportDesk`, `PackJobs` |
| Commentary (`commentary.ts`, `routes.ts:836-857, 2314-2466`) | notes with a lane, inbox items | draft, Granola note, confirm into a lane, reject, typed note | two people confirm one item | judgement is never drafted from management figures | `CommentaryLanes` |
| Organisations, members, invitations (`routes.ts:199-427`, `context.ts`, `org-access.ts`) | members, invitations, the session's organisation | found, select, invite, accept, decline, change role, remove | counting before writing | an organisation keeps an admin; the cap; nobody is joined unasked | `MemberBook` |
| Figures read (`metrics.ts`, `routes.ts` GET handlers, `reports.ts`) | none | current figures, runway, sums, charts, compare, one-pager | every page selects rows on its own | all pages tell one story | `Figures`, `BookNumbers` |
| Ask (`ask.ts`, `routes.ts:1723-1929`, `ask/page.tsx`) | `ask_queries`, the thread of the page | gather evidence, decide, complete, record, follow up | evidence gathered in steps, a model that may write anything | the source of every number is cited | `Ask` |
| Rate limiter (`rate-limit.ts`) | windows in Redis and in memory | hit, fall-back | late Redis answers, decisions by an older time | attempts are bounded | `RateLimit` |
| Web application (`Shell.tsx`, `bff-proxy.ts`, `login`, `onboard`, `confirm`, report editor) | SWR's cache, forms, buttons | gate, sign-in, clicks, edits | answers out of date, errors, cold starts | nobody is thrown out for a slow start; nothing typed is lost silently; what is offered is permitted | `PageAccess`, `BookTab`, `ConfirmPage` |
| Tenant isolation (`rls.ts`), migrations, seed, build | – | – | – | – | section 8 |

The hazards this list implies are in `PROJECT.json`, each at its line and with the properties that
would notice it.

## 2. Modules

| Module | Stands for | Kind |
|---|---|---|
| `MetricBook` | metric book, inbox, correction ledger | component |
| `RestatementLedger` | what the book promises its readers | abstract specification, refined by `MetricBook` |
| `NavLock` | marks, positions, period lock | component |
| `OfficialRecord` | decision D7 of `docs/DECISION.md` | abstract specification, refined by `NavLock` |
| `BackgroundWork` | what a queue promises whoever hands work to it | abstract specification, refined by `ParseQueue` and `PackJobs`, and by `ConnectorSync` but for a sync that fails |
| `ParseQueue` | from an upload to a parsed document | component; a parse is one step here, `MetricBook` looks into it |
| `FlagJob` | the flag refresh and its callers | component |
| `ConnectorSync` | credentials, tests, syncs and disconnect of one connector that pulls files | component; the parse of what it ingested is one step here |
| `VendorPull` | what one sync does at the vendor, company by company, beside people's edits | component |
| `SheetReader` on `Fiscal` | what a parse makes of a document | component on pure operators |
| `FiscalCalendar` on `Fiscal` | a company's start of the fiscal year while it is edited, and the months looked up under it | component on pure operators |
| `MemberBook` | organisations, members, invitations | component |
| `CommentaryLanes`, `ReportDesk` | commentary; reports drafted from it and edited | component, and one that EXTENDS it and composes with it |
| `PackJobs` | the render job and the monthly schedule | component |
| `Figures`, `BookNumbers` | rules of `packages/core`; the pages that use them over one growing book | pure operators, component |
| `Ask` | a question to the book and the thread of the Ask page | component on `Figures` |
| `PageAccess`, `BookTab` | what pages offer and the API permits; one browser tab | pure operators, component |
| `ConfirmPage` | the Confirm page, its lists and its requests | component |
| `RateLimit` | the limiter in front of sign-in | component |
| `MetricBookProofs` | theorems about `MetricBook` and `Ask` | proofs |
| `ConnectorSyncProofs` | theorems about `ConnectorSync`, `VendorPull`, `SheetReader` and `FiscalCalendar` | proofs |
| `ScreenProofs` | theorems about what people see, click and try: `FlagJob`, `BookTab` with `PageAccess`, `ConfirmPage`, `RateLimit`, and what pages read off the book: `BookNumbers` | proofs |
| `NavLockProofs`, `ParseQueueProofs`, `PackJobsProofs`, `ReportDeskProofs`, `MemberBookProofs` | theorems about these components | proofs |
| `MC...` | instances for TLC | model values, inputs, symmetry, scenes |

Definitions marked "mutant" model no code. Each is a definition of the module with a plausible
bug, and `PROJECT.json` names the property that the bug must violate.

### 2.1 MetricBook

`book[k]` is the committed part of `metric_values` for one fact key (company, metric, period start
and end), in commit order; `staged` holds the rows of open transactions, which nobody else sees.
`TopVersion` is `SELECT ... ORDER BY version DESC`, `IndexAdmits` the unique index
`metric_values_version_uidx`: an INSERT of a version that an open transaction holds has to wait,
one of a committed version fails and the request is rolled back (`Rollback`, which may happen
anywhere and also stands for errors and crashes).

| Action | Code |
|---|---|
| `ParseBegin`, `ParseProposal`, `ParseAutoInsert`, `ParseCommit` | `runParseJob`, `writeAutoMetric` (`ingest.ts:41-224`) |
| `LedgerApplied`, `ShouldAutoConfirm` | `corrections.ts:22-37`, `ops.ts:29-47` |
| `ConfirmBegin`, `ConfirmSelect`, `ConfirmInsert`, `ConfirmCommit` | `POST /api/inbox/:id/confirm` |
| `Reject` | `POST /api/inbox/:id/reject` |

Abstracted: extraction (a constant `Extract` gives the proposals of a document), dates and
currencies (part of a key or of a value), audit rows, the commentary branch of confirm. Each
confirm, and each proposal of a parse, is its own sequence of steps, because its SELECT and its
INSERT are separate statements.

### 2.2 ParseQueue

`files` and `listed` are the object store and `documents`; `queue`, `late`, `stalled` and `failed`
are what BullMQ and Redis keep; `run` and `worker` are the parses under way; `jobs` are the
committed `parse_jobs` rows. `EnqueueTimesOut` leaves it open whether the job is still on its way:
the time-out abandons the promise, it does not cancel it. `Fail` has no effect on `jobs`: the catch
block writes `status = "error"` and throws again, so the transaction takes the row back.
`WorkerDies` follows BullMQ's defaults (a stalled job is put back once, then it fails); no
`attempts` are configured, so a job that throws is not retried.

`Situation` reads the state as one of `BackgroundWork`: a listed document has ended when its phase
is done, is owed a parse while one is under way, queued or about to be run for its upload, and is
lost otherwise; a failed job and an upload that was refused are the notes of a loss. A job that may
still land late is not counted: what depends on it alone is lost until it lands (`TryAgain`).

### 2.3 NavLock and OfficialRecord

`assembleNavBook` reads the positions and then the marks; `LockPositions` and `LockMarks` are these
two reads, `Books` the books they may come to. The comparator of the sort (`routes.ts:1341`) never
returns 0 and the SELECT has no ORDER BY, so which of two marks of one date counts is left open.
A pack is known by its content, as in the code, where its key contains the hash of it.
`OfficialRecord` says: packs are published before they become official, published packs stay,
unlock leaves the official pack where it is, each lock makes a different pack official.

### 2.4 FlagJob

A refresh is one transaction over all companies. Per company the steps are `Detect` (read the
book, run the detectors), `ReadHeld` (read muted and snoozed rows), `Aim` and `ClearAndRaise` (the
UPDATE of the open rows, which waits for rows another transaction has updated and then looks at
them again, followed by the INSERTs). Rows it has updated stay locked until `Commit` or rollback,
which is where two refreshes can wait for each other (`Deadlock`). What the detectors compute is
abstracted to the set of keys they find; `cond` is that set. A book change is any change of it.

### 2.5 ConnectorSync

`status`, `secret` and `lastSync` are the row of `connectors`; the sealed columns are one value, a
credential the vendor accepts or refuses. Every request reads the row first (`Resolve` stands for
`resolveSecrets`), talks to the vendor, and writes at its end what it read at its beginning.

| Action | Code |
|---|---|
| `Save`, `Disconnect` | `POST /api/connectors/:kind/credentials`, `disconnectConnector` |
| `TestRead`, `TestCheck`, `TestCommit` | `runConnectorHealth` |
| `CallbackRead`, `CallbackCommit` | `GET /api/connectors/onedrive/callback` |
| `Start`, `StartInline`, `SyncCheck`, `Look`, `Take`, `VendorFails`, `SyncFails`, `SyncCommit` | `runConnectorSync`, `syncOnedrive`, up to the commit |
| `Parse`, `ParseFails`, `SyncDone` | the parses after it |
| `MissingCredentials` | the early return of both |
| `Crash` | a process dies; BullMQ puts its job back once |

Abstracted: the last UPDATE of a request and its commit are one step, as only row locks lie
between them; a document is its external id together with the sync that inserted its row; tokens,
file types and the company mapping are `VendorPull`'s.

As `BackgroundWork`, a document is owed its parse while its sync has still to run it (`InLine`);
a failed sync and a worker that died once are the notes of a loss. `SyncFails` is no step of the
promise, as it commits documents that nothing will parse (section 6), so `NoPullForgotten` is about
every other step.

### 2.6 VendorPull

One connector of one vendor. `Begin` reads the companies and their mapping once
(`connector-jobs.ts:193`), `Turn` takes the next company. OneDrive: `ListPage` asks for the page
after the last file seen (`graphChildren`, `nextLink`), `TakeFile` passes over known, foreign and
empty files, `TurnPage` follows the link. Affinity: `FetchShare` writes the ownership of one
position of the company. Granola: `FetchNote`. `Succeed`, `Fail` and `Commit` are the two ends: a
failed sync keeps what it has written (`connector-jobs.ts:213`) and loses the renewed token. `Move`
and `TokenExpires` are the vendor. `EditRead` and `EditWrite` are the PATCH handlers of companies,
mappings and positions, which read a row and write all its columns. `told` is what was set last,
`overlapped` the columns that were set between a read and its write-back.

### 2.7 SheetReader, Fiscal, FiscalCalendar

The document is a header row and rows of a label and cells; a label is the record of the aliases and
phrases it equals, contains or resembles and the units and periods it names, so that the code's
string matching becomes set membership while its order of precedence stays (`matchMetricAlias`,
`suggestCatalogMetricFuzzy`, `detectUnit`, `Period`). `RunParse` is `extractBuffer` and the decision
whether the model is asked; `Assisted` its reply, filtered by `numberAppearsInSource` and the
excerpt (`Resolved`), merged (`mergeExtractProposals`), corrected by the ledger and judged by the
gate with the threshold read before (`Write`). `SaveThreshold`, `SaveFormulaBook` and `Correct` are
people meanwhile. `RowsRead` leaves blank rows out, as every path to the reader does: its r-th row
is the r-th of the document that is not blank (`NthFilled`). `Preview` and `SourceViewer` follow a
locator the way the citation drawer does; the letters of a column are the recursive function
`colToLetter` and its inverse `a1ToRC`, compared over all columns a workbook may have.

`Fiscal` represents a date by the number of its month; `PeriodsAgree` states against each other the
five ways `fiscal.ts` derives a period: containing a date, by quarter, by year, from a label and
from a hint. `FiscalCalendar` is the column `companies.fy_start_month`, which may be NULL and then
means April; `PatchFyStart` edits it, and `LookUp` derives the periods of a month from what it is then.

### 2.8 MemberBook

Every statement of these handlers commits by itself. `Begin` is `sessionMiddleware` with the role it
read; `ReadMembers` and `WriteMember` are the two halves of PATCH and DELETE of a member, `CountOrgs`,
`CreateOrg`, `SetActive` of founding, `CreateInvitation`, `ReadInvitation`, `Expire`, `Accept`,
`Reject` of inviting. What Better Auth writes is modelled from its use and marked external. History
variables: `raced`, organisations written to from a list that was out of date; `founders`, rows
nobody changed since.

### 2.9 CommentaryLanes and ReportDesk

`ConfirmRead` and `ConfirmWrite` are the commentary branch of confirm, `Draft`, `IngestNote`,
`RejectItem` and `WriteNote` the other ways a text moves; `assertCommentaryLane` is the gate. A text is
named by the item or the request it came from. `ReportDesk` EXTENDS it: `DraftReport` takes the
notes of a period into the columns of a page and of the pack's sheet, `PatchRead` and `PatchWrite`
are `PATCH /api/reports/:id`, which reads the body and writes it whole.

### 2.10 PackJobs

`PostReport`, `enqueueReport`, `enqueueTimesOut`, `RenderInline` are a request; `RunTick`,
`DraftPack`, `AddArtifact`, `TickDies` the daily schedule; `WorkerTakes`, `PutFile`, `RenderDone`,
`RenderFails`, `RenderDies` the job. `Locked` is the row lock of its first UPDATE. A month has two
days here. `disturbed` records that the schedule did not run on its day or its day was moved,
`orphans` that a crash lost a job. As `BackgroundWork`, a pack that is drafted is owed its file while
`OnItsWay` finds it between its request or tick, Redis and a renderer, has ended when it is ready or
failed, and is lost otherwise; the orphans are the notes.

### 2.11 Figures and BookNumbers

`Figures` are the rules of `metrics.ts`, `flags.ts`, `nav.ts` over integers and `Null`; ratios stay
fractions, thresholds percentages, so nothing is rounded. `BookNumbers` grows one book
(`ConfirmMetric`, `PostMark`, `SavePolicy`, `DayPasses`) and defines each page as the handler
computes it: `CompanyPage`, `CommandPage` and its charts, `Compare`, `OnePager`, `PackFigure`,
`Flags`, `NavBook`, `CommandPulse`.

A version is counted per key, start and end (`routes.ts:871-883`), while a series keeps one row per
end, the first of the highest version (`metrics.ts:26-34`). So of a month, a quarter and a year that
end on one day, each at version 1, the order of the SELECT decides, and there is no ORDER BY.
`latestByMetricPeriod` is therefore the set of the current rows that some order leaves; `Books` and
`Sheets` are those of all rows and of the objective ones, and a page is an operator of one of them. A
row's `span` is how far its period reaches back from its end. `told` keeps what was confirmed last of
each key, end and span. The one-pager takes a `runway_months` that is itself in the book before the
derived one.

### 2.12 Ask

`AskChunks`, `AskFacts`, `Decide`, `Complete`, `Quote`, `ModelFails` are the handler in its three
transactions; `BookFact` and `Index` change the book in between. A text is the set of its words, the
set of its numbers, how it begins (`head`, 40 characters) and the numbers a citation of it shows
(`shown`, those in the first 400 characters). The answer is checked against whole texts, and what is
stored are citations: `citationsFrom` cuts each text (`Cut`) and of those of one source that begin
alike (`Alike`) keeps the first. Queries and turns also keep the evidence itself, for the properties
alone. `Quote` is the provider without a key, which answers with what fits of the
evidence. `Submit`, `PageGivesUp` and `resetChat` are the page: a follow-up sends the last four
turns as part of the question (`FollowUp`).

### 2.13 PageAccess, BookTab, ConfirmPage

`PageAccess` holds two tables: the requests each page offers for a role (`...Offers`, from the
components) and those the API permits (`Permits`, from the guards of its handlers). `BookTab`
puts a tab between them: SWR's cache of `/api/me`, the gate and its hint (`GateReacts`,
`HintAnswers`), the proxy's classification of failures (`fetchUpstream`), login, onboarding, and the
report editor, whose form is reset by a row that differs (`Reset`). The row is all that
`GET /api/reports/:id` returns: the text, and the state of the file, which a render job changes
(`RenderEnds`). The API keeps 200 characters of a title and 4000 of a line; a piece of text beyond
that is `Overlong`, and `SaveLands` stores the rest. `ConfirmPage` has the cached
lists per status, `keepPreviousData` (`KeptOver`), `busy`, the two clicks of Reject, the requests and
their answers, lost ones included. SWR is modelled from its options and marked external.

### 2.14 RateLimit

Sliding windows in Redis (`shared`) and in each process (`buckets`). A request reads the clock and
sends its script (`allowRequestShared`); it is decided later, by that time, when the script's answer
comes (`redisAllow`) or when Redis is down or 800 ms are over (`allowRequest`), requests in any
order. A script that runs without being heard counts its request all the same (`LateScript`), and the
key goes a window after its last hit (`KeyExpires`). A request that waits holds the clock back after
`Patience` ticks: that is the assumption that the time-out fires in time. A hit is its time and its number, as a member of the sorted set is its time
and a random number; `through` records which window let it through.

## 3. Runs

| Run | Instance | Distinct states | Shows |
|---|---|---|---|
| `metric_book` | scene *book*: 2 parses, 2 reviewers, 2 keys, 2 documents with 2 proposals each, auto-confirm at 90 %; scene *ask*: 3 facts and 2 chunks of 2 companies of which 2 are known, two chunks that begin alike and one cut, 3 questions, 1 answer of a model, threads of 4 turns | 2.7 M | `VersionChain`, `ConfirmedIsBooked`, `LedgerReapplied`, `CorrectionIsBooked`, refinement of `RestatementLedger` (`KeepsPromise`); `AnswersAreSourced` |
| `nav_lock` | 2 positions, 2 dates, 2 marks, 1 edit, 2 locks, unlocks | 283 k | `PackIsOfItsDate`; refinement of `OfficialRecord` (`KeepsRecord`) |
| `flags_serial` | 1 company, 3 confirms, refreshes by the worker, mutes, snoozes, failures, 2 times | 720 k | `ShownOnce`, `HeldRowsStay`, `NoAlertLost`, `FlagsCatchUp` |
| `flags_race` | 2 companies, 2 requests, worker and inline refreshes at once, failures | 36 k | `RefreshesEnd`, deadlocks included |
| `parse_queue` | 2 uploads, one unreadable, time-outs, crashes, failures, re-parses | 41 k | refinement of `BackgroundWork` (`NoUploadForgotten`); `EveryUploadEnds` |
| `intake` | scene *sync*: 2 syncs by the worker, 1 by the API, 1 test or callback, 2 credentials; *sheet*: 2 rows of 2 columns, 5 labels, 2 formula books, one of 5 replies of a model, a correction, the lowest threshold; *pull*: 2 companies, 2 positions, 3 files on pages of 2, an editor, 2 syncs; *year*: 24 months, any edits of a start | 3.4 M | `RowIsHonest`, `IngestedOnce`, steps of `BackgroundWork` (`NoPullForgotten`); `GuessesAreReviewed`, `CitesItsCell`; `SyncBringsAll`, `RowsLostOnlyByOverlap`; `CalendarAgrees` |
| `members` | 2 users, 3 organisations, 1 invitation, 2 requests at once, cap 1 | 4.1 M | `LastAdminLeavesByRace`, `CapIsNearlyKept`, `JoinedByAccepting` |
| `reports` | 1 inbox item, 2 documents, 2 requests, 1 report, 2 periods, 2 notes | 11 M | `ColumnsHoldTheirLane`, `EditsLostOnlyByOverlap` |
| `pack_jobs` | 1 request at a time, 2 packs, a month of 2 days and the first day of the next, late ticks, crashes, failures, time-outs | 0.9 M | `OnePackAMonth`, `QueuedEnds`; refinement of `BackgroundWork` (`NoPackForgotten`) |
| `numbers` | 3 ends, cash of each for a month and a year, 5 metrics, a booked runway among them, 2 positions, 2 mark dates, any 4 figures or marks in any order, 2 policies | 1.0 M | `PagesTellOneStory`, `FlagsHaveEvidence`, `BridgeIsTheDifference` |
| `web` | scene *tab*: an analyst or a viewer at first, 2 events from elsewhere, 2 pieces of text, one overlong; *confirm*: 2 items, 3 requests, 2 at once, 1 move of others; *limiter*: Redis and 1 process, 5 requests, limit 2 per 3 ticks, each decided within 1 | 3.4 M | `AwayOnlyWithCause`, `RefusedOnlyWhenStale`, `TypedIsKept`; `BookedIsRejectedUnseen`, `TwiceOnlyBesideOthers`; `AttemptsBounded` |
| `pack_stale` | the instance of `numbers` with 3 rows | violation | `PackIsCurrent` fails: section 6 |

**Scenes.** Where one instance holds several components that share no state, a variable `scene`,
chosen at the start, says which of them moves; the others stand still in one initial state. So the
run checks each component alone and its states are the sum of theirs, not the product.

**Why the bounds are enough.** A race needs two writers of one row: two of each actor give all
pairs (parse and parse, parse and confirm, confirm and confirm), and versions up to 4 occur. Two
keys are needed so that one parse can hold rows of several figures and a reviewer can move an item
to another key. Locks of two dates and a relock of one of them need two lock requests and one that
unlocks again and again. A deadlock needs two companies and two refreshes; the flags that are open
at the start give it rows to lock. `FlagsCatchUp` needs a confirm while the refresh of an earlier
one runs: 3 requests. `MaxRuns` in `parse_queue` is 8, more than the two documents can start.
`MaxTime` 1 gives a snooze that ends beside a refresh. In the scene *sync* one file is enough, as
files do not interact; the scene *pull* has three on two pages, so that the second page begins
where a file was added or went. The environment has no credential (`Env = None`); `RowIsHonest` is
about that case.

A threshold of 50 is the lowest the settings admit, at which a guess comes nearest to passing. Two
rows under a header are the least that give a row after a blank one and two proposals that repeat
each other. The last admins of an organisation are two users and two requests; three organisations
exceed the cap of one by as many as the requests may. Two requests on one item or one report give
each overlap of a read with another's write. Packs are drafted in a month of two days and on the
first day of the next, so that a tick can be late within its month or after it, and a month can be
packed twice or missed. Four rows of the book are a restated figure and two further ones, or two
marks and two figures: a runway before and after, a bridge and a flag. A turn of Ask sees four turns
before it; a thread of four has a follow-up of a follow-up. Its two chunks have one source and begin
alike, and one is too long for a citation. Cash of a month and a year of one end gives both orders
of a SELECT; three ends keep an older figure beside two of one end. Two events from elsewhere are a
session that ends and a role that changes, or a cold start, a render that ends or a colleague's save
and either; signing out counts as one. An analyst and a viewer are the two kinds of role, those that
write and those that do not; a change of role reaches the others. A limit of two is the least at which
an older request can count too few hits after a younger one dropped some, and five requests are
one more than two counters may let through. Three requests of the Confirm page, two at once, are the least at which `busy` is taken from a row by
another's answer.

Requests stop when all have run, so deadlock is not checked in the runs that say so; it is in
`numbers`, where the policy can always be saved again.

## 4. Fairness

All modules but three have none: their properties are safety properties, and users owe no step.

`FlagJob`: weak fairness of `Enqueue` (the API goes on after its commit), of the steps of a refresh
(the worker takes the next job when it is free, Postgres executes statements), and of
`Deadlock` (Postgres looks for deadlocks after `deadlock_timeout`). None for confirms, mutes,
snoozes, and none for failures.

`ParseQueue`: weak fairness for an upload the API has accepted, for a job on its way to Redis and
for the end of a parse; strong fairness for `WorkerTakes` of each document, because the worker may
be busy with others in between and BullMQ serves its waiting list in order. A crash
(`ApiDies`, `WorkerDies`) is never owed.

`PackJobs`: strong fairness for `WorkerTakes` of each report, for the same reason and because an
inline render may hold the row; weak fairness for storing the file and marking the row. Requests,
ticks, failures and crashes are not owed.

## 5. Proofs

The theorems hold for every value of the constants: any number of jobs, reviewers, keys, documents,
positions, dates, credentials, files, parses, reports, notes and requests.

| Module | Theorem | Statement |
|---|---|---|
| `MetricBookProofs` | `TypeCorrect` | `Spec => []TypeOK` |
| | `VersionsNeverFork` | `Spec => []VersionChain` |
| | `WritersTakeTurns` | `Spec => []OneWriterPerKey` |
| | `BookKeepsPromise` | `Spec => KeepsPromise`: `MetricBook` implements `RestatementLedger` |
| | `NoEmptyConfirm` | `Spec => []ConfirmedIsBooked` |
| | `OverridesWin` | `Spec => []LedgerReapplied` |
| | `LedgerIsBacked` | `Spec => []CorrectionIsBooked` |
| | `AnswersHaveSources` | `AskSpec => []AnswersAreSourced` |
| `NavLockProofs` | `TypeCorrect` | `Spec => []TypeOK` |
| | `OfficialPackIsStored` | `Spec => []PackIsStored` |
| | `OfficialPackIsOfItsDate` | `Spec => []PackIsOfItsDate` |
| | `RecordIsKept` | `Spec => KeepsRecord`: `NavLock` implements `OfficialRecord` |
| `ConnectorSyncProofs` | `TypeCorrect` | `Spec => []TypeOK` |
| | `ConnectedIsHonest` | `Spec => []RowIsHonest` |
| | `FilesIngestedOnce` | `Spec => []IngestedOnce` |
| | `SyncedFilesAreParsed` | `Spec => []SyncedIsParsed` |
| | `PullsAreKept` | `Spec => NoPullForgotten`: every step but `SyncFails` is one of `BackgroundWork` |
| | `NothingElseReverts` | `PullSpec => []RowsLostOnlyByOverlap` |
| | `NothingIsPassedOver` | `PullSpec => []SyncBringsAll` |
| | `OnlyReadingsPassTheGate` | `SheetSpec => []GuessesAreReviewed` |
| | `SourcesLeadBack` | `SheetSpec => []CitesItsCell` |
| | `CalendarHolds` | `PeriodsAgree(t, f)` for every month t of a fiscal year of this century and every start f |
| | `CalendarAlwaysAgrees` | `CalendarSpec => []CalendarAgrees` |
| `ParseQueueProofs` | `TypeCorrect` | `Spec => []TypeOK` |
| | `ListedFilesAreStored` | `Spec => []ListedIsStored` |
| | `NobodyForgets` | `Spec => []Accounted` |
| | `DoneDocumentsStayDone` | `Spec => DoneStaysDone` |
| | `UploadsAreKept` | `Spec => NoUploadForgotten`: `ParseQueue` implements `BackgroundWork` |
| `PackJobsProofs` | `TypeCorrect` | `Spec => []TypeOK` |
| | `ReadyPacksAreStored` | `Spec => []ReadyIsStored` |
| | `QueuedPacksAreAccounted` | `Spec => []QueuedIsAccounted` |
| | `OnePackEveryMonth` | `Spec => []OnePackAMonth` |
| | `PacksAreKept` | `Spec => NoPackForgotten`: `PackJobs` implements `BackgroundWork` |
| `ReportDeskProofs` | `TypeCorrect` | `Spec => []TypeOK` |
| | `LanesNotBlended` | `Spec => []ColumnsHoldTheirLane` |
| | `EditsSurvive` | `Spec => []EditsLostOnlyByOverlap` |
| `MemberBookProofs` | `MembersTypeCorrect` | `Spec => []TypeOK` |
| | `LastAdminIsKept` | `Spec => []LastAdminLeavesByRace` |
| | `NobodyJoinsUninvited` | `Spec => []JoinedByAccepting` |
| | `CapOverrunIsBounded` | `Spec => []CapIsNearlyKept` |
| `ScreenProofs` | `FlagsTypeCorrect` | `Spec => []TypeOK` (of `FlagJob`) |
| | `HeldRowsAreKept` | `Spec => HeldRowsStay` |
| | `AlertsAreKept` | `Spec => NoAlertLost`, if nobody unmutes |
| | `OnlyOneShown` | `Spec => []ShownOnce`, if only the worker refreshes and nobody unmutes |
| | `NobodyIsThrownOut` | `TabSpec => AwayOnlyWithCause` |
| | `RefusalsAreStale` | `TabSpec => RefusedOnlyWhenStale` |
| | `TypingSurvives` | `TabSpec => []TypedIsKept` |
| | `NobodyRejectsTheBooked` | `PageSpec => BookedIsRejectedUnseen` |
| | `RequestsComeAlone` | `PageSpec => []TwiceOnlyBesideOthers` |
| | `GuessingIsBounded` | `LimitSpec => []AttemptsBounded` |
| | `NumbersAreTyped` | `NumbersSpec => []NumbersTypeOK` |
| | `OneStory` | `NumbersSpec => []PagesTellOneStory` |
| | `FlagsAreEvidenced` | `NumbersSpec => []FlagsHaveEvidence` |
| | `BridgeTellsTheDifference` | `NumbersSpec => []BridgeIsTheDifference` |

The only assumptions are the named ones of the modules, and TLC evaluates each on its run:

- the types of the constants (`MetricBookAssumption`, `NavLockAssumption`,
  `ConnectorSyncAssumption`, `ParseQueueAssumption`, `CommentaryLanesAssumption`,
  `ReportDeskAssumption`, `FlagJobAssumption`, `ConfirmPageAssumption`), that requests of different
  kinds differ, and that the null value is none of the others and no record;
- `PackJobsAssumption`: there is a month before the first day of the packs;
- `RateLimitAssumption`: limit and window are numbers, the patience no longer than the window, and the
  processes finitely many;
- `MemberBookAssumption`: the cap is at least 1 (the code has 5, `packages/config/src/index.ts:17`)
  and requests are finitely many, which counting them needs;
- `VendorPullAssumption`: files are numbered from 1, so that 0 is the place before the first, and a
  page holds at least one;
- `FiguresAssumption`, `BookNumbersAssumption`: a missing figure is no integer and no mark; dates are
  integers, positions and mark dates finitely many, and there are some of each (a fund without a
  position has no bridge); cash, burn, revenue and the booked runway are among the metric keys;
- `SheetReaderAssumption`: a catalog has finitely many keys, a text a length, aliases are texts, columns
  are counted, and null is no locator;
- `FiscalCalendarAssumption`: the months of the book lie in the years 2000 to 2098, as `fiscal.ts` reads
  the two digits of FY26 as a year of this century;
- `AskAssumption`: periods are integers, and a question has its firm, words and numbers.

Two theorems about flags have a hypothesis on the kinds of request that occur (`Ops`), which is that
of the run `flags_serial` and is needed: an unmute between `ReadHeld` and the UPDATE of a refresh
puts a row on the list which that refresh then clears, having skipped its condition as held; and
two refreshes at once may raise one condition twice. The worker's refreshes come one at a time.

**MetricBook.** `VersionChain` is not inductive as it stands. The argument for it is in `ChainInv`:
the rows a transaction has staged for a key continue the committed chain, at most one transaction
has staged rows for a key, and a row about to be inserted names its version and the one it restates.
A row may be stale: then its version is not the next one, and the step that matters is `Insert`. If
the version is too low the index holds it already; it is never too high, because committed rows
never vanish and rows of others were not seen. `SourceInv` adds that a figure of the book comes from
an item that is decided, and a staged one from an item its own transaction decides; the refinement
follows from both, as committing appends to histories and `Reject` moves items only between decided
statuses or out of review.

The other three invariants are about what an open transaction will have written when it commits.
`WriterInv`: a row, prepared or staged, carries the name of its own transaction and a reviewer's the
item under review, and the job of a committed row is over. `HeldInv`: a reviewer about to commit has
inserted its row, and a job has one for every proposal it confirmed but that which it is about to
insert; so when an item becomes confirmed, its figure becomes visible with it (`ConfirmedIsBooked`).
`CorrectionIsBooked` asks for a place in the book for each row of the ledger; the places so far stand
(`Backs`), since a chain only grows, and the commit that adds a ledger row publishes its version at
the end of the chain of its key, after all of them (`StepCorrection`). `ReapplyInv` follows the
ledger a parse has read through `row`, `staged` and `book`; that the job of a booked row is over is
what keeps a later reading of its ledger from contradicting it.

**Ask.** `AskInv`: whatever has been gathered for a question is `Citable`, in the book and within the
company asked about, which stays so since facts and chunks are only added; once the model is asked
the filtered evidence is not empty; and while the page waits, the question under way holds the
numbers of the last four turns, of which the last is the user's. The last part is what makes an
answer that is appended stand below its own question although the page may have given up and asked
again. The cash row of a runway is one of finitely many and so one of them is newest (`NewestIs`).
That the source of each text stays cited after the cut is a fact about `citationsFrom`: what it drops
is alike to something it keeps, and it keeps only cuts of evidence (`CitationsStand`). With a set of
finitely many texts there is such a choice; the proof needs only that any choice has these two parts.

The proof of `MetricBook` is laid out as: lemmas about appending and publishing rows, one lemma per
action and invariant part, the inductive steps, the temporal theorems.

**NavLock.** `RequestOK` says what a request holds in each place; from the put on, a lock holds a
pack of its own that is in the store and of its date. `PackIsNew` is the strengthening the
refinement needs: no period names a pack of a lock that has not ended, so a lock that commits makes
a pack official that is official nowhere. Rows, packs and marks never go away, which is why the step
of one request does not disturb what another holds (`OthersKeep`).

**ConnectorSync.** `CredOK`: past its check a request holds a credential that the vendor accepts and,
without one in the environment, the organisation's own. That is what it writes back with
`connected`, so `RowIsHonest` survives although the row may have changed in between. `IngestedOnce`
has no index to rest on; it rests on `OneAtATime`, that only one of the worker's syncs is under way,
and on `FreshOK`, that what this one has inserted is not among what the others have committed. The
step of a request is first shown to leave the locals of all others alone (`OnlyOf`); then one lemma
each for beginning, going on and ending serves all actions of that kind.

**ParseQueue.** `Accounted` is not inductive: it lets any parse answer for a document, but one that
was asked for by `POST /parse/:id` fails without a trace. `OwedOrDone` counts only the parses that
leave one, of the worker (in the failed set, or back on the queue) and of an upload (refused), and
then each step hands the document on from one place to the next. A document that is not stored is
nowhere (`StartsStored`), which is why only stored ones can be listed. `DoneStaysDone` needs that
every row of `parse_jobs` that can be seen is of a parse that succeeded, and that one of a
document's rows is the latest (`RowsAreDone`): without a latest one the phase would be anything.

**BackgroundWork.** Both implementations, and the steps of the third, are shown by the same three
facts. What is on record only grows (`RecordGrows`, `NotesStay`); whatever is lost after a step is
on record, which is what `Accounted`, `QueuedIsAccounted` and `SyncedIsParsed` say in the state
after it; and nothing ends that was not owed just before. `ParseQueue` needs for the last that a
document not listed yet has no job, parse or row (`StartsListed`), and that an upload runs one parse
and waits for it (`UploadRuns`), so that a refusal is never taken back. A late job counts for
nothing: the step that loses its document notes it, or it was lost before. `ConnectorSync` needs
that only committed documents are parsed or in line for it (`Committed`); a step that neither
commits nor parses puts none in line (`Quiet`). What `SyncFails` commits is lost without ever having
been owed: with that action included TLC finds the promise broken, which is the sixth disagreement
of section 6.

**PackJobs.** `RenderersOK` says that the row lock admits one renderer of a pack, that a renderer
past its put has stored the file, and that a request renders only the pack it is waiting for: so a
request that dies, or ends, takes no other pack's answer with it. `Drafted` says that jobs,
requests and the tick are about packs that are in the table. `OnItsWay` names where a pack that is
not rendered may be; each step either leaves it there or counts the pack among the orphans.

**ReportDesk.** Columns are sets of texts, so the proof follows the notes they were taken from: an
item with a note was decided and its lane admits its document (`NotesOK`), which stays so because
an item never changes its document; a confirmation about to write was checked against it
(`ConfirmsOK`); and if an item has a note already it is not pending, so a second one into the other
lane is counted in `twice` (`OneLaneOrTwice`). Notes are never deleted, so a column that was read
before an edit is still noted after it (`PatchesOK`), which is what the write of the whole body
needs. The edit's own argument is short: if the row is what was read, what is written is what the
edits give.

**PackJobs, months.** `OnePackAMonth` is not inductive: it says nothing of the month that is running.
`MonthInv`, while nothing has disturbed the schedule: a tick waits or runs, and runs only on the day
of the pack (`Regular`); and this month has its pack exactly when its tick has passed that day
(`Made`), earlier months have one, later ones none (`Monthly`).

**VendorPull.** `RowsLostOnlyByOverlap` needs only that what a handler has opened is what the row held
or the column counts as overlapped (`PullShape`). `SyncBringsAll` is about the end of a sync; `DueOK`
says of everything the sync has seen standing all along that it is either here already or still due:
of a company to come, on the page at hand, or beyond the cursor of one to be asked for. So taking
a file, turning a page and moving on to the next company each hand it on, and at the end nothing is
due. Files that go drop out of what was seen; files that come were not in it.

**SheetReader.** Below the gate the argument is arithmetic over the confidences of `extract.ts`: a
likeness, a memo, an unknown unit and a model's reply all end below the lowest threshold, so a
proposal that passes was `Earned` (`ProposalOK`), whichever alias won, since the reader keeps the
longest of finitely many (`LongestIs`). What remains is the ledger, which raises any confidence to
99 and is the exception the property makes. For `CitesItsCell`, `SourcesOK` says of every proposal
of a workbook that it holds the locator and the excerpt of a cell of the rows read, or is the
model's and holds no locator; the ledger and the cap change neither. That the locator leads back is
then about two operators. `RowIs`: if none of the first r rows is blank, the r-th row read is the
r-th of the workbook (r is the one number below which r rows are filled). `ColumnIsRead`: `a1ToRC`
undoes `colToLetter`, for every column. Both are recursive, one over numbers and one, as a fold,
over sets of places, so that they are defined at all is part of the proof (`ColumnsExist`,
`CountsExist`); a word that grows by a letter counts 26 times as much and the letter (`WordGrows`),
and so does a column.

**Fiscal, FiscalCalendar.** `CalendarHolds` is arithmetic. `YearIs`: a month is at most 11 after the
one its fiscal year begins with, whose number is 12 times the year's and the start. Years of
different months so begin a multiple of 12 apart, quarters a multiple of 3, and periods of n months
that begin a multiple of n apart are the same or disjoint (`SameOrApart`). The bound on the year is
that of the two digits of FY26, which `fiscal.ts` reads as 2026. `CalendarAlwaysAgrees` adds that
the start in force is one of 1 to 12 through any edits, and that every month of the book lies in
such a year (`BookMonthsAgree`).

**MemberBook.** A request that has read the list and passed the guard still has the guard's answer
for the list it saw (`CheckedOK`); if the list is unchanged the write keeps an admin, and if not, the
organisation counts as raced. Rows keep their organisation, user and source and new ones come after
the old (`Onward`), so an accepted invitation stays the source of its row (`ViaExists`). `CapInv`
counts, for each user, the organisations founded and the requests that have passed the cap without
having created: founding trades one for the other, and only the count can add, under the cap.

**FlagJob.** `LocksOK` is the row lock: rows a refresh has cleared are open to everyone else until it
commits and are cleared by no other, and rows it has raised are invisible until then. For
`AlertsAreKept`, a condition a refresh passed over is held beyond the time it read, and all else it
found is raised, company by company (`FoundOK`). For `OnlyOneShown`, a refresh by the worker is alone,
aims at every open row of its company and has locked those of the companies behind it (`SerialOK`).

**BookTab.** `CauseOK` ties the cache to the outside: whenever the session, the membership or the
API is in trouble, both the answers to come and the answer in the cache are in doubt, and an answer
that sends somebody away was asked for in doubt. `RefusalsAreStale` is a comparison of two tables:
the lemma `OffersArePermitted` goes through every page's offers and every guard. `TextOK`: without
an overlap what was typed, and the API keeps, is in the form, in the report when there is nothing to
save or the form shows an older row, and in the save on its way; the reset of the form loses text only
where none of them holds it. A render that ends while there is something to save is an overlap, so
that the reset it causes falls on text that is stored.

**ConfirmPage.** `ListsOK`: a list of pending items in the cache or on its way holds rows that were
read as pending; so a click is on such a row or on one kept over from another list (`RequestOK`), and
an item that is booked never returns to pending (`DecidedOK`). `AloneOK`: an item that was never
beside another has the only request of the page and holds `busy`, so its buttons are disabled until
the answer.

**RateLimit.** `AttemptsBounded` is a sum over counters none of which knows the others. `EachBounded`
bounds what each alone has let through of the requests that arrived within the window less the
patience, for any such stretch of time, past ones included. It is inductive with two facts. A counter
still holds what it let through less than a window ago (`StillCounted`): any trim, by whatever older
time, keeps what is younger than a window, and a request is never of a time to come. And whoever is
decided now arrived at most the patience ago (`PastOK`). So a request that is let through, and is the
one too many of some stretch, has all others of that stretch less than a window before the present;
they are all still counted, those younger than itself too, and it is refused. The stretch has to be
shorter than the window by the patience for exactly this step. The sum over finitely many counters is
an injection (`UnionIsBounded`).

**BookNumbers.** The actions are few and the pages compute much, so the invariant is short and the
lemmas are about the operators of `Figures`. `VersionsAreCounted`: the versions of a key, end and
span are all different and none exceeds their number, and the one that equals it holds what was
confirmed last. So the highest version of a key and end is the last word on one of its spans
(`HighestIsLast`). `BooksAre` says what any order leaves: rows of the highest version, one for each key
and end, and `CurrentIs` and `CurrentIsSaid` put both together, of the newest end in `FirstIsLastWord`;
where each end has one span there is one such set (`OneReading`). A key's rows in it are ranked: the row with i - 1 newer ones stands at place i of the series, and only
it (`SeriesIs`, by an injection of a finite set into an interval). `FirstIs`, `SecondIs` and
`SeriesMovesUp`, which drops the newest row, are what the pages, the flags and the runway of the month
before need of a series. A sum is a fold, which is a recursive function: what is true of it is
shown of the least set of summands for which it were false, since the library's induction rules
cannot be used (`LeastSet`). In this way `SumsExist` shows that the fold is defined, and
`TotalIsBounded` and `TotalOfDifferences` what `FlagsAreEvidenced` needs of an average (if it eats the
cash within the months, so does its largest burn) and `BridgeTellsTheDifference` of the movements of
the positions.

**Out of the prover's reach.** Liveness under fairness and ENABLED (`RefreshesEnd`,
`FlagsCatchUp`, `EveryUploadEnds`, `QueuedEnds`) stay with TLC.

**Only model-checked:** nothing but liveness. Every invariant, action property and refinement of a
passing run is a theorem.

**Only proved.** `ListedIsStored`, `DoneStaysDone`, `Accounted`, `ReadyIsStored`,
`QueuedIsAccounted`, `SyncedIsParsed`, `PackIsStored`, `OneWriterPerKey`, and most type invariants
are in no run: what the theorems say of every instance TLC need not repeat on a small one.

## 6. What the code does that its documents do not say

One disagreement has a run whose counterexample shows it (`findings` in `PROJECT.json`): the monthly
pack drops the versions of its rows before they are reduced to the current one
(`monthly-pack-job.ts:31`), so a restated figure may enter it with its old value, while
`docs/improvements/pass-13-restatement-reads.md:8` says that read paths show the current one
(`pack_stale`).

Six more were found with runs of this project and are described here:

1. A correction of a first version is not ledgered (`routes.ts:912`), so the parse of the next file
   books its own value over it (`docs/05_DATA_MODEL.md:91` says corrections survive).
2. Two confirms of one item both pass the status check (`routes.ts:834`) and both book it.
3. A mark dated before a locked as-of passes the gate, which looks at the mark's own date only
   (`routes.ts:1590`), and changes the book of the locked date.
4. A mute that comes between the reads and the writes of a refresh (`flags-job.ts:117`) is followed
   by a new open flag.
5. The error row of a failed parse is rolled back with it (`ingest.ts:170`), so a failed document
   is shown as queued.
6. A sync that fails half-way commits the documents it has ingested (`connector-jobs.ts:213`) and
   does not parse them; later syncs skip them as known.

Met while modelling, and visible in the modules:

*Book, inbox, NAV, flags, uploads.*
- `Reject` has no guard on the status (`routes.ts:949`): a confirmed item can become rejected while
  its figure stays.
- A mark that passed the gate before a lock commits after it, and an edit of a cost basis is not
  gated: the live book of a locked date differs from its pack.
- Two refreshes at once may leave the older reading, and may list a flag twice: `FlagsCatchUp` and
  `ShownOnce` hold only for the worker's refreshes, one at a time.
- An unmute between the reading of the held rows and the UPDATE of a refresh (`flags-job.ts:117`) is
  undone by it, and the alert is on no list until the next refresh: `NoAlertLost` rules unmutes out.
- `AutoConfirm` enqueues no refresh: flags do not follow figures that a parse books by itself.
- The row with status `running` is not visible before its parse commits, so no reader sees the
  phases `running` and `stalled`.
- A parse whose job lands after the time-out runs twice and fills the inbox twice.

*Connectors.*
- A sync or a test writes back the secrets it read at its beginning (`connector-secrets.ts:79`), so
  a disconnect or a new credential committed in between is undone.
- A sync that the API runs because Redis was late may ingest a file that the worker's sync ingests
  at the same time: there is no unique index on the external id. `IngestedOnce` is about the worker.
- With credentials in the environment, `RowIsHonest` fails: a request that used those sets the
  status `connected` over stored credentials nobody checked. The OAuth callback seals what it
  resolved into the row, the environment's client secret included.
- After a crash between a sync's commit and its parses, the job runs again and skips its documents
  as known (`SyncedIsParsed` excepts `stalled`).
- Cursors are written and never read. One company mapped to a place that is gone makes the sync of
  OneDrive or Affinity fail for all, and the schedule does not retry a connector in error.
- `PATCH /api/companies/:id` sets a mapping without `validateCompanyConnectorMapping`. A file in the
  folders of two companies goes to the first; of a company's two positions an arbitrary one takes
  the ownership; a known Granola note is never refreshed.

*Extraction.*
- The reader skips blank rows of a workbook (`ingest.ts:344`), the preview counts them: below a
  blank row a citation leads to another cell (`CitesItsCell` excepts these rows; `docs/DECISION.md:99`
  wants a click to open the cell).
- Formula cells, "12%" and "(1,234)" are skipped without a trace; a percent row in a sheet in crore
  is a unit ambiguity; a metric that is no money in such a sheet may take the unit crore.
- A "Q3 FY26" is read as the whole year although the prompt of the model offers the form
  (`propose.ts`), "FY 2025-26" as FY2025.
- `numberAppearsInSource` looks for digits inside longer numbers: 4 stands in 14.
- The ledger gives a guess the confidence 0.99, so a likeness or a model's proposal of a corrected
  figure is auto-confirmed with the person's value and perhaps a guessed unit (`GuessesAreReviewed` excepts it).
- Text and PDF ignore the organisation's formula book. A locator of a memo cites a cell whose
  preview answers `not_spreadsheet`; a model may claim a page of a workbook, whose preview answers
  `not_pdf`.

*Members, commentary, reports.*
- A session whose organisation is gone falls back to a membership chosen by a SELECT without ORDER
  BY. The last two admins can remove each other; promotions are not counted by the cap; an
  invitation is marked expired by id, after another request accepted it.
- An objective draft confirmed with `lane: "subjective"` passes the gate when its document counts as
  human; two confirms may put one text into both lanes; a reject after a confirm leaves the note.
- `PATCH /api/reports/:id` leaves the rows of the sheet as drafted; two that overlap lose one edit.
- A render that fails after one that succeeded marks a ready pack as failed; a crash between the draft and
  its enqueue leaves it queued for ever; a late tick packs a month twice or never.

*Numbers.*
- Company, command and flags take figures of both lanes, compare, one-pager, pack and the chart only
  objective ones. Compare of a past period divides its cash by the latest burns.
- The organisation's start of the fiscal year is saved and shown in Settings and read by no parse, which takes
  the company's own or April (`ingest.ts:56`).
- The bridge takes marks without a source, which the headline NAV leaves out.
- The comparators of marks never return 0: of two marks of one date the later row counts.
- The flags divide a change by the earlier figure and not by its size (`flags.ts:41`): of a negative one, a rise is taken for a
  fall and a fall for a rise, so a burn that turns further negative raises `burn_up`. `FlagsHaveEvidence`
  states rises and falls as shares of the earlier figure (`Further`), as the code computes them.
- A month, a quarter and a year that end on one day are versions 1 of one end, and which of them a page
  shows, and a flag compares, is left to the order of a SELECT; two pages may show different ones, and
  `cash_unreported` may be raised on a month without cash beside a year with it. `PagesTellOneStory`
  and `FlagsHaveEvidence` ask for the last word on one of the spans.
- A confirmed `runway_months` is shown by the one-pager only; all other pages derive the runway.

*Ask.*
- Facts include superseded versions and both lanes, chunks include proposals nobody confirmed; the
  burn of a runway is not cited.
- Numbers are checked against the whole evidence (`routes.ts:1829`), but a citation shows 400 characters of
  it and stands for all texts of its source that begin with the same 40 (`ask.ts:109-129`): a number of an
  answer may stand in no excerpt shown (`docs/01_PRODUCT_SPEC.md:152`: "All figures cited").
  `AnswersAreSourced` asks that the source be cited.
- A follow-up carries the numbers of the answers before it, so it is refused unless they stand in the
  new evidence; with its hint it may exceed the 2000 characters the schema allows. The composed text
  is what the history stores and offers again. After "New chat" the answer on its way heads the new thread.
- A number cut in two where the evidence ends makes an answer without a model key refused.

*Web.*
- An answer "signed out" of `/api/me` stays in the cache for 30 s: a sign-in on the login page is sent
  back to it until then. A 500 of `/api/me` sends a signed-in user to the login page.
- The retry loop of a cold start begins anew with every failed answer, so its attempts never run out.
- The pull from OneDrive is hidden from everyone but admins on the page of a new company, though the
  API permits it to writers: the list of connectors is admin-only.
- Text typed into a report during a save, or over a report that is out of date, is replaced by the
  reload. So is unsaved text on the next focus after the render job has marked the file ready or
  failed, though nobody changed a word: the effect that resets the form (`reports/[id]/page.tsx:82`)
  depends on the whole row. A title beyond 200 characters and a line beyond 4000 are cut by the API
  without notice, and the reload shows the rest gone.
- On the Confirm page `busy` holds one item for all rows (`docs/improvements/pass-03-inbox-hitl.md:12`
  says per row); the rows of another status stand in for a list that has not arrived, with buttons;
  the poll of an empty list supersedes the question under way every 1.5 s.
- A late Redis script counts a request that memory refused. A request is decided by the time it
  arrived, which may be older than hits already counted, and hits a younger request dropped are then not
  counted by the older one: within a whole window a counter may let through more than the limit. Of the
  requests that arrive within the window less 800 ms it lets through no more, and all counters
  together the limit times one more than the number of processes. That holds if the time-out fires
  when it is due; a stalled event loop stretches it.

## 7. Plan

Done: the components of section 2, their runs, the three abstract specifications with their
refinements, and proofs of all the properties the runs check, apart from liveness. Left for the day
it is needed: a refinement of `VendorPull` that says what `ConnectorSync` assumes of a vendor's
answers, and one of `Ask` over `MetricBook`'s ledger.

## 8. Not modelled

- Row level security: a property of SQL policies, covered by the tests in `packages/db`. Every
  module describes one organisation (`Ask` two companies of one).
- Migrations, seed data, deployment: run once and by one process.
- Charts, tables, filters, company and settings forms, styles: presentation of what the handlers
  above return. The parts of those pages that decide who is offered which request are in
  `PageAccess`.
- The layout of exported files (PDF, XLSX, DOCX, CSV) and of PDF pages into rows.
- IRR, XIRR and FX conversion: floating-point functions of single values without state, covered by
  their unit tests; TLA+ would say less about them than a numeric test does.
- The detectors of text signals, ownership and customer concentration, and severities.
- The ciphers of `connector-secrets.ts`: a sealed value is a value here.
- `AskPanel` and `AskFab`, which no page uses.
