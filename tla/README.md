# Formal models of the campo-digital-platform API

The repository is a FastAPI service (`src/apps/api/app`) over one PostgreSQL
database and a content-addressed object store, with React front ends and three
products behind it: Transelec (a workbook published as a dashboard, with cells
edited on the web), Rodales/Forestry (shapefile versions, their publication,
management reports and CONAF lookups) and LiDAR. Almost everything the service
does is a short SQL transaction or a reading of a file. What is hard in it is what
several requests, browser pages, worker processes and scripts do to the same rows
(unlocked reads, locks taken in different orders, leases, restarts, pages that are
stale when they are used), and what the readers of workbooks and shapefiles do with
files nobody thought of. This directory models those parts in TLA+, checks them with
TLC on small instances, and proves the main results with TLAPS for every instance.

`PROJECT.json` holds the machine-readable side: the component list, the runs with
their properties, a fault ("mutant") that breaks each property, the source lines
every definition models, the hazards, the findings and the theorems.

## 1. Inventory of the system

| Component | State | Operations | What is hard | Correct when |
|---|---|---|---|---|
| Job queue and workers: `jobs.py`, `worker.py`, `execution.py`, `retry_job` in `routers/ingestion.py` | `processing_job`, `processing_attempt`, `generated_artifact` | enqueue, claim, complete, fail, fail terminally, manual retry, staging guard | several processes, `FOR UPDATE SKIP LOCKED`, 120 s leases, crashes, counters read without a lock | one worker per claimed job, gapless attempt ledger, artifact exactly with success, bounded failures, every job decided |
| Ingestion, object store, provenance: `routers/ingestion.py`, `object_store.py`, `source_provenance.py`, `source_discovery.py`, `forestry_snapshot_import.py` | files and their metadata, system, asset, snapshot, run and import rows | upload, put, resolve or insert, project, import, identify a file on disk | a crash between rename and metadata or between file and commit, two uploads of one content, a file replaced while it is hashed | a row is of bytes that are stored and were read whole; a refused run leaves nothing |
| Transelec upload: `resumen_layout.py`, `xlsx_contract.py`, `import_projection.py` | import and its rows | recognise columns, read rows, issues, gate, project, compare | columns moved, headers twice, formulas without a result, errors in cells | what passes the gate is imported whole, and columns are recognised, not counted |
| Transelec publication and web edits: `transelec_publication.py`, `transelec_overrides.py`, their routers, views of migration 0012 | dashboard-state singleton, `transelec_publish_event`, `transelec_field_override` | publish, restore, save, discard, keep, retire at activation | three kinds of locks, values checked on a page and compared later, versions swapped underneath | every request is one atomic compare-and-set; the trail chains; history is never rewritten |
| Transelec views: `status_rollups.py`, `plazo_conaf.py`, the view modules, `routers/transelec.py` | none | every read route, paging, CSV | statements of one answer torn by edits and publications; status bases, terms and holidays | the pages of one version agree; terms only age |
| Transelec export: `xlsx_web_patch.py`, the download in `routers/transelec_edits.py` | none | patch the uploaded workbook | shared formulas, styles, notes, date systems, a download edited and uploaded again | the download is the planilla with its edits and nothing else |
| Forestry uploads: `upload_archive.py`, `shapefile_contract.py`, `shapefile_geometry.py`, `snapshot_evidence.py`, `forestry_uploads.py`, `forestry_persistence.py` | snapshot and feature rows | check the archive, the contract, decode polygons, flag, store | members that disagree, rings in any order, the same content twice | what is stored is the layer that was drawn, once per content |
| Forestry publication and reads: `forestry_publication.py`, `forestry_comparison.py`, `forestry_versions.py`, `forestry_reads.py`, their routers | `publication_state`, `publication_event` | review, publish (two transactions), restore, initial import, compare, list, read | others publish between comparison and flip, and between two SELECTs of one answer | trail = history; what a reader is told holds although its reads are torn |
| Forestry reports: `forestry_reports.py`, `forestry_report_geometry.py`, the export modules, the router | `report`, `report_feature`, `report_note` | create, rename, CONAF number, save features, duplicate, submit, approve, send back, archive, delete, four files | optimistic locking by revision, pages read in two statements, names checked before they are written, copies that lock nothing | nobody decides on what they did not see; approved is frozen; names unique; files agree with what is stored |
| CONAF: `conaf.py`, `conaf_store.py`, `conaf_refresh.py`, router | `conaf_solicitud`, `conaf_cambio`, `conaf_run`, one client lock | look up, store, nightly pass, shutdown | answers stored in another order than they were given, a pass killed, redeployed or longer than a day | an answer is kept until CONAF says otherwise; a badge has its change; one finished pass a day, whose counters add up |
| Access: `access.py`, `access_repository.py`, `session_store.py`, `deps.py`, the sign-in and admin routers | `app_user`, `product_grant`, audit events, `session` | sign-in, first administrator, invitation, grant, logout, expiry, redeploy | first sign-in races, configuration against an administrator's decision, revocation against requests in progress | the trail names the roles in force; no decision is undone by a sign-in; outsiders hold what they were invited to |
| Sign-in round trip: `google_auth.py` and its router | flow cookie, session | start, callback | several tabs, late and repeated callbacks, a changed key | a session is of the browser's own sign-in; a refusal has a reason |
| Body limit: `http_hardening.py` | two counters of a request | count, trip, answer | an application that answers before, after or instead | never fed past the limit, answered once |
| Security events: `security_events.py`, `security_middleware.py` | two bounded buffers | note, drain, write, retry, last flush, purge | a batch refused in part, a database that is gone, a stop in the middle | every note is stored once or lost for a reason |
| Configuration, LiDAR engine and API, front ends | none of their own, or files | | | see section 8 |

Interactions. An upload stores its bytes, then commits snapshot, ingestion run and
queued job together; workers claim jobs and write attempts and artifacts. Publishing
a Transelec import retires web edits in the same transaction; saves and keeps hold
the dashboard state row `FOR SHARE` against that. The nightly CONAF pass and the
requests share the client's lock, not their transactions. Every browser keeps a
page that it sends back as a precondition (`expected_*`, `revision`): the page is
shared state too.

The full list of hazards, each at its line with the properties that would catch it
going wrong, is in `PROJECT.json`.

## 2. Modules

| Module | Models |
|---|---|
| `JobQueue`, `JobLifecycle` | the queue and everything that writes it; what a user watching a job is promised (abstract) |
| `Ingestion` | how a file becomes rows: uploads, projections, the controlled import, the object store |
| `SecurityEvents` | recorder, buffers, maintenance task |
| `Access`, `SignIn`, `BodyLimit` | roles and sessions; the Google round trip; one request through the body limit |
| `Conaf` | client, store, requests and the nightly pass |
| `PlanillaCells`, `TranselecEdits`, `EditedCells` | cells of workbook versions; publication and web edits with their locks; atomic edits (abstract) |
| `StatusRollups`, `PmfDates`, `TranselecViews` | status bases, dates and terms as operators; the read routes, statement by statement |
| `ResumenLayout`, `ResumenRows`, `ImportProjection`, `TranselecWorkbook` | recognition of columns, rows and issues, projection; a workbook changed in Excel and uploaded |
| `WorkbookPatch`, `TranselecExport` | the patched workbook; download, edit, download again |
| `ForestryPublication` | which snapshot is served, the two-transaction publish |
| `ShapefileLayer`, `UploadArchive`, `ForestryComparison`, `ForestryReads`, `ForestryFiles` | contract, decoding and flags; the archive; the comparison; the read projections; a layer redrawn, repacked and sent |
| `ForestryViews` | requests that list, review and serve versions beside running publications |
| `ForestryReports`, `ReportFeatures` | report rows, pages and writes in progress; what a save accepts and what the files say |
| `MCRequests`, `MCConaf`, `MCBackground`, `MCWorkersReaders`, `MCTranselecEdits`, `MCTranselecFiles`, `MCForestry`, `MCJobQueue`, `MCForestryPublication` | values of the constants; several of them put independent modules side by side |
| `JobQueueProofs`, `AccessProofs`, `RequestsProofs` (sign-in, body limit), `BackgroundProofs` (ingestion, security events), `ConafProofs`, `TranselecEditsProofs`, `TranselecViewsProofs`, `ForestryProofs` (publication, its readers, reports) | theorems, see section 5 |

A module that puts parts side by side (`guarding` in `MCRequests`, `part` in
`MCBackground`, `MCWorkersReaders` and `MCTranselecFiles`, `running` in `MCForestry`)
chooses at the start which part moves. The parts share no rows, so their product would only multiply
states; each property speaks of one part. Parts that do share rows are composed
for real: `ForestryViews` runs beside `ForestryPublication`, `TranselecEdits` holds
publication and edits, `Conaf` requests and the nightly pass.

Conventions. PostgreSQL runs at READ COMMITTED: a statement sees what was
committed when it started, an UPDATE waits for a row lock, a plain SELECT takes
none. A handler is one action when everything it decides on is read after it has
locked the row; otherwise it is cut where it reads without a lock, where it
waits and where it commits. A refused request (4xx) changes nothing and appears as a guard,
or as a branch that ends the transaction when it already holds locks. Audit
records and timestamps are part of the transaction they are written in and are
kept only where a property needs them. Definitions named in comments as a
"Fault" are not used by the specifications; each is a plausible bug that some
property must detect.

### JobQueue

`job`, `attempts` and `artifacts` are the three tables; `rowLock` is the row held
by an uncommitted claim, `proc` the place of every process in its loop, `retry`
what a retry request has read. `claim_next_job` is `ClaimSelect` (the UPDATE with
`SKIP LOCKED`: every older claimable row must be possibly locked by someone) and `ClaimCommit`
(attempt row with `ON CONFLICT DO NOTHING`, commit). `fail_job` is `FailRead` and
`FailWrite`; `retry_job` is `RetryRead` and `RetryWrite`; `complete_job` with its
artifact is `Complete`; the staging loop adds `GuardRead` and `GuardReject`.
Timestamps are abstracted to one bit, "now() is past the lease" (`LeaseExpires`).
A process dies for good (`Crash`); its successor is another member of `Procs`.
`WorkerId` tells a standalone worker, which draws a fresh id, from the staging
loop, whose id is a constant. `reap_stale_leases` has no caller in the service
and is not an action.

### Ingestion

A content stands for its SHA-256, and its traits say what the readers would find in
it. A task is an upload, a Forestry upload, a projection or a run of the import
script; its steps are those of the code, from the temporary file, the rename and the
metadata to each insert. An insert waits for an equal uncommitted key of another
transaction and finds the row, or inserts. A task may fail at the steps that call
the database or the disk, be killed anywhere, or find its source replaced while it
is hashed.

### Access, SignIn, BodyLimit

In `Access` a request is one transaction: what it has read of configuration, users
and grants is in its record, its rows become visible when it commits, and the session
it runs on stays locked. An account has an address or none (development), two accounts
may share one, and the administrators' form decides by the domain of the address where the
sign-in decides by Google's `hd` claim. `SignIn` keeps the flow cookie of each browser, the codes
Google has issued and the requests in progress; the environment opens callbacks late,
again, or in another browser. `BodyLimit` runs any application against the
middleware: one that reads, answers early, swallows the error, or answers after it.

### Conaf

A thread is a request or the nightly pass. A lookup takes the client's lock, asks and
releases it (`lookup_answer`); only then it opens its transaction and reads the clock
(`save_begin`), reads the row `FOR UPDATE` (`save_select`) and writes answer and change
(`save_write`). The pass takes due numbers up to the limit,
counts what it did, stops after `StopAfter` unavailable answers in a row or at a
shutdown, and closes its run. A crash, a redeploy or a database failure may come at any step. A page of
CONAF is a record of what the parser tells apart.

### TranselecEdits, PlanillaCells, EditedCells

A cell is an editable field of a row key; a planilla version gives it a value, no
row, or no column. Values are signatures: normalised text, dates, blank, and raw
text in a date cell, which the dashboard shows as empty. Each client has one
request at a time: `BeginSave`/`BeginById` (dashboard row `FOR SHARE`, version
check), `LockCell` (advisory lock), `CheckSave`/`CheckKeep` (values read under
both locks), `Commit*`; `BeginActivate` (row `FOR UPDATE`) and `CommitActivate`
(pointer, event and retirement). Lock ownership follows from the program counters.
`Rollback` is the loss of a connection at any point. `EditedCells` is the promise:
each operation is one step, a save a compare-and-set on version and value.

### TranselecViews and the workbook modules

A label is told apart by what the code looks at in its text (lowered, folded, the
words searched in it). A reader takes one SELECT per step, while edits are made
and discarded, versions switched and days pass. A switch retires the edits its version
carries; its event bears the time its transaction began, which may be before that of the
event it waited for (`PublishTimes`). A workbook text is a word with the form of its
spelling; a cell says what it shows and how the XML has it (plain, formula with or
without its result, error). `TranselecWorkbook` lets an analyst change a workbook
between uploads; `TranselecExport` patches any list of edits into a package whose
parts are records of what their XML says, downloads it, and patches the download again.

### ForestryPublication, ForestryViews

`Compare` is the first transaction of `_activate` (fresh comparison and
acknowledgement), `Publish` the second (lock, `MayActivate`, `Flip`). Because
everything in the second is read after its row lock, it is one action. The verdict
of the comparison is the constant relation `ReviewRequired`. `PublishInitial` is
the import script. `Abandon` is a server that dies between the two transactions.
`ForestryViews` runs one read request beside the reviewers, a SELECT at a time.

### The Rodales files

The plane is a set of cells that no boundary crosses; a ring is the set of cells it
encloses and the sign of its area. With that, decoding, flags, validity and overlap are
set operations, and the comparison's percentages are of cells. An archive entry is a record of name
parts and sizes.

### ForestryReports, ReportFeatures

Rows with status, name, content, revision, whether they were ever submitted, and
notes; pages read in two statements (`LoadHeader`, `LoadFeatures`); writes in
progress for the operations that read other rows before they write. The locked
operations are one action each and require a page with the current revision.
Names are checked by `NameFree`, and written under the partial unique index
`uq_report_active_name` (`IndexAdmits`), which waits for an equal uncommitted key
(`NameHeld`). `duplicate_report` locks nothing and reads header and features
separately. There a feature set is one model value; `ReportFeatures` opens it: the
pieces a save accepts, what it stores, and the files made of them.

## 3. Runs

| Run | Checks | Distinct states |
|---|---|---|
| `workers_readers` | `OneWorkerPerJob`, `BoundedFailures`, `AttemptLedger`, `ArtifactPerAttempt`, `LifecycleSpec` (refinement of `JobLifecycle`); `ViewsAgree`, `ReadersAnswered`, `TermsOnlyAge` | 563,103 |
| `background` | `EveryJobSettles`; `NotesAccounted`, `RefusalsReachTable`; `RecordedIsTrue`, `EveryTaskEnds` | 364,910 |
| `edits_requests` | `EditsAreAtomic` (refinement of `EditedCells`), `RequestsEnd` | 424,744 |
| `edits_versions` | `NothingLeftToRetire`, `AnchoredToBase`, `TrailChains`, `HistoryIsKept` | 3,238,664 |
| `conaf` | `RunsAreTrue`, `BadgeHasItsChange`, `EstadoKept`, `PassesGoOn` | 902,342 |
| `requests` | `RolesInForce`, `GrantsDecided`; `SessionsOfSignIns`, `RefusedForAReason`; `LimitHolds` | 1,062,956 |
| `transelec_files` | `ImportedWhole`, `RecognisedNotCounted`; `DownloadIsThePlanilla` | 79,292 |
| `forestry` | `LayerIsStored`, `ComparisonCorrect`, `ReadsCorrect`; `TrailTellsHistory`, `ReadersTold`; `CurrentPageIsTrue`, `ReportsInOrder`, `ReviewedIsKept`; `FeaturesFaithful` | 1,714,071 |
| `jobs_staging_guard` (violated) | `StagingNeverRunsRefused`: finding 1 | |
| `jobs_late_writer` (violated) | `SucceededIsFinal`: finding 2 | |
| `edits_warnings` (violated) | `WarningsAcknowledged`: finding 3 | |
| `pub_review` (violated) | `ReviewAcknowledged`: finding 4 | |

A semicolon separates the parts that stand side by side. A name such as
`RecordedIsTrue` or `LayerIsStored` is the conjunction of named properties, each with
its comment in the module; the conjunctions include the type invariants. `forestry` also
evaluates, as an assumption, `DashboardsAgree`: for each of its snapshots and queries, the
list and the map of a dashboard speak of the same rodales.

What they show. Claims are exclusive, failures bounded and attempts recorded once
among standalone workers one of which may die; a staging process that may die and its
successor decide every queued job. However the statements of a read are torn by edits
and publications, its answer is of one version, and the pages of one version agree.
Uploads, projections and imports that overlap, fail or are killed leave rows that are
true of the stored bytes, and all of them end. Security notes are stored once or lost
for a reason, also when the database rejects one row of a batch or is gone for a
while. Edits act as atomic steps, and no publication or restore racing with them leaves an edit
that should have ended. CONAF's answers stored out of order erase nothing and show no
badge without its change; the pass of a day is made once. Roles are those of the newest
decision, sign-ins undo none. What a changed workbook or a redrawn layer
becomes in the database, and what is downloaded again, agree with what was drawn or
written. The acceptance of a page's revision is sound, and what was reviewed is kept.

Bounds, and why they are enough:

- Jobs: two jobs (age order matters, and two is the least for "the guard saw one,
  the claim took another"), two processes of which one may die, one retry request.
  `DefaultMaxAttempts` is 3 as in the column default, 2 where liveness is checked;
  `RetryBound` and `ClaimBound` leave room for granted retries and reclaimed leases
  beyond it. Workers that outlive their leases are in `jobs_late_writer`; the ledger
  and the artifacts are proved for them too.
- Views: two versions of a sheet of three rows and two PMFs (a PMF with two rows and
  one with one), six edits of which two at a time are in force and one is incorporated by the
  second version, one row per page so that paging is torn, days 7 to 9 around a holiday
  and a term that ends.
- Ingestion: three tasks, in nine casts that put on stage each pair that meets (two
  uploads of a content, two projections of a workbook, an import beside uploads of the
  same family), seven contents that differ in what the readers refuse; one failure, one kill, one
  replaced file. A second failure meets only states that a first one has reached.
- Security events: three notes of which the database rejects one, buffers of two.
- Edits: two operators, since every race here is between two transactions;
  two cells in `edits_requests`, so that the advisory lock is per cell, and one date
  cell in `edits_versions`, where three versions cover every status of an edit.
  `MaxOverrides` 2 is an edit and its replacement.
- CONAF: three numbers with a limit of two (one is left for another day), one request
  beside the pass, days of two ticks and three ticks of time, one fault.
- Requests: five accounts (two of the Workspace, an invited one, Entra with the same
  address, development without one), two
  products, two sessions, two requests, two configurations, three grants; a body limit of three
  with chunks of one and two; two tabs, browsers, people and calls.
- Publication: three snapshots are needed for "another one in between", and four
  events for publish, publish, restore, publish.
- Reports: two users, two reports (so that names can collide and a copy has a
  source), two names, an empty and a marked content, revisions up to 3.
- Files: two changes to a workbook or layer, two downloads; every size limit of the
  code is given a value that some input exceeds.

Deadlock checking is off in every run because the models may stop at a bound;
that nobody waits for ever is checked instead as liveness (`EveryJobSettles`,
`EveryTaskEnds`, `RequestsEnd`, `PassesGoOn`, and the draining of the buffers in
`RefusalsReachTable`). Symmetry is used only in runs without liveness, over model values which the specifications never compare except for equality.

## 4. Fairness

- `JobQueue`: weak fairness of every live process's loop (`worker.py:144` and
  `execution.py:98` loop for ever), of an open retry request, and of lease expiry
  (time passes). Nothing obliges a process to die or to survive.
- `TranselecEdits`: weak fairness of the steps of a transaction that has begun,
  and strong fairness of the advisory lock, which PostgreSQL grants in the order
  of requests. That a request *begins* is not assumed: it may wait for the
  dashboard row, and a stream of edits holding it `FOR SHARE` may delay a publication;
  no property claims otherwise.
- `Conaf`: weak fairness of each thread's next step (a lookup has a timeout, a
  transaction ends), of the steps of the pass, of the application coming up again after
  a redeploy, and of the clock. That a number is looked up on a given day is not claimed.
- `Ingestion`: weak fairness of "some task takes a step": a waiting insert is woken
  when the other transaction ends, so as long as one can go on, one does.
- `SecurityEvents`: weak fairness of the maintenance task, a loop with a timed sleep.

## 5. Proofs

All theorems hold for every value of the constants that satisfies the named
assumptions of the modules: typing of the constants, and that markers such as
"no owner" are not real values. TLC evaluates the assumptions on the runs whose
modules extend them.

`JobQueueProofs`. `TypeCorrect` (with: a process past its claim names a job).
`LedgerCorrect` needs no assumption on timing: `LedgerInv` restates the ledger row
by row (no number above the counter, none missing, none twice), and only
`ClaimCommit` moves the counter, together with the row it inserts. `ArtifactsCorrect`
assumes `OwnIds` (one worker id per process); its `OwnershipInv` gives every working
process exactly one running attempt row, its own, which is why the `worker_id`
condition of the UPDATE closes that row and no other. `ExclusiveClaims` and
`LifecycleCorrect` assume `TimelyWorkers` (no process outlives its lease, no staging
loop, one retry at a time) beside `OwnIds`; `SafeInv` says that a working process's job is running,
leased to it and not expired, that row locks and claims in progress are the same
thing, that what a retry has read is still so, and that artifacts and success go
together. The violated runs show that the assumption is needed. The refinement maps
the status column to `status` and the jobs that have an artifact to `produced`; each
action is a step of `JobLifecycle` or a stutter. `FailuresBounded`, under the same
assumptions, needs that a job that may still be attempted has a failure to spare
(`FailuresInv`): the ledger bounds the failures by the attempts, by an injection of
failed rows into `1 .. attempt_count`, and a process that is about to requeue its job
has read counters that still hold.

`ForestryProofs`, publication. `PubTypeCorrect` and `TrailCorrect`. The invariants are
inductive together once a request between its two transactions is known to name a
snapshot. `FlipAppends` and `FlipKeepsHistory` isolate the one step that touches the
trail.

`ForestryProofs`, readers. `ReadersCorrect`: what a request has read was right when it
was read (`RequestRight`, one part per statement of each route), and stays right beside
an activation or an upload, because the trail and the set of snapshots only grow
(`RightBeside`); what is exact only while nothing is activated is tied to the flag
`quiet`. A list of versions is torn between the state row and the trail: a version it
marks as published is the one the first statement read (`RowsRight`), which was served
at some moment of the request (`IdRight`). Both rest on `StoredFirst`: only what is
stored has been published or is on a page.

`ForestryProofs`, reports. `ReportsTypeCorrect`, `PageCorrect`, `OrderCorrect` and
`ReviewedCorrect`, from one inductive invariant `ReportsInv`. `CurrentPageIsTrue` by
itself is not inductive: a page whose header has been read and whose features have not
must be covered too, and no page may be ahead of its report (`PagesLag`). Unique names
need that a name inserted by an uncommitted copy is free and held by no other
(`NamesHeld`). That approved reports are frozen needs that the row under a rename
stays editable until the rename has written (`InProgress`), which the row lock gives.
The effect of each action is stated once (`SetConafEffect` ... `CopyEffect`), and two
shapes of change, `Wrote` and `Inserted`, carry the preservation lemmas.

`TranselecEditsProofs`. From `EditsInv`: `Locks` says who can be where at the same
time, `HoldsVersion` what the singleton row fixes for its holders, `SawCell` what the
lock of a cell fixes for the client that has checked under it, `OneActive` that a cell has one
active edit. Types, `IndexCorrect` (the unique index never fires), `RetiredCorrect`,
`AnchoredCorrect` and `TrailChainsCorrect` follow at once, `HistoryCorrect` step by
step, and `EditsCorrect` is the refinement of `EditedCells`: the commit of a request is
the abstract operation, because what it checked is still so, and every other step is a
stutter.

`RequestsProofs`. `LimitCorrect` and `SilenceCorrect` from `BodyInv` (the counters, and
who has been answered). `SessionsCorrect` and `ReasonCorrect` from `SignInInv`: a
request in progress is about the sign-in of its own browser, a code is redeemed by one
request, and a sign-in that has met no reason for a refusal is the one in its
browser's cookie, under the key in use.

`ConafProofs`. `EstadoCorrect` and `BadgeCorrect` rest on `SeenInv`: a transaction that
saw a row holds its lock, and the row is still the one it saw, although answers are stored in another
order than they were given. `BadgeInv` ties the date on a row to a stored change. `RunsCorrect` rests on `NightInv` (what a pass has counted,
the number it is at and the numbers it has left make up what was due, or the limit) and
`TableInv` (the run of a pass in progress is the last one and is not finished, runs are in
the order of their days, and a pass in progress is of a later day than every finished run).
The first `k` numbers of a sorted set are counted by an injection into `0 .. k - 1`.

`BackgroundProofs`, ingestion. `RecordedCorrect` from `IngInv`: where each kind of task can be and
which tables its open transaction has written there (`Written`), that its rows are
already true (`RowRight`), that no key is in two rows, committed or not (`Unique`, which
is what the wait of an insert is for), that what a projection found is still there, that
a script's rows are of the bytes it read twice, and that a committed row is of a task that is done
or the audit of a refusal.

`BackgroundProofs`, security events. `NotesCorrect` and `NotesNeverVanish`. Buffer,
batch, table, losses and drops are kept disjoint (`Apart`): a drained note has left the
buffer, and a row that is stored one by one leaves the batch first. That a stop leaves nothing needs what the
task knows in its last round (`LastRound`): it drains after it has seen the stop, and
nothing is noted any more. Outside its writes the batch is empty.

`AccessProofs`. `RolesCorrect` and `GrantsCorrect`. Requests read configuration, users
and grants without a lock and write under the lock of the row. `StepsRight` says what a
request has left to do, and by which rule of the configuration (`GivenByConfig`): an
outsider only what it was invited to, an administrator only as the first. `RowsHeld` says
that no two open requests have written the same row, which the row locks give, and
`NotesRight` that the event of a written row is the newest of its row, so that the trail
stays in the order of the grants. `Stands` says that what a request has read of a product
is still so, unless another request has committed a grant of that product in between
(`raced`): a step that commits marks who was overtaken, and the properties are exact for
the others. `SessionRight` gives each request its own session, but for development
sessions. `GrantsDecided` is shown of each commit (`EndedAsDecided`).

`TranselecViewsProofs`, readers. `ReadersRight` from `ReadersInv`: the import of a request had
its event when it was read, and the trail only grows (`RequestRight`); the pages of a
walk follow each other and the cursor is behind all of them (`WalkRight`); the rows
that have matched all along are listed up to the cursor (`SteadyRight`). A page is the
first rows of those left (`PageIsFirst`), for which a finite set of numbers has a
largest one. An edit, a discard or a retirement can only take rows from those that have matched
all along, a switch to another version takes all.

`TranselecViewsProofs`, terms. `TermsOnlyGetOlder` (`TermsOnlyAge`), `DeadlinesAgree` and
`NeverFromAnOlderDate` (`DeadlineSound` and `NeverAnOlderDate`, two of the parts of
`ViewsAgree`). The walk over the calendar is the one recursion that is proved about:
that it exists and that the business days between its start and its end are as many as
were asked for is shown for every day from the last one backwards, each time for the
smallest counterexample, which well-foundedness of the numbers gives without an
induction rule (`WalkExists`, `WalkCounts`, `LeastNatural`). Then a term either counts
from one day to the business day that ends it, or says the same on every day
(`TermTells`), and business days between two days only grow with the second
(`DaysGrow`). That a filter moves no deadline needs that edited dates are dates, and
that the rows a request has read keep their PMF although cells are edited between its
statements (`TermsInv`).

Only model-checked, and why:

- liveness: `EveryJobSettles`, `EveryTaskEnds`, `RequestsEnd`, `PassesGoOn`, and the
  draining of buffers in `RefusalsReachTable` (fairness is out of the prover's reach);
- that no refusal is counted twice, in `RefusalsReachTable`: the counts of a buffer are
  folded into rows;
- the other parts of `ViewsAgree`: `TotalsAgree`, `AefAddsUp` and the types of the answers
  are sums over folds; `StatusesCompatible` and `ExportFaithful` depend on how the labels of
  the instance are spelled and on markers being no values, which the modules do not assume;
- the readers of files and the comparison (`ImportedWhole`, `RecognisedNotCounted`,
  `DownloadIsThePlanilla`, `LayerIsStored`, `ComparisonCorrect`, `ReadsCorrect`,
  `FeaturesFaithful`): they compare what sorting, folds and recursive definitions compute over
  sequences of rows, cells and rings with reference definitions, which is induction over data.

## 6. Findings

With a run that shows them:

1. **The staging guard looks at one job and claims another** (`execution.py:145`).
   `_run_one_guarded` checks the oldest queued job without a lock and `run_one_job`
   then claims whichever is oldest. A LiDAR job that commits in between is
   processed, although "LiDAR jobs are refused outright".
2. **A late worker undoes a success** (`jobs.py:173`). `fail_job` and `complete_job`
   update by job id alone. A worker whose lease ran out while it was inspecting
   requeues or fails the job another worker has completed, although the loop is said to be
   safe with multiple workers.
3. **Restore skips the acknowledgement** (`routers/transelec.py:614`).
   `restore_import` accepts any validated import, also one never published, and
   looks at no warnings; `publish_import` calls its own check "the control".
4. **An acknowledgement decided against another baseline**
   (`routers/forestry_workflow.py:617`). The comparison that decides whether an
   acknowledgement is required and the flip are two transactions. When the page
   expects version A, the comparison happens while B is in service, and A is
   restored before the flip, the stale-review check passes and a version that
   needs review against A goes out without an acknowledgement.

Met while modelling, without a run of their own:

- `LayoutReport.sheet_name` is always "Resumen", although `find_resumen_sheet` accepts
  other case and spacing: such a workbook is imported and its download is refused.
- A PMF whose text is `#N/A` raises `ImportProjectionError` at a place marked
  `pragma: no cover`, and a surface written "nan" raises `ImportInvariantError`.
- An edit whose text is a plain number, over a cell with a date format, is shown by
  Excel as a date.
- `forestry_uploads.py` says an invalid upload leaves nothing behind; an upload refused
  as `conflicting_layer` leaves its ZIP in the object store.
- `forestry_snapshot_import.py` says refusals come before a database connection opens;
  `main` opens one before some of them.
- `describe_contract_failure` gives a disagreement between content length and `.shx`
  types another name.
- A blank OBJECTID ends in an `AssertionError` (`shapefile_contract.py:86`), and so in a
  500, not in a refusal.
- `list_versions` reads the state row and the trail in two statements and can mark a
  version that is no longer served.
- `_STATUS_FOR_CODE` in `routers/forestry_reports.py` lacks the five planning codes: a
  refusal with one of them is a `KeyError`.
- Sheet names of the harvest workbook are compared with their case, which the writer of
  the file ignores: two names that differ in case only end in a 500.
- The workbook of marked pieces sums only the marked ones; its comment says "Uses ALL rows".
- The answer of a completed sign-in deletes the flow cookie of a newer tab.

Limits seen while modelling, which nothing in the repository contradicts: a manual
retry of a job that failed terminally leaves it its unused attempts besides the
granted one; a job whose workers keep dying is reclaimed for ever, since the
claim does not look at `max_attempts`; a restarted staging process shares its
predecessor's worker id and closes its attempt rows; an edit that blanks a
cell stays active when the next version has no column for it; `duplicate_report` may
combine the header of one revision with the features of a later one; with more due numbers than
the limit and a CONAF that answers only some, the same numbers of the sorted order are taken first each night.

## 7. State of the work

The job queue with its lifecycle; Transelec publication, edits, views, workbook
and export; Forestry files, comparison, publication, views and reports; CONAF; access,
sign-in and body limit; ingestion, object store and security events are modelled and
checked. Every invariant about interleavings is proved; section 5 lists what is only checked.

What would come next: an assumption about spelling under which `StatusesCompatible` holds
for every set of labels (that a label whose folded text is "rechazado" has "rechaz" in
its lowered text is not true of one written with an accent), and a formulation of the
totals as cardinalities of sets of PMFs, which the prover can follow.

## 8. What is not modelled, and why

The bytes of file formats, GEOS predicates, coordinates and layout are text and
floating point; the models keep what the readers tell apart. The LiDAR engine is
numerical and runs from the command line; its API only reads the files it leaves.
Security headers are constants. The identity providers are external, and Entra's round
trip has the shape of Google's with its checks inside MSAL. The front ends present
answers; what they hold and send back is modelled as pages. Configuration and start-up
are wiring. Wall clock time appears as lease expiry, days and ages. The availability of
the database is modelled as the loss of a transaction at its steps, not as a network.
