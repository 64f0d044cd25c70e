# TLA+ models of the KDV integrator

The integrator connects a Koha catalogue, Google Drive and a DSpace repository. A record of
Koha names a PDF (`956$u`) and a cover (`956$p`) on Drive; a *cycle* publishes the cover as a
content-addressed WebP asset, stores the PDF in DSpace, and writes the links back to the record.
Cycles are started by users, by a robot and by a retry scheduler, take minutes, depend on three
remote services, and may be cut short anywhere. A SQLite table remembers what was confirmed.

This directory holds TLA+ modules of the parts that keep state or run concurrently, TLC
configurations that check them on small instances, and proofs, checked by TLAPS, of what the retry
table, the inside of a cycle, the asset files, the exports, the optimizer, batches, the MARC record and local imports promise for
any instance.

## The system

| Component | State | Operations | Hard behaviour |
|---|---|---|---|
| Durable cover state, `src/cover_state/state_machine.py` | SQLite: `records`, `pending_cover_work` | `mark_pending`, `record_result`, `complete_cycle`, `save_cover_work`, `claim_due_retries`, `reset_retry_count`, `remove_cover`, ... one transaction each | several writers, process death, changed limits |
| Integration cycle, `src/core.py` | the local variables of one call under `.workflow.lock` | `process_integration_logic` and what it calls | every remote call may fail; resume from a checkpoint |
| Drive gate, `cover_state/drive.py` | none of its own | `check_drive_metadata` | decides from a row that the other source's gate has just changed |
| Retry scheduler, `cover_state/retry_scheduler.py` | thread with a 5 s interval | claim, validate, start a task | races with running cycles |
| HTTP API, `src/app.py` | the export lock and its flag | POST/PUT integrate, POST retry, DELETE cover, robot batches, exports, status | retry checks and resets without the lock; DELETE cover waits for a cycle inside an HTTP thread |
| Task manager, `src/tasks.py` | dictionary of tasks, daemon threads | `start_task`, `get_status` | one thread per call, no deduplication; a thread may not start |
| Robot, `scripts/robot.py` | none | parse candidates, POST each, poll | lost answers, timeouts, tasks a restart forgot |
| Cover publisher, collector, override script | files under `assets/`, `.publish.lock` | `publish_cover`, `collect_garbage`, `update_cover_asset.py` | files outlive and predate their references |
| Koha client, `src/koha.py` | the MARC record and cover image, in Koha | `ensure_record_uid`, `set_status`, `set_success`, `set_cover_url`, `remove_cover`, `restore_missing_957_metadata`, `repair_dspace_links` | GET, edit, PUT of the whole record beside librarians |
| DSpace client, `src/dspace.py` | Items and bitstreams, in DSpace | find, create, upload, primary bitstream, delete | partial success, lost answers |
| Local books, `core.py:997-1204`, `services/files.py`, `services/covers.py` | supplied, Processed and Error folders | the workflow without a state database | moves the file first, two threads, no lock |
| Koha export, `src/export_module` | SQLite: `exported_records`, an XLSX file, a Drive mount, an e-mail | `run`, `_recover_staged_runs` | staged runs cut short |
| PDF optimizer, `kdv-optimizer` and `services/pdf.py` | jobs, a process pool of one worker, two directories shared by two containers | submit, poll, TTL janitor | client, server and janitor time out separately; a killed worker leaves Ghostscript behind |

How they interact: the API, the robot (over HTTP) and the scheduler start *tasks*; a task runs
one cycle; cycles, and DELETE cover, take `.workflow.lock` and so run one at a time over all
processes; the scheduler and POST retry write the table without that lock. One gunicorn worker
with four threads serves the API. The cycle gives a PDF to the optimizer before it uploads it. A deployment
without a state database runs the workflow of local books without that lock; one with a database runs it under the lock,
for records with no source on Drive.

What makes the parts correct:

- **state and scheduler**: no failure is forgotten or counted beyond the limit, backoff is kept,
  a record at its limit waits for the operator, two cycles are not queued for one record;
- **cycle**: the link of a record always opens a stored bitstream, a confirmed row is true of
  Koha, DSpace and Drive, an interrupted replacement leaves no second copy, an unfinished cycle
  is completed by the cycles after it;
- **assets**: what Koha shows or a checkpoint names is on disk, complete and unchanged; what nobody
  names goes;
- **export**: a stored stage is true, a biblio is e-mailed once unless something went wrong, and a run cut short
  is finished or failed;
- **optimizer**: what is uploaded is the original or a whole, accepted output; a job that nobody waits for
  does not hold the worker; no file stays in the shared directories;
- **batches**: a batch that reports a success has archived all it names; the export lock is held exactly as
  long as an export runs; no cycle of waiting between HTTP threads, the workflow lock and the robot;
- **Koha client**: what an operation confirms is in Koha and stays; it changes no field but its own;
- **local books**: one Item per record, a link that opens a stored PDF, no supplied file lost.

## Modules

| Module | Models | Read with |
|---|---|---|
| `CoverState` | the retry columns of a row and each operation of `StateMachine` on them, as operators from row to row | `state_machine.py` |
| `RetryLifecycle` | who applies those operations and when: task threads under the lock, scheduler, operator, process death | `core.py:694-892`, `retry_scheduler.py`, `app.py:559-585` |
| `RetryLifecycle_proofs` | theorems about `RetryLifecycle`, the refinement of `DurableRow` among them | |
| `CoverCycle` | the inside of a cycle for one record: gates, cover, PDF replacement, Koha, checkpoint, commit; the users who edit Drive, Koha and DSpace meanwhile | `core.py`, `drive.py`, `state_machine.py`, `app.py:507-535` |
| `CoverCycle_proofs` | theorems about `CoverCycle`, the refinements of `PdfReplacement` and `DurableRow` among them | |
| `PdfReplacement` | abstract: what the replacement of a PDF promises to a reader | |
| `DurableRow` | abstract: who may reopen, rewrite and confirm a row, and when | |
| `AssetStore` | abstract: what the asset files promise to the table that names them and to readers of a confirmed record | |
| `CoverAssets` | the asset files with their age, the publish lock, publisher, collector and override script, each killed anywhere, and the references of Koha, `records` and checkpoints | `cover_pipeline.py:115-173`, `gc.py:65-106`, `update_cover_asset.py`, `core.py:913-977` |
| `CoverAssets_proofs` | theorems about `CoverAssets`, the refinements of `AssetStore` and `DurableRow` among them | |
| `ExportRuns` | stateful exports: the rows of each run, the file on the mount, e-mails, and invocations that select, export and recover, overlap, fail and are killed | `orchestrator.py`, `repository.py`, `filters.py`, `drive_mount_service.py` of `export_module` |
| `ExportRuns_proofs` | theorems about `ExportRuns` | |
| `OptimizerJobs` | uploads of the integrator, the service's queue, worker and Ghostscript, the janitor, the two directories, clocks, and what is killed or lost | `_prepare_pdf_for_upload` and `_cleanup_optimizer_files` of `core.py`, `services/pdf.py`, `kdv-optimizer` |
| `OptimizerJobs_proofs` | theorems about `OptimizerJobs` | |
| `Batches` | robot batches inside and outside the API process, tasks and their threads, exports and the export lock, DELETE cover, HTTP threads | `robot.py`, `tasks.py`, `app.py:213-252,363-535` |
| `Batches_proofs` | theorems about `Batches` | |
| `KohaRecord` | one MARC record between the integrator's operations and a librarian's form | `koha.py:90-605` |
| `KohaRecord_proofs` | theorems about `KohaRecord` | |
| `LocalBooks` | one record without a state database: folders, Item, cover image, the run and its two threads | `core.py:997-1204`, `files.py`, `covers.py`, `dspace.py` |
| `LocalBooks_proofs` | theorems about `LocalBooks` | |
| `MC...` | constants and symmetry for TLC | |

`RetryLifecycle` EXTENDS `CoverState`; `CoverCycle` instantiates `PdfReplacement`, and `CoverAssets` `AssetStore`, under a
refinement mapping. `RetryLifecycle`, `CoverCycle` and `CoverAssets` look at the same cycle from three sides, and each implements
`DurableRow`, the part of the row they share: a record is worked on by the holder of `.workflow.lock` only, its worker alone
reopens it, names another asset only while it is unfinished, and confirms it from there with the asset it names by then. `RetryLifecycle`
keeps the columns that say *whether* a cycle runs and abstracts its work to an outcome.
`CoverCycle` keeps the columns that say *what was confirmed* and abstracts the retry columns:
an unfinished record may be tried at any time. Anything a retry column permits is permitted there.
`CoverAssets` keeps of a cycle what it does to files and to references of files, and lets the asset it
renders be any.

### Correspondence with the code

*CoverState.* A row's `status` has the extra value `absent`. The two timestamps are kept relative
to now: `due_in` is the time until `next_retry_at`, `claim_age` the time since `retry_claimed_at`,
counted to just beyond the lease. `retry_reason` distinguishes only `SourceResolutionError`, the
one text the code tests. Each operator is one SQL transaction.

*RetryLifecycle.* `tasks[t].pc` is where a thread stands in `process_integration_logic`; `lock` is
`.workflow.lock`. Between two actions of a thread every other actor may move. `claimed` is the
loop variable of `run_once`, `resets` the requests between the cutoff check and the reset. The
constructor of `StateMachine` backfills the schedule each time it runs; `NothingToBackfill` shows
that this is idle except after a restart, so only `Restart` does it. `MAX_RETRY_COUNT` may differ
from one process to the next.

*CoverCycle.* `drive`, `koha`, `repo` are the remote services, `row` and `work` the two tables,
`cycle` the local variables. Content stands for its SHA-256 and a rendered cover for the content
it was rendered from; a file's name in DSpace for its Drive id. A cycle moves through
`gate_file`, `gate_cover`, `decide`, then `links` (nothing to do) or `start` and the stages of
`_run_external_cover_cycle`. `Stop` is any failure of a call, with or without its effect, and the
death of the process: the code keeps nothing in memory that a later cycle needs, and both leave
the row unfinished. A download succeeds only with the SHA that the gate saw or the row holds.
One record and one cycle at a time are enough because cycles of all records share a lock and no
variable of the model is shared between records.

*CoverAssets.* `files` is the directory `assets/`; an asset stands for its name and for the content
with that SHA-256. `lock` is `.publish.lock`: an flock, which the kernel frees when its holder dies
(`Die`). `cycle`, `collector` and `override` are the three programs; cycles and DELETE cover share
`.workflow.lock`, so one variable is enough for them. A file that others wrote only in part would have
the content `None`. `FailCycle` runs the `finally` blocks, `KillCycle` does not. The status `reused` is
`ok` in the code: it marks rows that the shortcut for an invalid `956$u` confirmed without writing Koha.
The directory may begin with old files that no row names, left by earlier runs or by an earlier database. The
collector may start at any time, also between the publication of an asset and `save_cover_work`, which the lock does not
cover. `crossed` is a history variable: the assets that a collector counted as garbage in that gap, each until its next
publication. Time does not pass in the gap, which is one statement: a file that is collected there was old before.

*ExportRuns.* `rows[r]` stands for the rows of run `r`: each UPDATE names the run and the status it
expects, so they share status and `retry_count`. `workers[w]` is one CLI invocation: `pc` its place in
`run` or in `_recover_staged_runs`, `todo` the runs it read with the status it read, `completed` what
`filter_exportable_biblios` read first (its other reads are one step with the choice of biblios). A run at
`xlsx_generated` is never found by recovery, as the row holds a bare file name and `finally` removes the
file. Fields that only describe (file names, message ids, reasons, times) are left out. Exports started over the
API are stateless and touch no row.

*OptimizerJobs.* `client[a]` is one call of `_prepare_pdf_for_upload` and the upload after it; it has a job id, and so
two files, of its own: `input[a]` is the age of the copy, `output[a]` the content and age of what Ghostscript wrote.
`job` is what `get_job_status` would find, `known` the ids that `_jobs` holds, `queue` the executor's. `pool` is
`broken` once a worker was killed: the executor answers every later submission with an exception until a restart, and
Ghostscript, a child of the dead worker, goes on (`loose`). A raster is a job with a `dpi`; `pdfinfo` counts its pages before
Ghostscript runs (`counting`) and again after it (`checking`), each time with a limit of its own. The reason of a fallback is
telemetry, so of the errors only the timeout is told apart. The copy is made with the
modification time of its source, so its age is 0 or already beyond the TTL. Polls are instantaneous: the tick is long beside the
interval of two seconds, and no answer that is due waits for the next tick (`Due`). With a state
database `.workflow.lock` lets one client in at a time; without one there is no lock, so the model has none.

*Batches.* A batch started over the API is itself a task, and its robot calls the same API over HTTP. `thread[t]` is
where a task's thread stands, `tasks[t]` what `get_status` answers; a worker that dies forgets the dictionary and frees the
locks. `EndExport` merges the release of the export's lock, the return of the task and the publication of its status: in the code a
next export may start in between. `HttpThreads` counts the gunicorn threads that POST, poll and DELETE cover need. The state `waiting` is
a thread in front of `.workflow.lock`. A candidate list is a set of spans; each record is POSTed once per batch. Retries by
the scheduler are not in this module: a claimed cycle holds the same lock no longer than another task does.

*KohaRecord.* The record has seven fields or subfields, those that operations read or write and one `other`. `op` is the
operation that is under way with the copy of the record it read; `form` is what a librarian opened. `PUT` may have its
effect and lose its answer. `confirmed` is what an operation has read back, until an operation that sets the field, or a
save, changes it: a history variable. Operations of one record do not overlap, as they belong to cycles under the lock.

*LocalBooks.* It models the deployment without a state database, where no lock is taken. `source` is the file `956$u` names, `processed` and `errors` the folders, `items` the Items with this
`koha.uid`, `image` the cover in Koha. `run` is the request, `dspace` and `cover` its two threads. `Die` ends all three where they stand.
`unused` holds the PDFs nobody has supplied yet. The model has one request at a time; two requests of one record at once,
which nothing but the robot's and the librarians' habits prevents, could create two Items.

## Runs

| Run | Instance | Shows |
|---|---|---|
| `Retry` | 1 record, 2 threads, limits 2 and 3, lease 1, 2 crashes | budget, backoff, schedule, claims, cutoff; refinement of `DurableRow`; a failed record is taken up again |
| `CycleEdits` | 2 files and 2 contents per source, 2 edits, 2 faults, 1 forced refresh | link, confirmed PDF and cover, checkpoint and its asset, one copy, order of deletion; refinement of `PdfReplacement` and `DurableRow` |
| `CycleLiveness` | 2 PDFs, 1 cover, 2 edits of references, 1 fault, 1 removal | confirmed pairs are true, unfinished cycles complete |
| `CycleStuck` (violation) | 1 file with 2 contents, 1 content edit, 1 fault | an in-place edit blocks an unfinished record for ever |
| `Assets` | 2 records, of which one renders 2 assets and the other 1 of them, 1 override, 1 fault or kill, retention 1 | a named file is lost in one way only, content kept; refinement of `AssetStore` and `DurableRow`; unreferenced files go |
| `AssetsReused` (violation) | the same, no faults | an old unreferenced file is collected between its reuse and its reference |
| `Exports` | 2 runs, 2 biblios, 2 invocations that overlap once, 2 faults or kills, `MAX_RETRIES` 2 | stages are true, statuses move forward, a run is e-mailed again only after a fault or an overlap, a biblio without overlaps only after a fault; runs cut short end |
| `Optimizer` | 2 uploads, one of them a raster, limits of Ghostscript and `pdfinfo` 1, the client's 2, TTL 3, 1 fault | usable uploads, when the client gives up, abandoned jobs, temporary files |
| `Batches` | 1 batch of 2 records or of none, in sequence or in parallel, 2 exports, 1 removal, 1 HTTP thread, 2 polls, 1 fault | a success is one, the export lock follows the export, everything ends |
| `Marc` | 3 operations, 2 saves of the librarian | confirmations are true and stay, foreign fields are kept |
| `Local` | 3 PDFs, 3 requests, 2 faults | one Item, imported records have their PDF, no file is lost |
| `LocalManualCover` (violation) | the same | an automatic cover replaces a manual one |

**Bounds.** `MaxCrashes`, `MaxEdits`, `MaxFaults`, `MaxForces`, `MaxRemovals` bound how often the
environment acts; retry counts are bounded by the limit itself (`BudgetKept`), bitstreams and
Items by edits, forces and faults. Two limits let a new process shrink or grow the budget; two
threads let a second cycle wait behind the lock while the first runs; lease 1 lets a claim expire
during a cycle. Two faults interrupt a cycle and the cycle that repairs it; two edits change a
source during both. In `Retry` the limit may change at both crashes, down and up again. `CycleEdits` excludes the edit `unlink` and cover removals because of
two flaws described below, the missed PDF and the removal of a cover; `CycleLiveness` includes both.

In `Assets` two assets let a record change covers while the collector sweeps the old one, two records share
an asset, and one fault leaves an abandoned temporary file or a lock to be freed; the inductive invariant was
checked with two. Ages beyond the retention period are not told apart. `Covers` limits the second record to the
asset that both share: one record that changes its cover is enough.

In `Exports` two runs let a biblio be retried, or be exported twice by overlapping invocations; two faults cut a
run short and then its recovery. Runs also bounds how many exports are ever begun: `NothingToExport` is always
possible, so nothing waits for a run id.

In `Optimizer` the second upload is what the first stands in front of. As with the defaults, the client's limit exceeds
Ghostscript's (130 and 120 seconds) and not the whole run of a raster (140 seconds), and the TTL exceeds `pdfinfo` and an upload
together. One fault is a lost answer, a killed client, worker or service. In `Batches`
one HTTP thread is the worst case of four; a DELETE cover that waits for the lock occupies it while the robot wants to poll.
`Marc` needs a confirmation, a save of an older form and an operation that repairs it. `Local` needs a supply, a
run cut short twice, and a supply of the name again.

**Symmetry** (ids and contents) is used in `CycleEdits` and in the runs of local books only, which check no liveness.

**Deadlock** is checked except in `Batches`, `Marc`, `Local` and `LocalManualCover`: there a bounded number of requests is
made and the system ends.

**Fairness.** `RetryLifecycle`: threads keep running and time passes (weak); the scan is a loop of
five seconds (weak); a claimed row is either dispatched or its claim dropped (weak), and Koha does
not refuse every dispatch nor every start of a record's cycle for ever (strong, because both depend
on a thread and on the lock being free again and again). Nothing is assumed of users, the
operator or the outcome of cycles. `CoverCycle`: a running cycle goes on (weak), and an unfinished
record is tried again (weak): by the scheduler below the limit, by an operator beyond it. Faults
are bounded, as a service that never answers can complete nothing. `CoverAssets`: programs that run go on and time
passes (weak); the collector's timer fires every day, and as publications are rare and short it is given the lock
some time (strong). Time passes strongly fairly,
because it stands still between publication and save, and cycles may come without end. `ExportRuns`: an invocation goes on and the daily schedule starts one some time (weak); a call
that fails or a process that dies is a bounded fault. `OptimizerJobs`: a client and the worker go on, each subprocess ends or is killed,
the janitor's thread comes round and time passes (weak). `Batches`: threads go on, a DELETE cover that waits
gets the lock some time, a robot takes its next step (weak); a task thread that never starts is a fault.

## What the violations say

1. **CycleStuck.** An unfinished record with the stored id is resumed with the stored SHA. If the
   content changed in place, each attempt downloads a file with another SHA and fails.
2. **AssetsReused.** An old file that no row names lies in `assets/`, as after a new database. A cycle that renders the same
   cover finds it, reuses it and frees the lock; the collector takes the lock and counts it as garbage; the row is given its name, and the file is deleted.
3. **LocalManualCover.** `process_book` asks Koha for a cover before it renders one. A check that fails counts as no cover,
   rendering takes seconds, and the upload replaces what a librarian has uploaded by then.

`PROJECT.json` quotes the documents these disagree with.

Also met in the cycle and the retry table:

- a first row is inserted without a schedule, so a process that dies in a first cycle leaves a row that only another
  POST picks up, though it is reported as `backoff`;
- `cover_work` follows `file_work` when `956$p` is empty, so a new PDF replaces a cover from an explicit source;
- a checkpoint for other inputs is ignored and overwritten although Koha already shows its PDF; when the old
  `956$u` returns the gate answers `noop`;
- a cycle replaces the asset in the row before it writes Koha; if it fails in between, the shown asset is referenced by no
  row and the collector may delete it;
- DELETE cover cut short between Koha and the row lets the next cycle restore the removed `957$c`;
- PUT on a cover-only checkpoint, cut short, leaves an orphan bitstream; a checkpoint's result is written to Koha without asking
  whether its Item still exists; the shortcut for an invalid `956$u` confirms the row's asset without writing Koha;
- an override makes every later publication of that content fail (a documented compromise).

In the export: a retry is a new run with a count of its own, so `MAX_RETRIES` never stops a biblio
from being retried (`docs/RUNBOOK_KOHA_EXPORT.md:617` says that it does); of two overlapping runs of a biblio the second
cannot be completed, stays at `email_sent`, and makes every later recovery fail, which `StagedRunsEnd`
excludes by its condition on overlaps.

In the optimizer: a client that gives up on a job that waits behind others uploads the original although nothing failed. A raster
that waits behind nobody may meet the same end: its two calls of `pdfinfo` may take 10 seconds each beside the 120 of Ghostscript, which is more
than the client's 130, while `README.md:333` and `docs/RUNBOOK_PDF_OPTIMIZER.md:70` ask only that `OPTIMIZER_TIMEOUT` exceed `GS_TIMEOUT`. After a worker
was killed every submission is refused until a restart, while `/ready` answers that the service is ready.

In batches: a task that is reported as `TIMEOUT` goes on, and the robot starts the next record, whose task waits for the same lock;
after a restart of the API the robot polls for a task nobody knows until its own timeout; the API never answers 409, so `SKIPPED` is never
counted; `docs/STATE_MACHINE.md:60-63` promises the existing `task_id` for a duplicate request, which gets a task of its own;
a failed task is published before its error text; `cleanup_old_tasks` is never called.

In local books: an upload does not set the primary bitstream, so a repeated request uploads the PDF again, and additional files
each time; the Error folder keeps only the last file of a name; a run that dies after the move leaves `956$u` dangling, and the next
request reports `File missing`.

## Proofs

`RetryLifecycle_proofs` proves, for all sets of records and threads, all limits, leases and crash bounds:
`TypeCorrect`, `CyclesRunBelowLimit`, `RetryBudget`, `BackoffKept`, `FailuresScheduled`, `NoSecondClaim`,
`BackfillIdle` and `CutoffIsFinal`, each but `TypeCorrect` and `BackfillIdle` stating a property of `Retry`.

None of these is inductive alone. The inductive invariant `IInv` is the type invariant, with

- `RowInv` for each row: what combinations of columns occur. A count between 1 and the limit comes
  with a schedule, a defer reason and a known biblionumber; a count at the limit with status failed;
  an absent row is the default row;
- `CycleInv` for each thread inside a cycle: it holds the lock, its row exists, and from the stage it
  stands at what has been established of the row (eligible or confirmed after admission; pending,
  below the limit and claimed from `mark_pending` on, unless the operator reset it).

The lock part makes the threads' invariants independent: a thread that holds the lock is the only one
whose `CycleInv` says anything. The proof has one lemma per operator of `CoverState` (it keeps `RowInv`), and one step
per action of `Next`. Assumptions: the constants' (`LifecycleAssumptions`, `ClaimLeaseAssumption`), of which
`2 ^ n \in Nat \ {0}` is arithmetic that the provers do not know. `IInv` was checked by TLC on a small
instance before it was proved.

`RowsAreDurable` shows that every step of threads, scheduler, operator and restarts is one of `DurableRow`'s: those who write the
table without the lock neither make nor break a confirmation. It needs `HolderInv`: the lock is held by a thread inside a cycle, and only
an unfinished row keeps the reason of a failure, so that the shortcut for an invalid PDF, which reads the reason, never
confirms a row that a cycle has not left unfinished, even when the operator has reset it in between.

`CoverCycle_proofs` proves, for any Drive files, contents and options and any number of edits, faults, forced refreshes and
removals: `TypeCorrect`, `NoDanglingLink`, `UsableCheckpoint`, `OldIsKept`, `OneCopyLeft` and, as `CycleReplaces`, that
every step implements `PdfReplacement`. `CoverCycleInv`, which TLC checked first, has six parts. `Shapes` and `Bounds` are
types: sharper than `TypeOK` where a step depends on it (an id comes with a SHA of its kind), and naming only Items and
bitstreams that exist, so that a new number is new. `RepoInv` and `KohaInv` say what the Item and the link have to do with
each other. `WorkInv` carries the argument: as long as the Item lives, the result of a checkpoint is stored with the verified
content, is primary, is not among those to be deleted, and every other copy of its name is. `CycleKnows` says what the cycle may
rely on at each stage although others move in between: that a gate which did not ask Drive leaves a SHA in the row
(`GateInv`), that a resumed checkpoint is for the inputs at hand (`InputInv`), that an upload starts only when the checkpoint has no
result (`FileInv`), and at clean-up that Koha was read back and what is left to delete is all there is (`WriteInv`).
Nothing of it mentions Drive's present content, which users change at any time.

Three more properties hold only while users leave certain things alone, and the theorems say which, as a condition on the behaviour:
`CommittedPairs` (no file gets other content: `[][~EditContent]_vars`), `ConfirmedPdf` (nobody empties `956$u` or `956$p`: `[][~Unlink]_vars`) and
`ConfirmedCover` (the same, and no DELETE cover dies between Koha and the row: `[][~RemovalCutShort]_vars`). Each condition is needed:
without it TLC finds the behaviours listed above under what the violations say; edits of content, on the other hand,
are allowed in the last two. All three rest on `ResumeInv` (`ResumesCheckpoint`): a cycle that resumes a checkpoint works with the pairs of the
checkpoint, what it saves is for its own inputs, and its row is unfinished meanwhile. `PairsInv` follows a pair from the gate's answer through
cycle, checkpoint and row. `CoverInv` says at which stages the asset at hand is the one rendered from the cover that is named, and why a
cycle that reuses the confirmed asset may do so; `CoverKept` that `956$p` is not lost meanwhile. `PdfInv` does the same for the PDF:
where link and primary bitstream open the confirmed content although the cycle does no PDF work, up to a cover-only checkpoint
that waits for its retry; `FileKept` keeps `956$u`. The lemmas named `...Effect` say once, field by field, what each step does, and
`Steps` that there are no others. `RowIsDurable` is the refinement of `DurableRow`: by `ResumeInv` a row is unfinished whenever its cycle
rewrites it, and by `WorkInv` and `WriteInv` it names the asset of the cycle when the cycle completes. The proof assumes
`CycleAssumptions` and that `None` differs from the values it stands beside (`NoneIsNoValue`).

`CoverAssets_proofs` proves, for all sets of records, assets and replacements, any retention period and any number of
faults and overrides: `TypeCorrect`, `FilesAreWhole`, `TemporariesAreBounded`, `ContentIsKept`, `ReferencesHaveFiles` and
`ConfirmedCoversHaveFiles`, wherever the collector starts. There are two inductive invariants.
`BaseInv` says who holds the lock at which stage; what a cycle knows of its record; that the publisher
with the lock has cleared what others left; that a checkpoint is referenced by its row and that a row confirmed by a
complete cycle agrees with Koha. `ReferenceInv`, relative to it, holds the argument for the files: what the collector is going
to remove is named by no row and by no cycle that is about to save, and no name can appear while it holds the lock, because a
cycle cannot pass its publication then; the one way around that is a publication before the collector starts, and
what comes that way is in `crossed`. Of such assets nothing is promised before their next publication. Each part of an invariant has a lemma with one step per action.

`KeepsTheStore` is the refinement of `AssetStore`, where what is named or shown excludes the crossed assets: every step publishes a whole file where there is
none, removes or overrides one as permitted, changes what is referred to, or is invisible. It subsumes that what Koha shows of a confirmed record is on disk (`ConfirmedOnDisk`) and that files are whole
(`WholeFiles`), which therefore have theorems of their own but no place in a run. `ReferenceInv` yields that a collected file is
named by no row and that a new reference has its file; `TargetInv` that the file an override works on stays, as the collector needs the
lock. `RowsAreDurable` is the refinement of `DurableRow`: with `IdleInv` (nobody works on a record when no cycle runs, and a row is created empty) no step of publisher,
collector or override script touches a row.

`ExportRuns_proofs` proves, for any number of biblios, runs and invocations, faults and overlaps: `TypeCorrect`,
`StoredStagesAreTrue`, `StatusesMoveForward`, `RunsEmailedOnce` and `BibliosEmailedOnce`. The inductive invariant `ExportInv` adds to the first properties what an
invocation still knows of rows that others write meanwhile: its run has rows once inserted (`WorkerInv`; rows never
disappear), a run about to be marked as sent was e-mailed, and a run id not yet inserted belongs to one invocation
and has no rows (`FreshInv`). The bounds on e-mails are by cardinality. `EmailInv` counts, for each run, the e-mails sent and those
that invocations are about to send: all but one are paid for by a fault or an overlap each, and so is even the first once the run could be
taken up again. `HandInv` keeps the set of active invocations finite. For biblios the count goes over all runs, and needs that no invocations
overlap: then there is one active invocation (`AloneInv`), what it has read stays true, no two runs have taken the same biblio, and
`BiblioInv` counts the biblio's e-mails against the faults. There are two properties because a bound for each biblio
that charges an overlap like a fault is false: from four invocations on, one overlap can lead to more than one repetition.

`KohaRecord_proofs` proves, for any edits, uids, operations and saves: `ConfirmationsAreTrue` and `OnlyOwnFieldsWritten`. `RecordInv` adds
to the types what a read-only step of an operation may assume of its copy (`ReadInv`), that `set_status` touches no field
a confirmation is about (`StatusInv`), and the confirmations (`ConfirmedStays`). An operation that puts a copy which is older than a save is
not excluded: the property says that this, and only this, changes a foreign field.

`LocalBooks_proofs` proves, for any PDFs, runs and faults: `RecordHasOneItem`, `ImportsHaveTheirPdf` and `SuppliedFilesKept`. `LocalInv` is
the type invariant, `RunInv` (what the run and its DSpace thread know of the Item they found or created), `CopyInv` (where a PDF
is while a run has it) and `OneItem`. `RecordHasOneItem` rests on an assumption of the model: DSpace's search, which
looks for the uid, knows every Item that exists.

`OptimizerJobs_proofs` proves, for any uploads, sizes, timeouts and faults: `TypeCorrect`, `UsableUpload`, `PatientClient` and
`AbandonedJobs`. It assumes what the configuration must provide (`OptimizerAssumptions`): a file lives longer than a call of
`pdfinfo` and an upload take together. How long the client waits beside what a job may take is left open: `PatientClient` says
what that means for the client (`GivesUpOnlyWhenLate`). `OptimizerInv` is the type invariant with `FreshInv` (no job before
the submission), `QueueInv` (the queue names each waiting job once; a Ghostscript that outlived its worker belongs to a failed
job), `StageInv`, `OutputInv` and `WaitInv`. `StageInv` says that only a raster is
counted, and that no stage has run longer than its limit. `OutputInv` is the argument for what is uploaded: no time passes while an answer is due, so an output
is no older than the last `pdfinfo` when it is taken; it ages no faster than its upload, hence stays below the TTL; and nobody writes to the output of a job
that is done. `WaitInv` bounds a client's wait by its job's time in the queue and at the stages it has passed, and says that a client that ended has
removed its input.

`Batches_proofs` proves, for any batches, candidate lists, exports, removals, HTTP threads, polls and faults: `TypeCorrect`,
`OneExportUnderLock` and `SuccessIsComplete`. `BatchesInv` adds to the types `ExportInv` (an export's thread and the lock, which
only one export can have), `CycleInv` (a cycle ends once, and what `TASKS` publishes is how it ended), `FreshInv` (a batch
that has not begun has started nothing), `RobotInv` (what a robot at work knows of its cycles), `LogInv` (only a robot
on the command line reports to its log) and `ReportInv`, the property itself. A process that dies empties `TASKS` and not what robots outside it
have counted, which is why the invariant is about how cycles ended rather than about `TASKS`. It assumes that texts hold numbers
(`TextsOfNumbers`) and that the ids of tasks differ (`TasksAreDistinct`).

Only model-checked: liveness under fairness, which the prover cannot do (`FailedRowsRetried`, `UnfinishedCompletes`,
`UnreferencedCollected`, `StagedRunsEnd`, `TempFilesGo`, `EverythingEnds`). The type invariants are
proved and not listed in the runs; TLC checked each before its proof. Every other invariant and every action property
that a run checks, and each refinement, is stated by a theorem. The three of `CoverCycle`
above carry a condition; the runs check them under the same restriction (`UserEdits`, `MaxRemovals`).

## Plan

Done: all modules above. What remains, most important first:

1. Links in 956 that cannot be parsed, and the shortcut to a confirmed row that they lead to.
2. The download cache of `services/sources.py`, and two runs of a local record at once.
3. Pure algorithms against reference definitions: paging of Koha, the comparison of 956 and 957.
4. Induction over data from minimal elements (`WFMin`), which needs no operator parameter, for folds over batches; untried.

## Not modelled

Authentication, CORS, browser scripts, MARC, mapping and configuration parsing, backups, deployment: they keep
no protocol state, and their hazards are ones that unit tests reach. `nightwalker.py` imports names that the package
no longer has and cannot run. The download cache and the parsing of source URLs are pure reads beside what `CoverCycle`
models of a download. Ghostscript's command line, image processing and the layout of e-mails and XLSX files are data.
