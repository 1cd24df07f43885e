# TLA+ models of track-system

track-system follows openEuler packages over three layers: the upstream (L0), the openEuler
package repository (L1) and a downstream distribution (L2). A *tracking* row ties an L1 branch to
an L2 branch. A scheduler syncs due trackings, runs a six-stage pipeline on each (ingest L1 commits,
snapshot L2, compare, classify, report, suggest backports), and a web API queues, triggers, pauses
and deletes trackings while it runs.

This directory models the part of it whose correctness depends on order or on a calculation: the
scheduler and its job table, the sync executor, the pipeline and its cancel requests, the programs that
write commit records, L0 commits and backport candidates, the snapshots and comparisons of overlapping
pipelines, the order of versions and the times of syncs, the mirrors of upstream repositories, and the
workflow engine. Paths below are
relative to `src/src/`.

| module | models | lines |
|---|---|---|
| `SyncTables` | the `tracking` and `sync_jobs` tables and one operator per database call | sync_manager.rs, handlers/tracking.rs |
| `TrackScheduler` | rounds, triggers, queue requests, the pipeline's effect on both tables, completion, crashes | scheduler_manager.rs, sync_manager.rs, sync_service.rs, cron_scheduler.rs, track_server.rs |
| `JobLedger` | abstract specification: one open job per tracking, opened in order, never reopened | - |
| `PipelineRun` | overlapping executions of one job, the state manager, cancel, ingestion, classification | pipeline_executor.rs, pipeline_state.rs, sync_service.rs, pipeline_stages.rs |
| `WorkflowEngine` | the three execution policies and the topological sort | workflow/engine.rs, workflow/parser.rs |
| `CommitRecords` | imports, pushes, stores, classification jobs and stages on the commit records of a tracking | classifier_job/mod.rs, importer/metadata.rs, sync_service.rs, handlers/metadata.rs |
| `L0Candidates` | watchers, pollers, pushes and backport advisors on the rows of a package | l0/, backport_advisor/advisor.rs |
| `SyncExecution` | the executor without a pipeline, on `SyncTables` | sync_executor.rs, sync_manager.rs |
| `LayerReports` | snapshots, fallback baseline and comparison of overlapping pipelines | pipeline_stages.rs, metadata_bridge/mod.rs, l2_vs_l1/mod.rs |
| `LayerDiff` | the comparison of two snapshots and its advice | l2_vs_l1/mod.rs, metadata_bridge/mod.rs |
| `VersionOrder` | the order of versions and what a report of L1 against L0 derives from the versions it knows | utils/version.rs, l1_vs_l0/mod.rs, pipeline_stages.rs |
| `SyncTiming` | aligned sync slots: should_sync, the next sync time | sync_manager.rs |
| `MirrorCache` | the bare mirror that collections and cache warmings of several processes share | ecosystem/maintenance/collectors/generic_git.rs, l0/cache_service.rs |
| `MC*` | instances for TLC | - |
| `*Proofs` | theorems with proofs checked by TLAPS; `RecordWritersProofs` holds those of `L0Candidates` and `SyncExecution`, `ComparisonProofs` those of `LayerDiff`, `VersionOrder` and `SyncTiming`, each with those of the composition | - |

`PROJECT.json` maps each definition to its lines, and lists the components, runs, seeded faults,
findings, hazards and theorems.

## Inventory

### Components with state that several parties change

**Tables and SyncManager** (`scheduler/sync_manager.rs`, `entities/`). State: `tracking_status`,
`last_sync_time`, `last_error` of each tracking; `status`, `scheduled_at`, `started_at`,
`finished_at` of each job. Operations: `queue_sync_job`, `start_sync_task`, `complete_sync_task*`
(all through `apply_completion`), the three queries of due trackings, `calculate_next_sync_time`.
There is no transaction and no unique index: each operation is a sequence of awaited calls. Two
vocabularies share `sync_jobs.status`: SyncManager writes pending, running, succeeded and failed;
the state manager writes running, completed, failed, cancelling and cancelled.
*Correct when*: an active job is reused, not duplicated; only jobs that ran are reported finished; a job
left open is eventually finished; a pause is respected; no job outlives its tracking.

**SchedulerManager** (`scheduler/scheduler_manager.rs`). State: a status record, a channel of wake
signals. Operations: `execute_round_wake_up` (a list read once, drained in chunks of
`max_concurrent_jobs`, strictly one tracking at a time), `trigger_manual_sync`, `wake`. Rounds and
triggers only take a *read* lock of the manager, so they overlap freely.
*Correct when*: every due tracking gets its turn, over failures of single trackings and over crashes.

**PipelineExecutor and PipelineStateManager** (`scheduler/pipeline_executor.rs`,
`pipeline_state.rs`). State: a map from job to current stage, completed stages and a cancel flag; the
job's status column. Operations: `execute_sync_job`, `cancel_job`, `get_job_progress`. The binaries
build the executor *without* a state manager: in production a job stays pending until completion,
and there is no cancel. Both forms are modelled.
*Correct when*: a cancel request stops the run; a final status is earned; a job that says running is running;
stages are skipped only when they have nothing to do.

**SyncService and the stages** (`scheduler/sync_service.rs`, `pipeline_stages.rs`). State:
`l1_commit_records` (unique per tracking and sha; pending or done), snapshots, reports.
*Correct when*: every stored commit is eventually classified; a commit is stored once.

**Commit records and the classification queue** (`classifier_job/mod.rs`, `importer/metadata.rs`). State:
the rows of `l1_commit_records`, written by imports, pushes, syncs, classification stages and jobs of another
kind in `sync_jobs`; a fetch-then-mark dequeue with a limit on the commits per job.
*Correct when*: an imported commit is classified; no job is started twice by one runner; no release is lost
to the filter of bot commits.

**L0 commits and backport candidates** (`l0/`, `backport_advisor/`). Two tables without a unique key, written
by a look and an insert in separate calls. *Correct when*: a program never writes the same row twice;
what an advisor has read is suggested for every distro.

**Sync executor** (`scheduler/sync_executor.rs`). `start_sync_task` marks job and tracking, the only
place that writes 'syncing'. *Correct when*: 'syncing' ends with its run; a pause sticks.

**Snapshots and comparison** (`metadata_bridge/`, `pipeline_stages.rs`, `diff/`). State: the latest snapshot of each
layer, the stored L2 commits with the version each is stamped with, the openEuler-24.09 fallback trackings,
the report. *Correct when*: a report compares with the right line of L1, and says L2 is behind on commits it lacks; the
latest snapshot covers what is stored; one fallback tracking is made.

**Version order and sync times** (`utils/version.rs`, `sync_manager.rs:482-532`). Pure functions.
*Correct when*: the latest version is the newest, and what is counted as behind and offered as an upgrade agrees with it; a slot
makes a tracking due once.

**Mirrors** (`ecosystem/maintenance/collectors/generic_git.rs`, `l0/cache_service.rs`). State: a bare repository on disk for each
upstream URL, a lock for it in each process. Operations: `collect` (metrics of the default branch), `warm_cached_mirror`; both go
through `with_synced_mirror`. *Correct when*: the metrics are of what upstream has; a damaged mirror is rebuilt; nothing stays
on disk when mirrors are not kept.

**Workflow engine** (`workflow/`). State: a status per task.
*Correct when*: dependencies are respected under each policy; execute returns with everything over.

**Handlers and loops** (`server/handlers/{tracking,sync,metadata}.rs`, `bin/track_server.rs`). The
actors: an operator creates, updates and deletes trackings; requests queue, trigger, run a round or
wake the loop; the loop waits for a timer or a signal.

### The other components

The other collectors, change classifier, ecosystem collection, exporter, AI, mail and spreadsheets, middleware, command
line, migrations. They are text processing or one-shot I/O; PROJECT.json lists each with the reason it is not modelled. Where
a modelled component calls one, its possible outcomes are a nondeterministic choice.

### How they interact

    timer, wake signal ──> loop ──> round ──┐
    POST trigger ───────────────────────────┼─> queue_sync_job ─> execute_sync_job ─> apply_completion
    POST queue, snapshot push, cron ────────┘         │                  │                   │
    POST/PUT/DELETE tracking ───────> tracking <──────┴── sync_jobs <────┴───────────────────┘

Everything meets in the two tables; no lock is held over two calls.

    pipeline ─> commits stored ─> L1 snapshot ─> L2 snapshot ─> compare ─> classify ─> report ─> backports
    import, push ─> commit records <─ classification jobs <─ runner     fallback tracking ─┘        ^
    watcher, poller, push ─> L0 commits ────────────────────────────────────────────────────────────┘

### What is hard to test

Interleavings at every await (two requests, a request and a round, an operator and either); a crash
or a failed call between any two of the calls; a request handler dropped when its client hangs up; a
cancel at any point of overlapping executions; a pause or a deletion at any point; a second process at work on the same directory; what a later
run makes of a half-finished earlier one. The hazards are in PROJECT.json, each at its line.

## SyncTables and TrackScheduler

A worker is one future: a scheduler loop (in `Loops`) or a request. `pc[w]` is the await it stands
at, so an action is the code from one await to the next:

| label | action | code |
|---|---|---|
| idle | `StartRound`, `StartSpecificRound`, `StartTrigger`, `StartQueue`, `StartCron` | the list a worker starts with |
| next | `TakeNext`, `EndRound` | the chunked loop of execute_round_wake_up |
| find, check, insert | `FindActive`, `CheckTracking`, `InsertJob` | queue_sync_job |
| load, ingest, collect, diff, finish | `LoadJob`, `Ingest`, `Collect`, `UseFallback`, `FallbackFails`, `Finish`, `PipelineFails` | execute_sync_job, no state manager |
| complete, write, latest, mark | `ReadTracking`, `WriteTracking`, `FindLatest`, `MarkJob` | apply_completion |

Abstractions. A job row is named by its `scheduled_at` stamp, taken before the insert (so rows may
appear out of stamp order); stamps are taken to differ. `last_sync_time` is the Boolean `fresh`: set, and the
next aligned instant not passed; `BecomeDue` is the passing of that instant. `syncing` is in the
types but nobody writes it: only `start_sync_task` does, which no binary calls (an operator may, in
principle, through the API). The fallback tracking of an L2-newer package is one row per
package, created on demand. Of the pipeline only what touches the two tables is kept: the
ingestion's status check and `update_tracking_sync_time`, for the tracking itself and for its fallback.

Mishaps. `CallFails` is a database error (the round goes on with the next tracking, an error of
completion is dropped), `Abort` a crash of the process or a dropped request. They are bounded by
`MaxMishaps`, as are wake-ups for a specific tracking; rows ever inserted are bounded by `MaxJobs` (at
the bound an insert fails, which the code treats like any failed insert).

| run | bounds | checks |
|---|---|---|
| `scheduler_recovery` | 1 loop, 2 trackings in one chunk of 2, 2 jobs, 1 mishap | `FinishedWasAttempted`, `OneActiveJob`, `LedgerSpec`, `JobSettles` |
| `scheduler_requests` | 1 loop and 1 request worker, 1 tracking, 3 jobs, 1 mishap | `TypeOK`, `NoOrphanJob`, `ActiveBound` |
| `scheduler_pause` | loop and request worker, a tracking and its fallback, chunks of 1, 2 jobs | `PauseSticks` |
| `duplicate_jobs` | loop and request worker, 1 tracking | finding: `OneActiveJob` is violated |
| `skipped_run` | 1 loop, 1 tracking, 1 mishap | finding: `SkippedKeepsLastSync` is violated |

Two workers are enough for every pairwise interleaving; two jobs for a duplicate or for a later job
after a finished one; one mishap for each single crash or failed call, at any await. Two trackings
are needed for a chunk and for the fallback.

`JobLedger` is what the job table promises, and with one worker `TrackScheduler` implements it (`LedgerSpec`, proved as
`OneWorkerKeepsLedger`): the mapping takes the newest active row as the open job (`LedgerOpen`) and the other rows as closed
ones (`LedgerClosed`). With two workers it does not, which is the finding `duplicate_jobs`; what remains true there is `ActiveBound`.

`PauseSticks` says *from when* a pause is certain: `InFlight` names the two places (after the check
in `sync_tracking`, after `preserve_status` was read) from which a worker still overwrites it.

Fairness of `LiveSpec`. `WF(Work(w))`: a started future is polled to its end. `WF(StartRound)` for the
loops: the timer of track_server.rs:322-327 fires. `WF(Time)`: instants pass. No fairness for
requests, operators or mishaps. `JobSettles` is checked with one worker, where no duplicate can arise; see the findings
for what a duplicate does to it. `Work` includes both success and failure of a stage, so no success is assumed.

## PipelineRun

One job, executed by several executors at the same time: `queue_sync_job` hands an active job to
everybody who asks. `exec[w]` is where an executor stands and what it has in its hands (stage, `skip_to_report_generation`,
commits to look at and commits stored); `entry` is the job's entry in the states map; `canceller` is
the two-step `cancel_job`. `Begin`, `Announce` and `LoadTracking` are the prelude, `CheckCancel`, `StartStage`,
`StageEnds`, `StageFails`, `Finish` the loop. The ingestion is call by call (`Collect`, `FindCommit`, `SaveCommit`,
`IngestEnds`), as is classification (`TakePending`, `Classify`, `ClassificationEnds`); the other stages have an
outcome only. `late` is a history variable: the stages started since the pending cancel request.

| run | bounds | checks |
|---|---|---|
| `pipeline_run` | 2 executors, a commit and a bot's commit of the same release, 1 cancel, 1 failed call or crash | `TypeOK`, `CancelStops`, `RunningIsExecuted`, `StoredGetsClassified`, `OutcomeEarned` |
| `pipeline_skip` | 1 executor, 1 commit | finding: `SkipLosesNothing` is violated |

The executors are symmetric. The tracking is on Gitee or AtomGit (commits of other platforms are not
stored, sync_service.rs:264-273); its deletion is left to `TrackScheduler`.

## WorkflowEngine

A configuration is a list of tasks with their dependency lists, chosen in `Init` among all valid ones
within `DepLists`, with an arbitrary set `bad` of tasks that fail. `execute` is called once. Spawned tasks of the parallel
policy end on their own (`FutureEnds`), also after `execute` returned. The topological sort is a recursive function
that threads `sorted`, `visited` and the path `temp_visited` as the code does.

| run | bounds | checks |
|---|---|---|
| `workflow` | 3 tasks, every list of at most 2 dependencies in either order, every failing set, 3 policies | `TypeOK`, `SequentialNeedsSuccess`, `DagOrder`, `Completes` |
| `dag_skip` | 2 tasks | finding: `DagSkipsAfterFailure` is violated |
| `parallel_wait` | 2 tasks | finding: `ParallelWaitsForAll` is violated |

Three tasks give chains, forks, joins, self-dependencies and cycles of length two and three. Fairness: the caller polls `execute`, the
runtime polls each spawned task, a task ends.

## CommitRecords, L0Candidates, SyncExecution

The three share no table and are checked in one run; `scope` in `MCRecordWriters` is the machine a behaviour
follows, so that TLC explores each by itself. `at`, `l0at`/`adAt` and `exAt` are where a program is, and an action is
one database call.

`CommitRecords`: an importer inserts a commit, then `enqueue` looks for an open job (`JobsToReuse`) and inserts one. A runner
fetches the oldest pending job, marks it, reads at most `Limit` pending commits, classifies each and closes the
job. Pushers insert what is missing and leave it unclassified; stores are `process_platform_commits` with its filter of
bot commits; stages classify the pending commits of the tracking. A crash or failed call ends a program where it stands.

`L0Candidates`: a row is a commit and who inserted it, so that what a program did twice can be told from what two
did. Watchers stop at a known commit, pollers and pushes skip it; an advisor reads the rows, then looks and inserts per row and distro.

`SyncExecution`: `execute_pending_tasks_with_limit` and `execute_batch` over `start_sync_task`, the sync, and
`apply_completion`, on the tables of `SyncTables`, with an operator at work on the tracking.

| run | bounds | checks |
|---|---|---|
| `record_writers` | 2 commits of one release by the bot, 2 importers, 1 pusher, 1 store, 2 runners, 1 stage, 3 at work at a time, 3 jobs, limit 1, 1 mishap; 1 L0 commit, 3 writers, 2 advisors, 2 distros, 3 at work; 2 executors, 1 tracking, 3 jobs, 1 mishap | `RecordsTypeOK`, `WritersTypeOK` (`L0TypeOK` and `ExecutionTypeOK`), `ImportedIsCovered`, `StartsBounded`, `OpenJobsBounded`, `OneVerdictEach`, `ReleasesKept`, `OneRowPerWriter`, `OneCandidatePerAdvisor`, `AdvisorCovers`, `SyncingHasExecutor`, `ExecutorPauseSticks` |

Three programs at a time give each pair and one that comes between; every crew of three is an initial state. Two commits
and a limit of one give a list that is cut short; two distros an advisor stopped half way.

No fairness is assumed here and no liveness stated: nothing in the sources calls `run_next`, `poll_package`,
`poll_l0` or `SyncExecutor` (they are entry points of the library), so no schedule justifies it. That something is
*still going to be handled* is stated as a safety property instead (`ImportedIsCovered`, `SyncingHasExecutor`): it names who will.

## LayerReports, LayerDiff, VersionOrder, SyncTiming, MirrorCache

Checked in one run as well; `part` in `MCComparison` is the module a behaviour follows.

`LayerReports`: a branch is a list of version-release pairs, a commit its place in the list, a snapshot the commit its spec file
was read at. A pipeline goes through `sync`, `spec`, `put` (L1 ingestion and export), `l2`, `log`, `git`, `putL2` (L2 export),
`readL1`, `readL2`, `find`, `make`, `latest`, `fetch`, `specF`, `putF`, `again` (the probe and the fallback), `version`, `match` (commits behind).
The branches move at any moment. `Listing` is the one page of commits a sync asks for; with `PageSize` 2 and three commits
a sync can miss one for good, as more than 30 new commits make it in the program. A spec file that cannot be fetched, decoded or parsed
at a commit is no error to the sync: `Store` puts the commit into `blank`, without its release or without both, where it stays, since no later sync
looks at a commit it finds stored. `BaseCommit` passes over those (`Named`, `Full`). Each such commit counts as one mishap, as does a
call that fails. A release without a version is left out: nothing compares it.

`clouded`, `crowd` and `l2Moved` record, for the properties, that ingestions of a row overlapped or failed, how many pipelines were at work
together, and that L2 moved during an export. `LatestCovers` leaves out clouded rows and `BehindIsNewer` the time after a move of L2 during an
export. `BehindIsNewer` says less of commits stored without version or release: they are only known to be of no earlier version than the snapshot,
because L2's own release is reported as behind when L1's commit of it was stored blank and an older one of the same version is the baseline. The lists of
`LayersAssumption` only grow in version and release.

`LayerDiff`: a file is a name and a content, its hash what `collect_files` makes of them (without a repository the hash
of its path). `Generated` and `Recommendations` are the advice before and after the sort and the removal of duplicates.

`VersionOrder`: a tag is its numbers and its pre-release word, number and rank as text; `CompareVersions` is `Ord for Version`. A report has
three inputs: `tags` (L1's current version and those of its commits), `mainline` (what was seen of L0) and `component` (what L2 ships). `FindLatest` is
`latest_version_from_strings` on L1's list: pre-releases are candidates, a major number of 1000 or more (a year) is not. `compare_component_to_l1` hands
that one version to `compare_versions` as the latest stable and as the latest, so `IsOutdated` may be true over a pre-release, while `CountBehind` counts
L1's stable versions, years among them: `BehindAgrees` says where the two figures may differ and that they differ nowhere else. `Upgradable` is taken of L0's
list from L1's current version, whatever L2 ships (`UpgradesOffered`).

`SyncTiming`: `NextAlignedAfter`, `NextSyncTime`, `ShouldSync` as functions of the clock, the interval, the last sync.

`MirrorCache`: `disk` is the mirror: none, broken (cannot be opened), locked (a killed fetch left its locks), or good, with HEAD and the tip of
each branch. A user is one call of `collect` or `warm_cached_mirror`; `peers` says which share a process, and so the lock, and `retain` whether
mirrors are kept. The server and the scheduler read the same environment file, so `retain` is one value. `symref` is whether the server names the
branch HEAD is on; where it does not, the mirror's own HEAD is asked, and failing that all branches are fetched.

| label | action | code |
|---|---|---|
| off | `Start` | cached_mirror_lock, with_synced_mirror |
| look, open, remove | `Look`, `Open`, `RemoveBroken` | sync_cached_mirror |
| init, ls, fetch, setHead | `InitBare`, `ResolveRemoteHead`, `FetchMirror`, `UpdateCachedHead` | create_cached_mirror, open_and_update_cached_mirror |
| compute, clean | `ComputeMetrics`, `Cleanup` | the use of the repository, cleanup_cached_mirror |

Upstream moves at any moment (`Push`, `Rename`); a command fails or is killed (`CommandFails`), a process ends in its middle (`ProcessEnds`).
`RemoveBroken` and `Cleanup` beside another process at work may leave a part behind, which `remove_dir_all` reports as an error.
History: `since` holds the tips and default branches since anybody was at work without a break, `disturbed` who was not alone or met trouble,
`leftover` that the mirror on disk outlived a crash or was there at the start. An error of the metrics themselves removes nothing, as in the code. A
warming reads the branch of HEAD only and cannot fail at `compute`.

| run | bounds | checks |
|---|---|---|
| `comparison` | 2 pipelines started at most twice, branches of 2, 3 and 2 commits, pages of 2, 1 failed call or spec fetch; 3 patches, 2 sources, 2 contents, 3 edits; every pair of lists, of L1 and L0, with together 3 of 10 tags, against every component version; intervals -1 to 3, times to 9; 2 users in one process or two, 2 branches, 2 moves upstream, 1 failure or crash | `ReportsTypeOK`, `LatestCovers`, `BehindIsNewer`, `ComparedWithRightLine`, `FallbackRowsBounded`, `AdviceKept`, `LatestIsNewest`, `DueOncePerSlot`, `MetricsCurrent`, `AloneSucceeds`, `NothingRetained` |

Two pipelines give the overlap; L2 goes from level with L1 to ahead of it, and the fallback branch from behind L2 to past it,
so every outcome of both probes happens. Two commits of one version in L1 are what it takes for a blank one to be reported as behind. Three tags over both
lists are a maximum with a tag on either side in one list, and L1's current version with two of L0 to sort; among the ten are two spellings of one version, a year, one that
does not parse and the pre-releases whose order is not transitive. An interval of 3 with a creation time of 2 gives instants before, on and between slots. Two users are what one process admits
plus one of another; two moves rename the branch and push to it, or rename it back; every user may come again, so what one leaves on disk is
what the next finds.

No run looks for deadlocks: the engine stops when it has returned, a scheduler with nobody at
work and all bounds used up stops too, and liveness is stated as a property instead.

## What is proved

The proof modules need the named assumptions on the constants only; the sets may have any size. Where the code relies on
two values being different (a job and no job, a result and none), the assumption says so: `TablesAssumption`
(`None` is no job id), `MirrorAssumption` (`NoResult` and `Failed` are no metrics), `FilesAssumption` (no patch or source is named "*.spec",
as names ending in .spec are neither, l2_vs_l1/mod.rs:536-545).

- **`TypeCorrect`** (`TypeOK`): besides types, `AtHand` says that a worker past a step holds what the
  step gave it (a tracking past `next`, a job past `check`). It is inductive; every other scheduler proof rests on it.
- **`NoOrphans`** (`NoOrphanJob`): inductive given the types, as `InsertJob` re-reads the tracking (the foreign key) and
  `DeleteTracking` cascades. The place where it could fail is an insert after a deletion.
- **`PausesStick`** (`PauseSticks`): one case per action that writes a status: outside `InFlight` it is not enabled
  or preserves the status.
- **`ActiveJobsBounded`** (`ActiveBound`): not inductive by itself. The strengthening `InsertBound`
  counts the active rows of a tracking together with the workers at check or insert on it: a worker only gets there having
  seen no active row, so rows and those workers together never exceed the number of workers.
- **`OneWorkerOneJob`**: with one worker the bound is one, so `OneActiveJob` is the promise of
  `queue_sync_job`, and the finding is entirely due to concurrency.
- **`OneWorkerMarksItsJob`** (`FinishedWasAttempted`) and **`OneWorkerKeepsLedger`** (`LedgerSpec`) from `OneWorkerInv`, for the program
  that has one future queuing and running jobs. apply_completion does not take the id of the job that ran: it looks for the latest row of the
  tracking. The invariant says why that is the right row: the worker inserts only when no row of the tracking is open
  (`InsertFindsNone`), each stamp is later than every row (`InsertIsNext`), so no row is later than an open one (`OpenIsLast`) or than the job at hand,
  unless the tracking was deleted meanwhile (`JobIsLatest`). The hypothesis is needed: with two workers a tracking may have two
  open jobs, as `duplicate_jobs` shows. For the refinement, every action maps to an insert, a close or a deletion of `JobLedger`, or changes
  neither `LedgerOpen` nor `LedgerClosed`.
- **`OutcomesAreEarned`**, **`RunningJobsAreExecuted`**, **`CancelRequestsStop`** from `RunInv`: an executor at finish with verdict
  completed has done the report stage, and one with verdict cancelled saw a request. A job starts to say running at
  an announcement, whose executor is at work until it writes a final status. For the cancel bound, `CancelInv`: the stages started late, plus
  the executors standing between check and start, are at most the number of executors.
- **`TypeCorrect`** of `PipelineRun` from `CountInv`: the stages counted together with those the executions still have before them (`Left`) never exceed
  six for each executor.
  **`StoredCommitsClassified`** (`StoredGetsClassified`) from `ClassifiedInv`: `Handled` says that what an execution stored keeps its row,
  that a commit it stored is on its list or classified while it classifies, and classified once that stage is done; executions next to it
  only insert rows and classify them (`CommitGrows`).
- **`SequentialDependencies`** from `SeqInv`: what is left of the list is ascending and still Pending, so a
  succeeded dependency is never started again.
- **`TypeCorrect`** of `WorkflowEngine` and **`DagKeepsOrder`** (`DagOrder`) from what `topological_sort` computes. Its recursion is a recursive
  function over *calls* (a list, the path above it, what is sorted so far). `CallInduction` is the induction over calls, stated for a set of calls: a
  call made has one task more on its path or the same path and a shorter list. `SortRecursion` shows with it that the recursion has a result
  (the library's theorem is not usable), as the one value each call has in every closed set of results; `CallsSort` that a result lists tasks once and
  each after what it depends on; `SortedIsAcyclic` that then no task waits for itself. `DagInv` carries that through the loop: what is left
  of the list is Pending, each task once, and what a task waits for is over, at work, or before it.
- **`RecordsTypeCorrect`, `StartsAreBounded`, `OneVerdictOfEach`, `ReleasesAreKept`, `ImportsAreCovered`, `OpenJobsAreBounded`** from six invariants of
  `CommitRecords`: `Typed`; `JobsInv` (a job a runner has marked is never pending again, a stamp not yet inserted is
  higher than all that are); `ListsInv` (a commit classified, or on its way, is on nobody's list twice); `StoreInv` (what a store has passed has a row or
  shares its release with one in `seen`, whose row exists); `CoverInv` (who will handle each imported commit); `OpenInv` (every open job
  is the latest of an importer or was reopened by a runner, and one runner is spare: it is fetching, or busy with an importer's latest. The spare
  one is the minus one of `OpenJobsBounded`: an importer asks for a new job only when none is open, and then the runner that closed the last
  one has nothing to fetch).
- **`L0TypeCorrect`, `CommitsStoredOnce`, `CandidatesSuggestedOnce`, `AdvisorsCover`** from `RowsInv` and `CandsInv`: what a
  program found absent is absent from *its own* rows, since only it inserts those.
- **`ExecutionTypeCorrect`, `SyncingIsCleared`, `ExecutorsLetPausesStick`**: the executor that wrote 'syncing' is between that write and its
  completion, and an operator cannot write 'syncing'; for the pause one case per action that writes a status.
- **`LayersTypeCorrect`, `RightLineCompared`, `FewFallbackRows`** from `LayersInv`: `TablesTyped` and `HandsTyped` (what a pipeline holds at each
  place); `ProbedInv` (a pipeline past the probe has read snapshots of which L2 is not ahead, and is on the fallback row only after its own
  snapshot was behind L2); `CrowdInv` (the fallback rows, together with the pipelines that found none and are about to insert one, are never more
  than the pipelines that were once at work together).
- **`BehindCommitsAreNewer`** (`BehindIsNewer`) from `BehindInv`: with a checkout every L2 snapshot was preceded by its commits (`StampTables`), so the newest
  commit stored is never older than the snapshot a comparison holds, and as long as no push fell between the spec file and the log it carries the
  version of that commit (`Stamped`). A stored commit never gets or loses its version (`StoredStays`), so the claims about the commits of a report,
  once true, stay so (`ReportInv`). The baseline has L2's version, so what is later in the branch has no earlier one; a commit stored with version and
  release that is not later would itself have been the baseline. **`LatestCoversStored`** (`LatestCovers`) from `CoverInv`: of a row whose ingestions neither overlapped nor
  failed at most one pipeline is making a snapshot, and what that one has read, or else the latest snapshot, is no older than the commits stored.
- **`DueOnce`** (`DueOncePerSlot`) from arithmetic: `NextSlot` shows that the next aligned time is the least multiple of the interval not before
  the time given (`Division`, `Multiples`), so "due" and "a slot has begun since" are the same for every interval and edit.
- **`AdviceIsKept`** (`AdviceKept`), for any files, contents and edits. The sort and the removal of duplicates are folds, and a fold is a choice of a
  function on sets of positions: `FoldExists` and `FoldRuns` show that there is such a function and what it gives one position after the other,
  `OfPriorityPicks` and `DeduplicatedKeeps` what is in the result, by an induction stated for a set (`Counting`). `RecommendationsKeep` puts the
  sort, the removal and the second sort together for any list; `PoolKeys` adds that of the advice really generated only that on the spec file
  shares a key, and `PoolPriorities` that only advice on security patches has priority 1.
- **`LatestIsTheNewest`** (`LatestIsNewest`), for any versions of L1 and L0: the order is the one of `SortKey`, read number by number, where
  pre-releases have numbers (`NewerIsAbove`), hence asymmetric and with a transitive "not newer" (`Orderly`); on orderly tags `MaxByNewest` says what the search
  returns. That a component counted as behind is outdated needs no such assumption: a stable candidate newer than the component is passed on by each step of the search,
  also over pre-releases that are not ordered among themselves (`StablePasses`, `MaxByPassed`). For the upgrades `FilteredPicks` and `FilteredDistinct` say what the filter
  keeps and that it keeps each once, `SortedKeeps` and `SortedInOrder` that the sort drops nothing, repeats nothing and leaves the list in order.
- **`WritersTypeCorrect`, `ReportsTypeCorrect`**: `WritersCompose` and `PartsCompose` show that a behaviour of a composed run is one of each of
  its machines, so what is proved of these holds in the composition.
- **`MirrorTypeCorrect`, `MetricsAreCurrent`, `AloneGetsMetrics`, `NothingStays`** from `MirrorInv`: `Typed` (with `Holds`, what a user has at each place); `CurrentInv` (`Relies`: what a user remembers of
  the remote, and the refs its next steps will read from a disk that others write too, are of tips that were there while somebody was at work
  without a break); `AloneInv` (`Finds`: a user nobody disturbed finds the disk as its last command left it, so the next one succeeds).
  Within a process `cached_mirror_lock` keeps users apart; between processes nothing does, and the invariants do not need it.

## Checked by TLC only

Liveness (`JobSettles`, `Completes`): the prover does not reason about fairness. Every safety invariant and action property of a passing run
is stated by a theorem. That `FinishedWasAttempted` and `LedgerSpec` hold is proved and checked for one worker only; with more they do not. The five findings
are counterexamples.

Each property of a passing run has a seeded fault: an operator beside the one it replaces, marked
"seeded fault", under which the run finds the property violated.

## Findings

1. `queue_sync_job` may duplicate a job (`duplicate_jobs`, sync_manager.rs:58 against its comment at 52).
2. A skipped ingestion is completed as a success and moves `last_sync_time` (`skipped_run`, scheduler_manager.rs:588
   against sync_manager.rs:385).
3. A DAG task runs after its dependency failed (`dag_skip`, engine.rs:177 against the message at 174).
4. `execute_parallel` returns with tasks still running (`parallel_wait`, engine.rs:148 against 136).
5. Commits of a run that failed after ingestion are skipped by the rerun (`pipeline_skip`,
   pipeline_executor.rs:357 against pipeline_stages.rs:1394).

Seen while modelling, without a run of their own:

- the round is strictly sequential and triggers are unbounded, whereas `--max-concurrent` is documented as the
  number of concurrent tasks (README.md:93);
- the order by package level (sync_manager.rs:196) is undone by the sort of scheduler_manager.rs:559;
- once a tracking has two pending jobs, completion marks the newest row each time (sync_manager.rs:392): the older
  row is never settled, every later request reuses it, and the finished newer row has its outcome rewritten after each
  of these runs. `JobSettles` is therefore stated for one worker; it fails with two;
- `cancel_job` may overwrite a final status with cancelling; a new execution forgets a pending cancel request;
- overlapping executions push `progress_percent` beyond 100 (`TypeOK` of `PipelineRun`: up to six stages per executor);
- a bot's commit that the filter drops is stored by the next run (sync_service.rs:316);
- a workflow that skips or fails tasks may still return Ok (engine.rs:91, 199-204); retry, timeout and condition are never used.
- more than one page of new commits: `collect` asks for 30, without `since` or a further page, so the oldest of 31 commits that landed
  between two syncs (or at the first) are never stored (adapters.rs:87-107, traits.rs:159-167);
- the L2 commits are stamped for good with the spec version read before the log (metadata_bridge/mod.rs:599, 964-977); a commit
  pushed in between carries the version before it, and the report built on it counts from there;
- a failed export after the sync leaves the new commits without a snapshot until there is newer data (`clouded`);
- a failed fetch of the spec file stores a snapshot without one, and every comparison fails until the next export (pipeline_stages.rs:1651);
- the openEuler-24.09 snapshot is never refreshed once it exists (pipeline_stages.rs:1767), and without new L1 data nothing is
  compared even if L2 changed (pipeline_executor.rs:357);
- L1 snapshots exported through the platform carry hashes of paths, so every common patch is reported as modified (metadata_bridge/mod.rs:253);
- a commit whose spec file could not be read at its first sync is stored without version and release for good (sync_service.rs:296-298, 308): it is never a
  baseline, and L2's own release may then be reported as one it is behind on;
- L2 may be outdated by 0 versions: `is_outdated` looks at the latest version, a pre-release included (pipeline_stages.rs:2259), `behind_count` at stable ones only, and the
  recommendation then says that the component is aligned with L1's latest (l1_vs_l0/mod.rs:883-885). `has_newer_stable` is true over a pre-release as well, against the comment
  at l1_vs_l0/mod.rs:395 (414-419 pass the same version twice). A version with a major number of 1000 or more is counted as behind but never the latest;
- the order of pre-releases is not transitive: rc2 < rc.3 < rc.a < rc2 (utils/version.rs:152);
- a message that merely contains the version is taken for the base commit (l2_vs_l1/mod.rs:2020);
- advice on BuildRequires, configure and Requires shares one key, so removing duplicates keeps one of the three (l2_vs_l1/mod.rs:1244);
- commits pushed to /api/metadata/l1 are 'unclassified', which no classifier selects (handlers/metadata.rs);
- enqueue reuses a running job that has read its list already; the comment at classifier_job/mod.rs:42 speaks of pending ones;
- a git command whose output is larger than a pipe holds ends as a timeout: the pipes are read after its exit (generic_git.rs:796-802);
- an `ls-remote` that fails, as any other failure of the update, makes a good mirror be removed and fetched anew (generic_git.rs:227-254);
- a kept mirror whose objects are missing, but whose branch is where the remote says, fails in compute_metrics each time and is never rebuilt;
- whether to retry a fetch without the object filter is looked for in a message that contains the URL (generic_git.rs:420): "filter" in a
  repository's name is enough;
- if the server does not name the branch of HEAD, the metrics may be of any branch that was fetched (`MetricsCurrent` asks less then);
- nothing calls refresh_active_targets, and a CVE id is matched as a part of a longer one (l1_vs_l0);
- importer/metadata_importer.rs:218-262 leaves out NOT NULL columns, and nothing calls it.

## Not modelled, and why

The map covers about a tenth of the implementation's lines outside `#[cfg(test)]` modules (a third of the lines are tests). The command line, the
HTTP clients of seven platforms, serialisation, spreadsheets, mail, entities and migrations are more than half of the
rest: they keep no state a second actor touches, and what they compute is text. Left out of the parts that are modelled: issues (one
outcome), the spreadsheets and mails of a round (no effect on the tables), the backlog of the wake channel (a round more is a step
the model has), the entries the state manager's map keeps (cleanup_state is commented out, pipeline_executor.rs:407), a push's write of `last_sync_time`, L1 snapshots pushed by a collector and branches other than
25.05 and 25.07 (they take the same path without the fallback), the text of reports and advice. `PipelineRun` and `CommitRecords` take
the page of commits to reach back to the last sync. `LayerReports` stores every commit of the page: the filter of bot commits (sync_service.rs:316) is modelled in
`PipelineRun` and `CommitRecords`. A spawned task that panics (the `JoinError` branch of engine.rs:150-153) and a cleanup of a mirror that fails for another reason than a
second process are left out.

Some hazards have a case beyond their property, said here once: several workers under `FinishedWasAttempted` (item 2 of the plan), a later chunk of a round, the
crash itself under `RunningIsExecuted`, `ImportedIsCovered` and `SyncingHasExecutor` (it does leave the row behind; the properties say nothing else does), and one
job started or one commit classified by two programs, which the code admits: `StartsBounded` and `OneVerdictEach` bound each program.

## Plan

Done: all modules above and their proofs.

1. The periodic refreshes of the ecosystem and maintenance data.
2. Which jobs completion marks with several workers: a bound on what `FinishedWasAttempted` may miss.
