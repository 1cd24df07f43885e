--------------------------- MODULE SyncExecution ---------------------------
(***************************************************************************)
(* SyncExecutor (scheduler/sync_executor.rs), the executor without a       *)
(* pipeline: it starts a task (SyncManager::start_sync_task marks the job  *)
(* running and the tracking 'syncing'), collects, and completes the task   *)
(* with what came of it.  One step is one database call.                   *)
(***************************************************************************)
EXTENDS SyncTables

CONSTANTS
  Executors,        \* concurrent callers of execute_pending_tasks and execute_batch
  MaxTasks,         \* max_tasks of execute_pending_tasks_with_limit
  MaxSyncMishaps,   \* bound: crashes and database errors
  OperatorWords     \* statuses an operator writes

ASSUME ExecutionAssumption ==
  /\ Trackings \subseteq Nat        \* numbered in the order of the packages' levels
  /\ MaxTasks \in Nat /\ MaxSyncMishaps \in Nat
  /\ OperatorWords \subseteq RowStatus \ {"syncing"}

VARIABLES
  exAt,         \* where each executor is
  exTodo,       \* the trackings it has still to sync
  exCur,        \* the tracking at hand
  exJob,        \* the job it starts or closes
  exOutcome,    \* "Success", "Failed" or "Skipped"
  exKeep,       \* preserve_status, decided on an earlier read
  exMishaps

exVars == <<exAt, exTodo, exCur, exJob, exOutcome, exKeep>>
executionVars == <<tables, exVars, exMishaps>>

ExPhase == {"idle", "next", "start", "find", "insert", "run", "sync", "load",
            "check", "collect", "complete", "write", "latest", "mark"}

ExecutionInit ==
  /\ TablesInit
  /\ exAt = [e \in Executors |-> "idle"]
  /\ exTodo = [e \in Executors |-> {}]
  /\ exCur = [e \in Executors |-> None]
  /\ exJob = [e \in Executors |-> 0]
  /\ exOutcome = [e \in Executors |-> "Failed"]
  /\ exKeep = [e \in Executors |-> FALSE]
  /\ exMishaps = 0
-----------------------------------------------------------------------------
ExGoto(e, phase) == exAt' = [exAt EXCEPT ![e] = phase]

ForgetTask(e) ==
  /\ exCur' = [exCur EXCEPT ![e] = None]
  /\ exJob' = [exJob EXCEPT ![e] = 0]
  /\ exOutcome' = [exOutcome EXCEPT ![e] = "Failed"]
  /\ exKeep' = [exKeep EXCEPT ![e] = FALSE]

\* execute_sync is left; the list goes on
GiveUp(e) == ExGoto(e, "next") /\ ForgetTask(e) /\ UNCHANGED exTodo

FirstTasks(S, n) == {t \in S : Cardinality({u \in S : u < t}) < n}

\* execute_pending_tasks_with_limit
ExecutePending(e) ==
  /\ exAt[e] = "idle"
  /\ exTodo' = [exTodo EXCEPT ![e] = FirstTasks(PendingTrackings(FALSE, None), MaxTasks)]
  /\ ExGoto(e, "next")
  /\ UNCHANGED <<tables, exCur, exJob, exOutcome, exKeep, exMishaps>>

\* execute_batch, or execute_sync of one tracking
ExecuteBatch(e, ts) ==
  /\ exAt[e] = "idle"
  /\ exTodo' = [exTodo EXCEPT ![e] = ts]
  /\ ExGoto(e, "next")
  /\ UNCHANGED <<tables, exCur, exJob, exOutcome, exKeep, exMishaps>>

NextTask(e) ==
  /\ exAt[e] = "next"
  /\ IF exTodo[e] = {} THEN ExGoto(e, "idle") /\ UNCHANGED <<exTodo, exCur>>
     ELSE \E t \in exTodo[e] :
            /\ \A u \in exTodo[e] : t <= u
            /\ exTodo' = [exTodo EXCEPT ![e] = @ \ {t}]
            /\ exCur' = [exCur EXCEPT ![e] = t]
            /\ ExGoto(e, "start")
  /\ UNCHANGED <<tables, exJob, exOutcome, exKeep, exMishaps>>
-----------------------------------------------------------------------------
(* start_sync_task *)

\* seeded fault: a held tracking is started
CheckExists(e) ==
  /\ exAt[e] = "start"
  /\ IF Exists(exCur[e])
     THEN ExGoto(e, "find") /\ UNCHANGED <<exTodo, exCur, exJob, exOutcome, exKeep>>
     ELSE GiveUp(e)
  /\ UNCHANGED <<tables, exMishaps>>

\* "Tracking {} not found", "Tracking {} is {}, cannot start sync task"
CheckHeld(e) ==
  /\ exAt[e] = "start"
  /\ IF Exists(exCur[e]) /\ ~Held(exCur[e])
     THEN ExGoto(e, "find") /\ UNCHANGED <<exTodo, exCur, exJob, exOutcome, exKeep>>
     ELSE GiveUp(e)
  /\ UNCHANGED <<tables, exMishaps>>

\* ensure_sync_job: the latest active job, or a stamp for a new one; at the bound
\* on rows the insert is taken to fail
EnsureJob(e) ==
  LET active == ActiveJobs(exCur[e]) IN
  /\ exAt[e] = "find"
  /\ \/ /\ active # {}
        /\ exJob' = [exJob EXCEPT ![e] = Newest(active)]
        /\ ExGoto(e, "run")
        /\ UNCHANGED <<stamp, exTodo, exCur, exOutcome, exKeep>>
     \/ /\ active = {} /\ stamp < MaxJobs
        /\ TakeStamp
        /\ exJob' = [exJob EXCEPT ![e] = stamp + 1]
        /\ ExGoto(e, "insert")
        /\ UNCHANGED <<exTodo, exCur, exOutcome, exKeep>>
     \/ /\ active = {} /\ stamp = MaxJobs
        /\ GiveUp(e)
        /\ UNCHANGED stamp
  /\ UNCHANGED <<tracking, jobs, exMishaps>>

InsertTask(e) ==
  /\ exAt[e] = "insert"
  /\ IF Exists(exCur[e])
     THEN /\ InsertJobRow(exJob[e], exCur[e])
          /\ ExGoto(e, "run")
          /\ UNCHANGED <<exTodo, exCur, exJob, exOutcome, exKeep>>
     ELSE GiveUp(e) /\ UNCHANGED jobs
  /\ UNCHANGED <<tracking, stamp, exMishaps>>

\* the job is written running whatever it is by now; a row that is gone is an error
RunJob(e) ==
  /\ exAt[e] = "run"
  /\ IF jobs[exJob[e]].status # "absent"
     THEN /\ SetJobStatus(exJob[e], "running")
          /\ ExGoto(e, "sync")
          /\ exJob' = [exJob EXCEPT ![e] = 0]
          /\ UNCHANGED <<exTodo, exCur, exOutcome, exKeep>>
     ELSE GiveUp(e) /\ UNCHANGED jobs
  /\ UNCHANGED <<tracking, stamp, exMishaps>>

\* seeded fault: the job's word in the tracking's column
WriteRunning(e) ==
  /\ exAt[e] = "sync" /\ Exists(exCur[e])
  /\ tracking' = [tracking EXCEPT ![exCur[e]].status = "running"]
  /\ ExGoto(e, "load")
  /\ UNCHANGED <<exTodo, exCur, exJob, exOutcome, exKeep, jobs, stamp, exMishaps>>

\* the tracking is written 'syncing', whatever an operator made of it meanwhile
WriteSyncing(e) ==
  /\ exAt[e] = "sync"
  /\ IF Exists(exCur[e])
     THEN /\ tracking' = [tracking EXCEPT ![exCur[e]].status = "syncing"]
          /\ ExGoto(e, "load")
          /\ UNCHANGED <<exTodo, exCur, exJob, exOutcome, exKeep>>
     ELSE GiveUp(e) /\ UNCHANGED tracking
  /\ UNCHANGED <<jobs, stamp, exMishaps>>
-----------------------------------------------------------------------------
(* do_sync: SyncService::sync_tracking *)

\* get_tracking of execute_sync
GetTracking(e) ==
  /\ exAt[e] = "load"
  /\ IF Exists(exCur[e])
     THEN ExGoto(e, "check") /\ UNCHANGED <<exTodo, exCur, exJob, exOutcome, exKeep>>
     ELSE GiveUp(e)
  /\ UNCHANGED <<tables, exMishaps>>

Outcome(e, o) ==
  /\ exOutcome' = [exOutcome EXCEPT ![e] = o]
  /\ ExGoto(e, "complete")
  /\ UNCHANGED <<exTodo, exCur, exJob, exKeep>>

\* sync_tracking reads the tracking again; one that is held is skipped
SyncCheck(e) ==
  /\ exAt[e] = "check"
  /\ CASE ~Exists(exCur[e]) -> Outcome(e, "Failed")
       [] Exists(exCur[e]) /\ Held(exCur[e]) -> Outcome(e, "Skipped")
       [] OTHER -> ExGoto(e, "collect") /\ UNCHANGED <<exTodo, exCur, exJob, exOutcome, exKeep>>
  /\ UNCHANGED <<tables, exMishaps>>

\* the collector answers and update_tracking_sync_time writes, or something fails
SyncCollect(e) ==
  /\ exAt[e] = "collect"
  /\ \/ Exists(exCur[e]) /\ WriteSyncTime(exCur[e]) /\ Outcome(e, "Success")
     \/ Outcome(e, "Failed") /\ UNCHANGED tracking
  /\ UNCHANGED <<jobs, stamp, exMishaps>>
-----------------------------------------------------------------------------
(* complete_sync_task_with_result: apply_completion *)

\* seeded fault: 'syncing' is preserved too
CompletionReadSyncing(e) ==
  /\ exAt[e] = "complete" /\ Exists(exCur[e])
  /\ exKeep' = [exKeep EXCEPT ![e] = Held(exCur[e]) \/ tracking[exCur[e]].status = "syncing"]
  /\ ExGoto(e, "write")
  /\ UNCHANGED <<tables, exTodo, exCur, exJob, exOutcome, exMishaps>>

CompletionRead(e) ==
  /\ exAt[e] = "complete"
  /\ IF Exists(exCur[e])
     THEN /\ exKeep' = [exKeep EXCEPT ![e] = Held(exCur[e])]
          /\ ExGoto(e, "write")
          /\ UNCHANGED <<exTodo, exCur, exJob, exOutcome>>
     ELSE GiveUp(e)
  /\ UNCHANGED <<tables, exMishaps>>

CompletionWrite(e) ==
  /\ exAt[e] = "write"
  /\ IF Exists(exCur[e])
     THEN /\ WriteOutcome(exCur[e], exOutcome[e], exKeep[e])
          /\ ExGoto(e, "latest")
          /\ UNCHANGED <<exTodo, exCur, exJob, exOutcome, exKeep>>
     ELSE GiveUp(e) /\ UNCHANGED tracking
  /\ UNCHANGED <<jobs, stamp, exMishaps>>

\* not the job that was started: the latest job of the tracking
CompletionLatest(e) ==
  /\ exAt[e] = "latest"
  /\ IF RowsOf(exCur[e]) # {}
     THEN /\ exJob' = [exJob EXCEPT ![e] = Newest(RowsOf(exCur[e]))]
          /\ ExGoto(e, "mark")
          /\ UNCHANGED <<exTodo, exCur, exOutcome, exKeep>>
     ELSE GiveUp(e)
  /\ UNCHANGED <<tables, exMishaps>>

CompletionMark(e) ==
  /\ exAt[e] = "mark"
  /\ IF jobs[exJob[e]].status # "absent"
     THEN SetJobStatus(exJob[e], JobStatusOf(exOutcome[e]))
     ELSE UNCHANGED jobs
  /\ GiveUp(e)
  /\ UNCHANGED <<tracking, stamp, exMishaps>>
-----------------------------------------------------------------------------
SyncMishap == exMishaps < MaxSyncMishaps /\ exMishaps' = exMishaps + 1

\* a database error ends execute_sync wherever it is
SyncCallFails(e) ==
  /\ exAt[e] \notin {"idle", "next", "check", "collect"}
  /\ SyncMishap
  /\ GiveUp(e)
  /\ UNCHANGED tables

SyncCrash(e) ==
  /\ exAt[e] # "idle"
  /\ SyncMishap
  /\ ExGoto(e, "idle")
  /\ exTodo' = [exTodo EXCEPT ![e] = {}]
  /\ ForgetTask(e)
  /\ UNCHANGED tables

ExecutorStep(e) ==
  \/ ExecutePending(e) \/ (\E ts \in SUBSET Trackings : ExecuteBatch(e, ts)) \/ NextTask(e)
  \/ CheckHeld(e) \/ EnsureJob(e) \/ InsertTask(e) \/ RunJob(e) \/ WriteSyncing(e)
  \/ GetTracking(e) \/ SyncCheck(e) \/ SyncCollect(e)
  \/ CompletionRead(e) \/ CompletionWrite(e) \/ CompletionLatest(e) \/ CompletionMark(e)

TrackingHandlers ==
  \E t \in Trackings :
    \/ DeleteTracking(t) \/ BecomeDue(t)
    \/ \E s \in OperatorWords : CreateTracking(t, s) \/ UpdateTracking(t, s)

ExecutionNext ==
  \/ \E e \in Executors : ExecutorStep(e) \/ SyncCallFails(e) \/ SyncCrash(e)
  \/ TrackingHandlers /\ UNCHANGED <<exVars, exMishaps>>

ExecutionSpec == ExecutionInit /\ [][ExecutionNext]_executionVars
-----------------------------------------------------------------------------
\* Every variable has its type, and an executor at a job has one.
ExecutionTypeOK ==
  /\ TablesTypeOK
  /\ exAt \in [Executors -> ExPhase]
  /\ exTodo \in [Executors -> SUBSET Trackings]
  /\ exCur \in [Executors -> Trackings \cup {None}]
  /\ exJob \in [Executors -> Jobs \cup {0}]
  /\ exOutcome \in [Executors -> {"Success", "Failed", "Skipped"}]
  /\ exKeep \in [Executors -> BOOLEAN]
  /\ exMishaps \in 0..MaxSyncMishaps
  /\ \A e \in Executors : exAt[e] \notin {"idle", "next"} => exCur[e] \in Trackings
  /\ \A e \in Executors : exAt[e] \in {"insert", "run", "mark"} => exJob[e] \in Jobs

\* between start_sync_task and the status write of its completion
Syncing(e, t) ==
  /\ exCur[e] = t
  /\ exAt[e] \in {"load", "check", "collect", "complete", "write"}
  /\ ~(exAt[e] = "write" /\ exKeep[e])

\* 'syncing' is what takes a tracking out of every query of due trackings, so it
\* must not outlive its run: as long as no call failed and nothing crashed, some
\* executor is still going to write the status of a tracking that has it, over
\* concurrent executors of one tracking and an operator's writes.
SyncingHasExecutor ==
  exMishaps = 0 =>
    \A t \in Trackings : tracking[t].status = "syncing" => \E e \in Executors : Syncing(e, t)

\* executors past a check of t's status and before the write it allows
PastCheck(e, t) ==
  /\ exCur[e] = t
  /\ \/ exAt[e] \in {"find", "insert", "run", "sync", "collect"}
     \/ exAt[e] = "write" /\ ~exKeep[e]

Settled(t) == Held(t) /\ \A e \in Executors : ~PastCheck(e, t)

\* A pause sticks: a tracking that is paused or archived when no executor is past
\* its check stays so, and no executor gets past one, until an operator writes its
\* status.  (The blind 'syncing' of start_sync_task can undo a pause, the
\* completion then makes it 'active', but only from a check made before it.)
ExecutorPauseSticks ==
  [][\A t \in Trackings : Settled(t) => Settled(t)' \/ UNCHANGED exVars]_executionVars
=============================================================================
