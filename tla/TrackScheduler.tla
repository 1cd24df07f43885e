--------------------------- MODULE TrackScheduler ---------------------------
(***************************************************************************)
(* The scheduler of track-system: rounds, manual triggers and queue        *)
(* requests as workers that interleave at every database call             *)
(* (scheduler/scheduler_manager.rs, sync_manager.rs, pipeline_executor.rs  *)
(* without a state manager, as the binaries build it, the L1 ingestion of  *)
(* sync_service.rs, and cron_scheduler.rs).                                *)
(*                                                                         *)
(* A worker is one future: the scheduler loop, or an HTTP request.  It     *)
(* takes trackings from its list one at a time; each goes through          *)
(*   queue     find -> check -> insert            (queue_sync_job)         *)
(*   pipeline  load -> ingest -> collect -> diff -> finish                 *)
(*   complete  complete -> write -> latest -> mark   (apply_completion)    *)
(* and an `await` of the code lies between every two of these labels.      *)
(***************************************************************************)
EXTENDS SyncTables

CONSTANTS
  Workers,          \* the futures that may run at the same time
  Loops,            \* the workers that run rounds (the others serve requests)
  Fallback,         \* the openEuler-24.09 trackings, kept for L2Newer only
  Rank,             \* place of a tracking in order_pending_tasks_for_l2_newer_fallback
  MaxConcurrent,    \* max_concurrent_jobs
  OperatorStatus,   \* the statuses an operator writes
  MaxMishaps        \* bound: crashes, dropped requests, failed calls, specific wake-ups

ASSUME SchedulerAssumption ==
  /\ IsFiniteSet(Workers)
  /\ Loops \subseteq Workers
  /\ Fallback \subseteq Trackings
  /\ Rank \in [Trackings -> Nat]
  /\ \A t, u \in Trackings : Rank[t] = Rank[u] => t = u
  /\ MaxConcurrent \in Nat \ {0}
  /\ OperatorStatus \subseteq RowStatus
  /\ MaxMishaps \in Nat

VARIABLES
  pc,         \* the await the worker stands at
  cur,        \* the tracking it processes
  run,        \* its sync_job and pipeline run
  round,      \* its list: mode, what is left, chunk size left, anything executed
  mishaps,    \* mishaps so far
  attempted   \* history: the sync_jobs rows some worker set out to execute

workerVars == <<pc, cur, run, round>>
vars == <<tables, workerVars, mishaps, attempted>>

PC == {"idle", "next", "find", "check", "insert", "load", "ingest", "collect",
       "diff", "finish", "complete", "write", "latest", "mark"}
Run == [job : Jobs \cup {None}, src : Trackings \cup {None}, keep : BOOLEAN,
        verdict : {"none", "skipped", "success", "failed"}]
NoRun == [job |-> None, src |-> None, keep |-> FALSE, verdict |-> "none"]
Round == [mode : {"none", "run", "queue"}, todo : SUBSET Trackings,
          batch : Nat, ran : BOOLEAN]
NoRound == [mode |-> "none", todo |-> {}, batch |-> 0, ran |-> FALSE]

\* what a worker holds at its label
AtHand(w) ==
  /\ pc[w] \notin {"idle", "next"} => cur[w] \in Trackings
  /\ pc[w] \notin {"idle", "next", "find", "check"} => run[w].job \in Jobs
  /\ pc[w] \in {"ingest", "collect"} => run[w].src \in Trackings

(* Types of the tables and of the workers, and that a worker past a step    *)
(* holds what the step was to give it.                                      *)
TypeOK ==
  /\ TablesTypeOK
  /\ pc \in [Workers -> PC]
  /\ cur \in [Workers -> Trackings \cup {None}]
  /\ run \in [Workers -> Run]
  /\ round \in [Workers -> Round]
  /\ \A w \in Workers : AtHand(w)
  /\ mishaps \in 0..MaxMishaps
  /\ attempted \subseteq Jobs

Init ==
  /\ TablesInit
  /\ pc = [w \in Workers |-> "idle"]
  /\ cur = [w \in Workers |-> None]
  /\ run = [w \in Workers |-> NoRun]
  /\ round = [w \in Workers |-> NoRound]
  /\ mishaps = 0
  /\ attempted = {}

At(w, label) == pc[w] = label
Goto(w, label) == pc' = [pc EXCEPT ![w] = label]
\* on to the next tracking of the list; the job at hand goes out of scope
Leave(w) ==
  /\ Goto(w, "next")
  /\ cur' = [cur EXCEPT ![w] = None]
  /\ run' = [run EXCEPT ![w] = NoRun]

Mishap == mishaps < MaxMishaps /\ mishaps' = mishaps + 1
-----------------------------------------------------------------------------
(* Starting *)

Begin(w, mode, todo, batch) ==
  /\ At(w, "idle")
  /\ Goto(w, "next")
  /\ round' = [round EXCEPT ![w] =
                 [mode |-> mode, todo |-> todo, batch |-> batch, ran |-> TRUE]]
  /\ UNCHANGED <<tables, cur, run, attempted>>

\* execute_round_wake_up(wake, None): the fallback trackings are left out
StartRound(w, wake) ==
  /\ w \in Loops
  /\ Begin(w, "run", PendingTrackings(wake, None) \ Fallback, 0)
  /\ UNCHANGED mishaps

\* execute_round_wake_up(true, Some(t)), on WakeSignal::Specific
StartSpecificRound(w, t) ==
  /\ w \in Loops
  /\ Mishap
  /\ Begin(w, "run", PendingTrackings(TRUE, t), 0)

\* trigger_manual_sync
StartTrigger(w, t) ==
  /\ w \notin Loops
  /\ Exists(t)
  /\ Begin(w, "run", {t}, 1)
  /\ UNCHANGED mishaps

\* POST .../queue, or trigger_comparison_task after a push
StartQueue(w, t) ==
  /\ w \notin Loops
  /\ Begin(w, "queue", {t}, 1)
  /\ UNCHANGED mishaps

\* CronScheduler::check_and_queue_pending_tasks
StartCron(w) ==
  /\ w \notin Loops
  /\ LET pending == PendingTrackings(FALSE, None)
     IN  Begin(w, "queue", pending, Cardinality(pending))
  /\ UNCHANGED mishaps
-----------------------------------------------------------------------------
(* The list of a round, drained in chunks of max_concurrent_jobs *)

IsFirst(t, S) == t \in S /\ \A u \in S : Rank[t] <= Rank[u]

TakeNext(w) ==
  LET r == round[w]
      chunk == IF r.batch > 0 THEN r.batch
               ELSE IF Cardinality(r.todo) < MaxConcurrent THEN Cardinality(r.todo)
               ELSE MaxConcurrent
  IN /\ At(w, "next")
     /\ r.batch > 0 \/ r.ran
     /\ \E t \in r.todo :
          /\ IsFirst(t, r.todo)
          /\ cur' = [cur EXCEPT ![w] = t]
          /\ round' = [round EXCEPT ![w].todo = @ \ {t},
                                    ![w].batch = chunk - 1,
                                    ![w].ran = r.batch > 0 /\ r.ran]
     /\ Goto(w, "find")
     /\ UNCHANGED <<tables, run, mishaps, attempted>>

\* the list is empty, or a whole chunk could not be queued
EndRound(w) ==
  /\ At(w, "next")
  /\ \/ round[w].todo = {}
     \/ round[w].batch = 0 /\ ~round[w].ran
  /\ Goto(w, "idle")
  /\ round' = [round EXCEPT ![w] = NoRound]
  /\ UNCHANGED <<tables, cur, run, mishaps, attempted>>
-----------------------------------------------------------------------------
(* queue_sync_job *)

\* the job is queued: a queue request is done with t, a run executes it
Queued(w, j) ==
  /\ round' = [round EXCEPT ![w].ran = TRUE]
  /\ \/ round[w].mode = "queue" /\ Leave(w)
     \/ round[w].mode = "run" /\ Goto(w, "load")
        /\ run' = [run EXCEPT ![w].job = j] /\ UNCHANGED cur

\* seeded fault: a pending or running job is not looked for
FindActiveNoReuse(w) ==
  /\ At(w, "find")
  /\ Goto(w, "check")
  /\ UNCHANGED <<tables, cur, run, round, mishaps, attempted>>

\* an active job is reused, whatever the status of the tracking
FindActive(w) ==
  /\ At(w, "find")
  /\ IF ActiveJobs(cur[w]) # {}
     THEN Queued(w, Newest(ActiveJobs(cur[w])))
     ELSE Goto(w, "check") /\ UNCHANGED <<cur, run, round>>
  /\ UNCHANGED <<tables, mishaps, attempted>>

\* "Tracking {} not found", "Tracking {} is {}, cannot queue sync job"; at the
\* bound on rows the insert is taken to fail
CheckTracking(w) ==
  /\ At(w, "check")
  /\ IF Exists(cur[w]) /\ ~Held(cur[w]) /\ stamp < MaxJobs
     THEN /\ TakeStamp
          /\ run' = [run EXCEPT ![w].job = stamp + 1]
          /\ Goto(w, "insert")
          /\ UNCHANGED cur
     ELSE Leave(w) /\ UNCHANGED stamp
  /\ UNCHANGED <<tracking, jobs, round, mishaps, attempted>>

\* seeded fault: sync_jobs without its foreign key
InsertJobNoKey(w) ==
  /\ At(w, "insert")
  /\ InsertJobRow(run[w].job, cur[w])
  /\ Queued(w, run[w].job)
  /\ UNCHANGED <<tracking, stamp, mishaps, attempted>>

\* the foreign key refuses a row for a tracking that is gone
InsertJob(w) ==
  /\ At(w, "insert")
  /\ IF Exists(cur[w])
     THEN InsertJobRow(run[w].job, cur[w]) /\ Queued(w, run[w].job)
     ELSE Leave(w) /\ UNCHANGED <<jobs, round>>
  /\ UNCHANGED <<tracking, stamp, mishaps, attempted>>
-----------------------------------------------------------------------------
(* execute_sync_job: the job's status column is not touched *)

\* get_sync_job and get_tracking
LoadJob(w) ==
  /\ At(w, "load")
  /\ run[w].job \in RowsOf(cur[w]) /\ Exists(cur[w])
  /\ run' = [run EXCEPT ![w].src = cur[w]]
  /\ attempted' = attempted \cup {run[w].job}
  /\ Goto(w, "ingest")
  /\ UNCHANGED <<tables, cur, round, mishaps>>

\* seeded fault: the status is not checked before collecting
IngestUnchecked(w) ==
  /\ At(w, "ingest")
  /\ Exists(run[w].src)
  /\ Goto(w, "collect")
  /\ UNCHANGED <<tables, cur, run, round, mishaps, attempted>>

\* sync_tracking's first read of the tracking to collect
Ingest(w) ==
  LET s == run[w].src IN
  /\ At(w, "ingest")
  /\ Exists(s)
  /\ IF Held(s)
     THEN /\ Goto(w, "finish")
          /\ run' = IF s = cur[w] THEN [run EXCEPT ![w].verdict = "skipped"] ELSE run
     ELSE Goto(w, "collect") /\ UNCHANGED run
  /\ UNCHANGED <<tables, cur, round, mishaps, attempted>>

\* the collector answers; commits and issues are stored, then the sync time
Collect(w) ==
  LET s == run[w].src IN
  /\ At(w, "collect")
  /\ Exists(s)
  /\ WriteSyncTime(s)
  /\ Goto(w, IF s = cur[w] THEN "diff" ELSE "finish")
  /\ UNCHANGED <<jobs, stamp, cur, run, round, mishaps, attempted>>

\* L2 is newer than L1: find or create the 24.09 tracking f, sync it on the spot
UseFallback(w, f) ==
  /\ At(w, "diff")
  /\ f \in Fallback \ {cur[w]}
  /\ tracking[f].status # "deleted"
  /\ tracking' = IF Exists(f) THEN tracking
                 ELSE [tracking EXCEPT ![f].status = "active"]
  /\ run' = [run EXCEPT ![w].src = f]
  /\ Goto(w, "ingest")
  /\ UNCHANGED <<jobs, stamp, cur, round, mishaps, attempted>>

\* a failed fallback sync is logged and the comparison goes on
FallbackFails(w) ==
  /\ pc[w] \in {"ingest", "collect"}
  /\ run[w].src # cur[w]
  /\ Goto(w, "finish")
  /\ UNCHANGED <<tables, cur, run, round, mishaps, attempted>>

\* the remaining stages succeed
Finish(w) ==
  /\ pc[w] \in {"diff", "finish"}
  /\ run' = [run EXCEPT ![w].verdict = IF @ = "skipped" THEN @ ELSE "success"]
  /\ Goto(w, "complete")
  /\ UNCHANGED <<tables, cur, round, mishaps, attempted>>

\* the job or the tracking cannot be read, the collector fails, a stage fails
PipelineFails(w) ==
  /\ pc[w] \in {"load", "ingest", "collect", "diff", "finish"}
  /\ pc[w] \in {"ingest", "collect"} => run[w].src = cur[w]
  /\ run' = [run EXCEPT ![w].verdict = "failed"]
  /\ attempted' = attempted \cup ({run[w].job} \cap Jobs)
  /\ Goto(w, "complete")
  /\ UNCHANGED <<tables, cur, round, mishaps>>
-----------------------------------------------------------------------------
(* apply_completion *)

\* sync_result_from_job_result: a skipped ingestion ends as a success
ResultOf(verdict) == IF verdict = "failed" THEN "Failed" ELSE "Success"

\* the read that decides preserve_status
ReadTracking(w) ==
  /\ At(w, "complete")
  /\ IF Exists(cur[w])
     THEN /\ run' = [run EXCEPT ![w].keep = Held(cur[w])]
          /\ Goto(w, "write")
          /\ UNCHANGED cur
     ELSE Leave(w)
  /\ UNCHANGED <<tables, round, mishaps, attempted>>

WriteTracking(w) ==
  /\ At(w, "write")
  /\ IF Exists(cur[w])
     THEN /\ WriteOutcome(cur[w], ResultOf(run[w].verdict), run[w].keep)
          /\ Goto(w, "latest")
          /\ UNCHANGED <<cur, run>>
     ELSE Leave(w) /\ UNCHANGED tracking
  /\ UNCHANGED <<jobs, stamp, round, mishaps, attempted>>

\* seeded fault: the latest job of any tracking
FindLatestOfAll(w) ==
  /\ At(w, "latest")
  /\ LET rows == {j \in Jobs : jobs[j].status # "absent"} IN
     IF rows # {}
     THEN /\ run' = [run EXCEPT ![w].job = Newest(rows)]
          /\ Goto(w, "mark")
          /\ UNCHANGED cur
     ELSE Leave(w)
  /\ UNCHANGED <<tables, round, mishaps, attempted>>

\* find_latest_sync_job: not the job that was executed, the latest one
FindLatest(w) ==
  /\ At(w, "latest")
  /\ IF RowsOf(cur[w]) # {}
     THEN /\ run' = [run EXCEPT ![w].job = Newest(RowsOf(cur[w]))]
          /\ Goto(w, "mark")
          /\ UNCHANGED cur
     ELSE Leave(w)
  /\ UNCHANGED <<tables, round, mishaps, attempted>>

\* seeded fault: a failed job goes back to pending, to be retried
MarkJobRetry(w) ==
  /\ At(w, "mark")
  /\ IF jobs[run[w].job].status # "absent"
     THEN SetJobStatus(run[w].job, IF run[w].verdict = "failed" THEN "pending"
                                   ELSE "succeeded")
     ELSE UNCHANGED jobs
  /\ Leave(w)
  /\ UNCHANGED <<tracking, stamp, round, mishaps, attempted>>

\* the row is updated by its id, if it is still there
MarkJob(w) ==
  /\ At(w, "mark")
  /\ IF jobs[run[w].job].status # "absent"
     THEN SetJobStatus(run[w].job, JobStatusOf(ResultOf(run[w].verdict)))
     ELSE UNCHANGED jobs
  /\ Leave(w)
  /\ UNCHANGED <<tracking, stamp, round, mishaps, attempted>>
-----------------------------------------------------------------------------
(* Mishaps *)

\* a database error: queueing is skipped, an error of completion is ignored
CallFails(w) ==
  /\ Mishap
  /\ pc[w] \in {"find", "check", "insert", "complete", "write", "latest", "mark"}
  /\ Leave(w)
  /\ UNCHANGED <<tables, round, attempted>>

\* the process stops, or the client hangs up and its handler is dropped
Abort(w) ==
  /\ Mishap
  /\ pc[w] # "idle"
  /\ Goto(w, "idle")
  /\ cur' = [cur EXCEPT ![w] = None]
  /\ run' = [run EXCEPT ![w] = NoRun]
  /\ round' = [round EXCEPT ![w] = NoRound]
  /\ UNCHANGED <<tables, attempted>>
-----------------------------------------------------------------------------
QueueStep(w) == FindActive(w) \/ CheckTracking(w) \/ InsertJob(w)
PipelineStep(w) ==
  \/ LoadJob(w) \/ Ingest(w) \/ Collect(w) \/ Finish(w) \/ PipelineFails(w)
  \/ FallbackFails(w) \/ \E f \in Fallback : UseFallback(w, f)
CompletionStep(w) ==
  ReadTracking(w) \/ WriteTracking(w) \/ FindLatest(w) \/ MarkJob(w)

\* what a worker does once started
Work(w) ==
  TakeNext(w) \/ EndRound(w) \/ QueueStep(w) \/ PipelineStep(w) \/ CompletionStep(w)

Start(w) ==
  \/ \E wake \in BOOLEAN : StartRound(w, wake)
  \/ StartCron(w)
  \/ \E t \in Trackings :
       StartSpecificRound(w, t) \/ StartTrigger(w, t) \/ StartQueue(w, t)

Operator ==
  /\ \E t \in Trackings :
       \/ DeleteTracking(t)
       \/ \E s \in OperatorStatus \cup {"active"} : CreateTracking(t, s)
       \/ \E s \in OperatorStatus : UpdateTracking(t, s)
  /\ UNCHANGED <<workerVars, mishaps, attempted>>

Time == (\E t \in Trackings : BecomeDue(t)) /\ UNCHANGED <<workerVars, mishaps, attempted>>

Next ==
  \/ \E w \in Workers : Start(w) \/ Work(w) \/ CallFails(w) \/ Abort(w)
  \/ Operator
  \/ Time

Spec == Init /\ [][Next]_vars

\* a started future is polled to its end, timers fire, instants pass
Fairness ==
  /\ \A w \in Workers : WF_vars(Work(w))
  /\ \A w \in Loops : WF_vars(StartRound(w, FALSE) \/ StartRound(w, TRUE))
  /\ WF_vars(Time)

LiveSpec == Spec /\ Fairness
-----------------------------------------------------------------------------
(* Properties *)

OpenRows(t) == {j \in Jobs : /\ jobs[j].tracking_id = t
                             /\ jobs[j].status \in {"pending", "running"}}

(* Jobs never point to a tracking that is gone: deleting a tracking while a *)
(* worker is between its checks and its insert leaves no row behind.        *)
NoOrphanJob ==
  \A j \in Jobs : jobs[j].status # "absent" =>
                   jobs[j].tracking_id \in Trackings /\ Exists(jobs[j].tracking_id)

(* "如果已有待处理或运行中的作业则复用": a tracking has at most one pending or  *)
(* running job (queue_sync_job), over any crash or failed call.             *)
OneActiveJob == \A t \in Trackings : Cardinality(OpenRows(t)) <= 1

(* Find-then-insert is not atomic, so concurrent requests may duplicate a   *)
(* job, but duplicates never pile up: a tracking has at most as many active *)
(* jobs as there are workers, however many crashes and retries there were.  *)
ActiveBound ==
  \A t \in Trackings : Cardinality(OpenRows(t)) <= Cardinality(Workers)

(* A job is only reported succeeded or failed after a worker set out to     *)
(* execute it: apply_completion marks the latest job of the tracking, which *)
(* must be the one that ran.                                                *)
FinishedWasAttempted ==
  \A j \in Jobs : jobs[j].status \in {"succeeded", "failed"} => j \in attempted

\* workers that decided on an earlier read of t that they may write its status
InFlight(w, t) ==
  \/ pc[w] = "collect" /\ run[w].src = t
  \/ pc[w] = "write" /\ cur[w] = t /\ ~run[w].keep

Quiet(t) == Held(t) /\ \A w \in Workers : ~InFlight(w, t)

OperatorWrites(t) ==
  /\ DeleteTracking(t) \/ \E s \in OperatorStatus : UpdateTracking(t, s)
  /\ UNCHANGED workerVars

(* Once a tracking is paused or archived and no worker is past its checks   *)
(* of it, it stays so, and no worker gets past them, until an operator      *)
(* writes its status.                                                       *)
PauseSticks ==
  [][\A t \in Trackings : Quiet(t) => Quiet(t)' \/ OperatorWrites(t)]_vars

(* "保持 last_sync_time 不变": a run whose ingestion was skipped does not     *)
(* move last_sync_time (apply_completion, Skipped).                         *)
SkippedKeepsLastSync ==
  [][\A w \in Workers :
       pc[w] = "write" /\ pc'[w] # "write" /\ run[w].verdict = "skipped"
         => tracking'[cur[w]].fresh = tracking[cur[w]].fresh]_vars

\* an active job of a regular tracking that is not held
Unsettled(j) == \E t \in Trackings \ Fallback : ~Held(t) /\ j \in OpenRows(t)

(* Every active job of a regular tracking, those a crash left behind         *)
(* included, is settled by a later round, unless its tracking is held or     *)
(* deleted in the meantime.                                                  *)
JobSettles == \A j \in Jobs : Unsettled(j) ~> ~Unsettled(j)

\* the ledger the job table stands for
LedgerOpen ==
  [t \in Trackings |-> IF OpenRows(t) = {} THEN None ELSE Newest(OpenRows(t))]
LedgerClosed == [t \in Trackings |-> RowsOf(t) \ OpenRows(t)]

Ledger == INSTANCE JobLedger WITH open <- LedgerOpen, closed <- LedgerClosed

(* With one worker the job table implements the ledger: jobs are opened one  *)
(* at a time, in order, and never reopened.                                  *)
LedgerSpec == Ledger!Spec
=============================================================================
