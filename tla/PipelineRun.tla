----------------------------- MODULE PipelineRun -----------------------------
(***************************************************************************)
(* One sync job of one tracking in the six-stage pipeline                  *)
(* (scheduler/pipeline_executor.rs), with the state manager that serves    *)
(* progress and cancel requests (scheduler/pipeline_state.rs), the commits *)
(* L1 ingestion stores (scheduler/sync_service.rs) and the classification  *)
(* stage that consumes them (scheduler/pipeline_stages.rs).                *)
(*                                                                         *)
(* Executions of the job may overlap: queue_sync_job hands the same job to *)
(* everyone who asks.  The states map is memory of the process, the job    *)
(* row and the commits are in the database.                                *)
(***************************************************************************)
EXTENDS Naturals, FiniteSets

CONSTANTS
  Executors,    \* futures inside execute_sync_job
  Commits,      \* upstream commits, numbered by date
  Bots,         \* the commits openeuler-ci-bot made
  Release,      \* spec version and release at each commit
  MaxCancels,   \* bound: cancel requests
  MaxMishaps    \* bound: failed database calls, crashes

ASSUME PipelineAssumption ==
  /\ IsFiniteSet(Executors)
  /\ Commits \subseteq Nat
  /\ Bots \subseteq Commits
  /\ DOMAIN Release = Commits
  /\ MaxCancels \in Nat /\ MaxMishaps \in Nat

VARIABLES
  published,  \* commits on the upstream branch
  commit,     \* l1_commit_records row of each commit, by classification_status
  job,        \* the status column of the job
  entry,      \* the job's entry in the states map
  exec,       \* what each executor is doing
  canceller,  \* cancel_job: where it stands
  cancels,    \* cancel requests and
  mishaps,    \* mishaps so far
  late        \* history: stages started since the pending cancel request

data == <<published, commit>>
bounds == <<cancels, mishaps>>
vars == <<data, job, entry, exec, canceller, bounds, late>>

\* 1 L1Ingestion, 2 L2Snapshot, 3 DiffComparison, 4 Classification,
\* 5 ReportGeneration, 6 BackportSuggestion
Stages == 1..6
L1Ingestion == 1
L2Snapshot == 2
Classification == 4
ReportGeneration == 5

NoEntry == [present |-> FALSE, completed |-> 0, cancel |-> FALSE]
NewEntry == [NoEntry EXCEPT !.present = TRUE]

Exec == [pc : {"idle", "announce", "load", "check", "start", "work", "find", "save",
               "classify", "finish"},
         stage : 1..7, done : SUBSET Stages, skip : BOOLEAN,
         verdict : {"completed", "failed", "cancelled"},
         fetched : BOOLEAN,           \* the collector was asked, and answered
         todo : SUBSET Commits,       \* commits the stage has yet to look at
         saved : SUBSET Commits]      \* stored by this execution; not those its
                                      \* classifier failed on
Idle == [pc |-> "idle", stage |-> 1, done |-> {}, skip |-> FALSE, verdict |-> "completed",
         fetched |-> FALSE, todo |-> {}, saved |-> {}]

(* Types, and that at most six stages per executor are counted as completed: *)
(* a further execution starts the count again.                               *)
TypeOK ==
  /\ published \subseteq Commits
  /\ commit \in [Commits -> {"absent", "pending", "done"}]
  /\ job \in {"pending", "running", "cancelling", "cancelled", "completed", "failed"}
  /\ entry \in [present : BOOLEAN, completed : 0..(6 * Cardinality(Executors)),
                cancel : BOOLEAN]
  /\ exec \in [Executors -> Exec]
  /\ canceller \in {"idle", "flagged"}
  /\ cancels \in 0..MaxCancels /\ mishaps \in 0..MaxMishaps
  /\ late \in Nat

Init ==
  /\ published = {}
  /\ commit = [c \in Commits |-> "absent"]
  /\ job = "pending"
  /\ entry = NoEntry
  /\ exec = [w \in Executors |-> Idle]
  /\ canceller = "idle"
  /\ cancels = 0 /\ mishaps = 0
  /\ late = 0

At(w, label) == exec[w].pc = label
Goto(w, label) == exec' = [exec EXCEPT ![w].pc = label]
InStage(w, s) == At(w, "work") /\ exec[w].stage = s
Stored(c) == commit[c] # "absent"
-----------------------------------------------------------------------------
(* execute_sync_job up to its loop *)

\* seeded fault: an entry that is there is kept
BeginKeepsEntry(w) ==
  /\ At(w, "idle")
  /\ Goto(w, "announce")
  /\ entry' = [entry EXCEPT !.present = TRUE]
  /\ UNCHANGED <<data, job, canceller, bounds, late>>

\* get_sync_job, then create_state: a pending cancel request is forgotten
Begin(w) ==
  /\ At(w, "idle")
  /\ Goto(w, "announce")
  /\ entry' = NewEntry
  /\ late' = 0
  /\ UNCHANGED <<data, job, canceller, bounds>>

Announce(w) ==
  /\ At(w, "announce")
  /\ Goto(w, "load")
  /\ job' = "running"
  /\ UNCHANGED <<data, entry, canceller, bounds, late>>

LoadTracking(w) ==
  /\ At(w, "load")
  /\ Goto(w, "check")
  /\ UNCHANGED <<data, job, entry, canceller, bounds, late>>
-----------------------------------------------------------------------------
(* The loop over the stages *)

\* seeded fault: the request is looked at before the first stage only
CheckCancelOnce(w) ==
  /\ At(w, "check")
  /\ IF entry.cancel /\ exec[w].stage = L1Ingestion
     THEN exec' = [exec EXCEPT ![w].pc = "finish", ![w].verdict = "cancelled"]
     ELSE Goto(w, "start")
  /\ UNCHANGED <<data, job, entry, canceller, bounds, late>>

\* is_cancelled; without an entry there is no request
CheckCancel(w) ==
  /\ At(w, "check")
  /\ IF entry.cancel
     THEN exec' = [exec EXCEPT ![w].pc = "finish", ![w].verdict = "cancelled"]
     ELSE Goto(w, "start")
  /\ UNCHANGED <<data, job, entry, canceller, bounds, late>>

\* start_stage takes the lock anew: a request may have come in between
StartStage(w) ==
  /\ At(w, "start")
  /\ Goto(w, "work")
  /\ late' = late + (IF entry.cancel THEN 1 ELSE 0)
  /\ UNCHANGED <<data, job, entry, canceller, bounds>>

\* the next stage the loop does not pass over, 7 when there is none
After(stage, skip) ==
  IF ~skip THEN stage + 1 ELSE IF stage < ReportGeneration THEN ReportGeneration ELSE 7

\* seeded fault: a stage without new data ends the pipeline
StageEndsSkipAll(w, newData) ==
  LET e == exec[w]
      skip == e.skip \/ ~newData
      next == IF ~newData THEN 7 ELSE After(e.stage, skip)
  IN /\ exec' = [exec EXCEPT ![w].pc = IF next = 7 THEN "finish" ELSE "check",
                             ![w].stage = next, ![w].done = @ \cup {e.stage},
                             ![w].skip = skip, ![w].todo = {}]
     /\ entry' = IF entry.present THEN [entry EXCEPT !.completed = @ + 1] ELSE entry

\* a stage succeeds; has_new_data = false leaves the report only
StageEnds(w, newData) ==
  LET e == exec[w]
      skip == e.skip \/ ~newData
      next == After(e.stage, skip)
  IN /\ exec' = [exec EXCEPT ![w].pc = IF next = 7 THEN "finish" ELSE "check",
                             ![w].stage = next, ![w].done = @ \cup {e.stage},
                             ![w].skip = skip, ![w].todo = {}]
     /\ entry' = IF entry.present THEN [entry EXCEPT !.completed = @ + 1] ELSE entry

StageFails(w) ==
  /\ exec[w].pc \in {"work", "find", "save", "classify"}
  /\ exec' = [exec EXCEPT ![w].pc = "finish", ![w].verdict = "failed"]
  /\ UNCHANGED <<data, job, entry, canceller, bounds, late>>

\* L2 snapshot (which may have nothing to offer), comparison, report, backport
RunStage(w) ==
  /\ At(w, "work")
  /\ exec[w].stage \notin {L1Ingestion, Classification}
  /\ \/ StageEnds(w, TRUE)
     \/ exec[w].stage = L2Snapshot /\ StageEnds(w, FALSE)
  /\ UNCHANGED <<data, job, canceller, bounds, late>>
-----------------------------------------------------------------------------
(* Stage 1, L1 ingestion *)

\* sync_tracking of a paused or archived tracking
IngestSkipped(w) ==
  /\ InStage(w, L1Ingestion)
  /\ StageEnds(w, FALSE)
  /\ UNCHANGED <<data, job, canceller, bounds, late>>

\* the collector answers; only commits of Gitee and AtomGit are stored, so the
\* tracking is on one of these
Collect(w) ==
  /\ InStage(w, L1Ingestion)
  /\ exec' = [exec EXCEPT ![w].pc = "find", ![w].fetched = TRUE, ![w].todo = published]
  /\ UNCHANGED <<data, job, entry, canceller, bounds, late>>

IsOldest(c, S) == c \in S /\ \A d \in S : c <= d

\* process_platform_commits: a commit already stored is passed over; for another
\* the spec file is fetched before it is inserted
FindCommit(w) ==
  \E c \in exec[w].todo :
    /\ At(w, "find") /\ IsOldest(c, exec[w].todo)
    /\ exec' = IF Stored(c) THEN [exec EXCEPT ![w].todo = @ \ {c}]
               ELSE [exec EXCEPT ![w].pc = "save"]
    /\ UNCHANGED <<data, job, entry, canceller, bounds, late>>

\* a bot's commit is dropped if this execution stored one of the same release;
\* a row that appeared since the find breaks the unique key, and the stage fails
SaveCommit(w) ==
  \E c \in exec[w].todo :
    /\ At(w, "save") /\ IsOldest(c, exec[w].todo)
    /\ \/ /\ c \in Bots
          /\ \E d \in exec[w].saved : Release[d] = Release[c]
          /\ exec' = [exec EXCEPT ![w].pc = "find", ![w].todo = @ \ {c}]
          /\ UNCHANGED commit
       \/ /\ ~Stored(c)
          /\ commit' = [commit EXCEPT ![c] = "pending"]
          /\ exec' = [exec EXCEPT ![w].pc = "find", ![w].todo = @ \ {c},
                                  ![w].saved = @ \cup {c}]
       \/ /\ Stored(c)
          /\ exec' = [exec EXCEPT ![w].pc = "finish", ![w].verdict = "failed"]
          /\ UNCHANGED commit
    /\ UNCHANGED <<published, job, entry, canceller, bounds, late>>

\* commits or issues were stored: has_new_data
IngestEnds(w) ==
  /\ At(w, "find") /\ exec[w].todo = {}
  /\ \E issues \in BOOLEAN : StageEnds(w, issues \/ exec[w].saved # {})
  /\ UNCHANGED <<data, job, canceller, bounds, late>>
-----------------------------------------------------------------------------
(* Stage 4, classification *)

Pending == {c \in Commits : commit[c] = "pending"}

\* seeded fault: the pending commits of the whole table, cut off after one
TakePendingLimit(w) ==
  /\ InStage(w, Classification)
  /\ exec' = [exec EXCEPT ![w].pc = "classify",
                          ![w].todo = {c \in Pending : IsOldest(c, Pending)}]
  /\ UNCHANGED <<data, job, entry, canceller, bounds, late>>

\* every pending commit of the tracking, whoever stored it
TakePending(w) ==
  /\ InStage(w, Classification)
  /\ exec' = [exec EXCEPT ![w].pc = "classify", ![w].todo = Pending]
  /\ UNCHANGED <<data, job, entry, canceller, bounds, late>>

\* classify_commit; one the classifier fails on stays pending
Classify(w) ==
  \E c \in exec[w].todo :
    /\ At(w, "classify") /\ IsOldest(c, exec[w].todo)
    /\ \/ /\ commit' = [commit EXCEPT ![c] = "done"]
          /\ exec' = [exec EXCEPT ![w].todo = @ \ {c}]
       \/ /\ exec' = [exec EXCEPT ![w].todo = @ \ {c}, ![w].saved = @ \ {c}]
          /\ UNCHANGED commit
    /\ UNCHANGED <<published, job, entry, canceller, bounds, late>>

ClassificationEnds(w) ==
  /\ At(w, "classify") /\ exec[w].todo = {}
  /\ StageEnds(w, TRUE)
  /\ UNCHANGED <<data, job, canceller, bounds, late>>
-----------------------------------------------------------------------------
\* seeded fault: a failed execution returns without its final status
FinishEarly(w) ==
  /\ At(w, "finish")
  /\ exec' = [exec EXCEPT ![w] = Idle]
  /\ job' = IF exec[w].verdict = "failed" THEN job ELSE exec[w].verdict
  /\ UNCHANGED <<data, entry, canceller, bounds, late>>

\* the final status; the entry stays in the map
Finish(w) ==
  /\ At(w, "finish")
  /\ exec' = [exec EXCEPT ![w] = Idle]
  /\ job' = exec[w].verdict
  /\ UNCHANGED <<data, entry, canceller, bounds, late>>

\* an update_job_status or get_tracking fails: execute_sync_job returns the error
CallFails(w) ==
  /\ exec[w].pc \in {"announce", "load", "finish"}
  /\ mishaps < MaxMishaps /\ mishaps' = mishaps + 1
  /\ exec' = [exec EXCEPT ![w] = Idle]
  /\ UNCHANGED <<data, job, entry, canceller, cancels, late>>

Crash ==
  /\ mishaps < MaxMishaps /\ mishaps' = mishaps + 1
  /\ entry' = NoEntry
  /\ exec' = [w \in Executors |-> Idle]
  /\ canceller' = "idle"
  /\ late' = 0
  /\ UNCHANGED <<data, job, cancels>>
-----------------------------------------------------------------------------
(* cancel_job *)

\* request_cancel; a job without an entry is only warned about
RequestCancel ==
  /\ canceller = "idle"
  /\ cancels < MaxCancels /\ cancels' = cancels + 1
  /\ entry' = IF entry.present THEN [entry EXCEPT !.cancel = TRUE] ELSE entry
  /\ canceller' = "flagged"
  /\ UNCHANGED <<data, job, exec, mishaps, late>>

\* written whatever the executions wrote meanwhile
MarkCancelling ==
  /\ canceller = "flagged"
  /\ canceller' = "idle"
  /\ job' = "cancelling"
  /\ UNCHANGED <<data, entry, exec, bounds, late>>

\* a commit is pushed upstream
Publish ==
  /\ \E c \in Commits \ published :
       /\ \A d \in published : d < c
       /\ published' = published \cup {c}
  /\ UNCHANGED <<commit, job, entry, exec, canceller, bounds, late>>

Execute(w) ==
  \/ Begin(w) \/ Announce(w) \/ LoadTracking(w) \/ CheckCancel(w) \/ StartStage(w)
  \/ RunStage(w) \/ StageFails(w) \/ Finish(w) \/ CallFails(w)
  \/ IngestSkipped(w) \/ Collect(w) \/ FindCommit(w) \/ SaveCommit(w) \/ IngestEnds(w)
  \/ TakePending(w) \/ Classify(w) \/ ClassificationEnds(w)

Next ==
  (\E w \in Executors : Execute(w)) \/ RequestCancel \/ MarkCancelling \/ Crash \/ Publish

Spec == Init /\ [][Next]_vars
-----------------------------------------------------------------------------
(* Properties *)

(* A cancel request the state manager holds stops every execution at its     *)
(* next stage: an execution starts one stage more at most, the one whose     *)
(* check came before the request.                                            *)
CancelStops == entry.cancel => late <= Cardinality(Executors)

(* A final status is earned: "completed" comes from an execution that made    *)
(* its report, with or without new data, and "cancelled" only after somebody *)
(* asked for it.                                                             *)
OutcomeEarned ==
  [][\A w \in Executors :
       At(w, "finish") /\ exec'[w].pc = "idle" /\ job' # job =>
         /\ job' = "completed" => ReportGeneration \in exec[w].done
         /\ job' = "cancelled" => cancels > 0]_vars

(* A job says "running" only while it is executed, over any overlap of       *)
(* executions and requests, until a database call fails or a crash occurs.   *)
RunningIsExecuted ==
  job = "running" /\ mishaps = 0 => \E w \in Executors : ~At(w, "idle")

(* An execution that went through classification leaves no commit it stored  *)
(* unclassified, but those its classifier failed on.                         *)
StoredGetsClassified ==
  \A w \in Executors :
    Classification \in exec[w].done =>
      \A c \in exec[w].saved : commit[c] = "done"

(* "L1 没有新数据，可以跳过后续阶段": when ingestion finds nothing new, the later *)
(* stages have nothing to do: no stored commit is waiting to be classified.  *)
SkipLosesNothing ==
  \A w \in Executors :
    exec[w].fetched /\ exec[w].skip /\ exec[w].done = {L1Ingestion} => Pending = {}
=============================================================================
