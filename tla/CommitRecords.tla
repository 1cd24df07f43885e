--------------------------- MODULE CommitRecords ---------------------------
(***************************************************************************)
(* The commit_records rows of one tracking, the programs that write them,  *)
(* and the classification jobs of its sync_jobs rows.                      *)
(*                                                                         *)
(*   importers  MetadataImporter::import (importer/metadata.rs)            *)
(*   pushers    POST /api/metadata/l1 (server/handlers/metadata.rs)        *)
(*   stores     SyncService::process_platform_commits                      *)
(*   runners    ClassificationJobRunner::run_next (classifier_job/mod.rs)  *)
(*   stages     PipelineStages::stage_classification                       *)
(*                                                                         *)
(* Each step is one database call; nothing runs in a transaction.  A       *)
(* commit is named by its rank in commit-date order.                       *)
(***************************************************************************)
EXTENDS Naturals, FiniteSets

CONSTANTS
  Commits,          \* the tracking's upstream commits, by date
  Releases,         \* version-release pairs of the spec file
  ReleaseOf,        \* the release each commit's spec file names
  Bots,             \* the commits made by openeuler-ci-bot
  Importers, Pushers, Stores, Runners, Stages,
  MaxClassJobs,     \* bound: classification jobs ever inserted
  Limit,            \* commits one job takes
  MaxMishaps,       \* bound: crashes, failed calls and repeated imports
  MaxCrew,          \* bound: programs at work
  NoCommit, NoJob

Writers == Importers \cup Pushers \cup Stores
Classifiers == Runners \cup Stages
Programs == Writers \cup Classifiers
CJobs == 1..MaxClassJobs

ASSUME RecordsAssumption ==
  /\ Commits \subseteq Nat /\ IsFiniteSet(Commits) /\ NoCommit \notin Commits
  /\ ReleaseOf \in [Commits -> Releases]
  /\ Bots \subseteq Commits
  /\ IsFiniteSet(Programs)
  /\ Importers \cap (Pushers \cup Stores \cup Classifiers) = {}
  /\ Pushers \cap (Stores \cup Classifiers) = {}
  /\ Stores \cap Classifiers = {}
  /\ Runners \cap Stages = {}
  /\ MaxClassJobs \in Nat /\ Limit \in Nat /\ MaxMishaps \in Nat /\ NoJob \notin CJobs

VARIABLES
  record,       \* classification_status of each commit's row
  cjob,         \* status of each classification job, named by its scheduled_at stamp
  cstamp,       \* the last stamp taken
  at,           \* where each program is
  todo,         \* the commits it has still to handle
  item,         \* the commit it is handling
  own,          \* an importer's stamp, a runner's job
  seen,         \* the releases a store has met (seen_version_release)
  \* history
  imported,     \* the commits importers inserted
  missed,       \* those of them a job was trusted with that had read its list, or
                \* that a job's list left over
  starts,       \* how often each runner marked each job started
  verdicts,     \* how often each classifier classified each commit
  mishaps

records == <<record, cjob, cstamp>>
programs == <<at, todo, item, own, seen>>
histories == <<imported, missed, starts, verdicts, mishaps>>
recordVars == <<records, programs, histories>>

Class == {"absent", "unclassified", "pending", "done", "needs_review"}
Phase == {"off", "look", "insert", "enqueue", "queue", "read", "classify",
          "fetch", "mark", "through", "failed"}

RecordsInit ==
  /\ record = [c \in Commits |-> "absent"]
  /\ cjob = [j \in CJobs |-> "absent"]
  /\ cstamp = 0
  /\ \E crew \in SUBSET Programs :
       /\ Cardinality(crew) <= MaxCrew
       /\ at = [p \in Programs |-> CASE p \notin crew -> "off"
                                     [] p \in Runners -> "fetch"
                                     [] p \in Stages -> "read"
                                     [] OTHER -> "look"]
  /\ todo = [p \in Programs |-> IF p \in Writers THEN Commits ELSE {}]
  /\ item = [p \in Programs |-> NoCommit]
  /\ own = [p \in Programs |-> NoJob]
  /\ seen = [s \in Stores |-> {}]
  /\ imported = {} /\ missed = {}
  /\ starts = [j \in CJobs |-> [r \in Runners |-> 0]]
  /\ verdicts = [c \in Commits |-> [p \in Classifiers |-> 0]]
  /\ mishaps = 0
-----------------------------------------------------------------------------
(* Queries and row writes *)

Earliest(S) == CHOOSE x \in S : \A y \in S : x <= y

\* ORDER BY committed_at ASC LIMIT n
FirstOf(S, n) == {c \in S : Cardinality({d \in S : d < c}) < n}

\* seeded fault: commits to be reviewed are selected again
PendingOrReview == {c \in Commits : record[c] \in {"pending", "needs_review"}}

PendingCommits == {c \in Commits : record[c] = "pending"}
OpenClassJobs == {j \in CJobs : cjob[j] \in {"pending", "running"}}
PendingClassJobs == {j \in CJobs : cjob[j] = "pending"}

\* seeded fault: the status filter is missing
JobsOfAnyStatus == {j \in CJobs : cjob[j] # "absent"}

\* seeded fault: running jobs are not looked for
JobsNotStarted == PendingClassJobs

\* enqueue's query
JobsToReuse == OpenClassJobs

\* unique key of commit_records: (tracking_id, commit_sha)
InsertRecord(c, class) ==
  /\ record[c] = "absent"
  /\ record' = [record EXCEPT ![c] = class]

Goto(p, phase) == at' = [at EXCEPT ![p] = phase]
Drop(p, c) == todo' = [todo EXCEPT ![p] = @ \ {c}]
Mishap == mishaps < MaxMishaps /\ mishaps' = mishaps + 1
-----------------------------------------------------------------------------
(* MetadataImporter::import and import_commit: a file's commits in file    *)
(* order, which is any order; the first error ends the import.             *)

ImportLook(i, c) ==
  /\ at[i] = "look" /\ c \in todo[i]
  /\ \/ record[c] # "absent" /\ Drop(i, c) /\ UNCHANGED <<at, item>>
     \/ /\ record[c] = "absent"
        /\ item' = [item EXCEPT ![i] = c]
        /\ Goto(i, "insert")
        /\ UNCHANGED todo
  /\ UNCHANGED <<records, own, seen, histories>>

\* the row names no classification_status: the column's default is 'pending'
ImportInsert(i) ==
  /\ at[i] = "insert" /\ i \in Importers
  /\ \/ /\ InsertRecord(item[i], "pending")
        /\ imported' = imported \cup {item[i]}
        /\ Goto(i, "enqueue")
     \/ /\ record[item[i]] # "absent"
        /\ Goto(i, "failed")
        /\ UNCHANGED <<record, imported>>
  /\ UNCHANGED <<cjob, cstamp, todo, item, own, seen, missed, starts, verdicts, mishaps>>

\* the open job is running, and no runner has its list still to read
TooLate == /\ PendingClassJobs = {} /\ \E j \in CJobs : cjob[j] = "running"
           /\ \A r \in Runners : at[r] \notin {"mark", "read"}

\* seeded fault: the job goes by the stamp before
EnqueueFindOldStamp(i) ==
  /\ at[i] = "enqueue" /\ JobsToReuse = {} /\ cstamp < MaxClassJobs
  /\ cstamp' = cstamp + 1
  /\ own' = [own EXCEPT ![i] = cstamp]
  /\ Goto(i, "queue")
  /\ UNCHANGED <<record, cjob, todo, item, seen, histories>>

\* ClassificationJobQueue::enqueue: a pending or running job of the tracking is
\* taken to cover the commit; otherwise a stamp is taken for a job of its own
EnqueueFind(i) ==
  /\ at[i] = "enqueue"
  /\ \/ /\ JobsToReuse # {}
        /\ missed' = IF TooLate THEN missed \cup {item[i]}
                     ELSE missed
        /\ Drop(i, item[i]) /\ Goto(i, "look")
        /\ UNCHANGED <<cstamp, own>>
     \/ /\ JobsToReuse = {}
        /\ cstamp < MaxClassJobs
        /\ cstamp' = cstamp + 1
        /\ own' = [own EXCEPT ![i] = cstamp']
        /\ Goto(i, "queue")
        /\ UNCHANGED <<todo, missed>>
  /\ UNCHANGED <<record, cjob, item, seen, imported, starts, verdicts, mishaps>>

EnqueueInsert(i) ==
  /\ at[i] = "queue"
  /\ cjob' = [cjob EXCEPT ![own[i]] = "pending"]
  /\ Drop(i, item[i]) /\ Goto(i, "look")
  /\ UNCHANGED <<record, cstamp, item, own, seen, histories>>

\* the same file again, after an import that ended early
ImportAgain(i) ==
  /\ at[i] = "failed" /\ i \in Importers
  /\ Mishap
  /\ Goto(i, "look")
  /\ todo' = [todo EXCEPT ![i] = Commits]
  /\ UNCHANGED <<records, item, own, seen, imported, missed, starts, verdicts>>

ImporterStep(i) ==
  \/ \E c \in Commits : ImportLook(i, c)
  \/ ImportInsert(i) \/ EnqueueFind(i) \/ EnqueueInsert(i) \/ ImportAgain(i)
-----------------------------------------------------------------------------
(* import_l1_metadata and import_commit_record: an error skips the commit  *)

PushLook(p, c) == ImportLook(p, c)

PushInsert(p) ==
  /\ at[p] = "insert" /\ p \in Pushers
  /\ InsertRecord(item[p], "unclassified") \/ (record[item[p]] # "absent" /\ UNCHANGED record)
  /\ Drop(p, item[p]) /\ Goto(p, "look")
  /\ UNCHANGED <<cjob, cstamp, item, own, seen, histories>>

PusherStep(p) == (\E c \in Commits : PushLook(p, c)) \/ PushInsert(p)
-----------------------------------------------------------------------------
(* process_platform_commits: by date; a bot's commit is left out when the  *)
(* run has met its release, if the spec file could be fetched              *)


\* seeded fault: every commit of a bot is left out
BumpOfBot(s, c, known) == known /\ c \in Bots

Bump(s, c, known) == known /\ ReleaseOf[c] \in seen[s] /\ c \in Bots

StoreLook(s) ==
  LET c == Earliest(todo[s]) IN
  /\ at[s] = "look" /\ s \in Stores /\ todo[s] # {}
  /\ \/ record[c] # "absent" /\ Drop(s, c) /\ UNCHANGED <<at, item, seen>>
     \/ /\ record[c] = "absent"
        /\ \E known \in BOOLEAN :
             /\ IF Bump(s, c, known) THEN Drop(s, c) /\ UNCHANGED <<at, item>>
                ELSE /\ item' = [item EXCEPT ![s] = c]
                     /\ Goto(s, "insert")
                     /\ UNCHANGED todo
             /\ seen' = [seen EXCEPT ![s] = IF known THEN @ \cup {ReleaseOf[c]} ELSE @]
  /\ UNCHANGED <<records, own, histories>>

StoreInsert(s) ==
  /\ at[s] = "insert" /\ s \in Stores
  /\ \/ InsertRecord(item[s], "pending") /\ Drop(s, item[s]) /\ Goto(s, "look")
     \/ record[item[s]] # "absent" /\ Goto(s, "failed") /\ UNCHANGED <<record, todo>>
  /\ UNCHANGED <<cjob, cstamp, item, own, seen, histories>>

\* the next execution lists the commits again and has met no release
StoreAgain(s) ==
  /\ at[s] \in {"look", "failed"} /\ s \in Stores /\ (at[s] = "look" => todo[s] = {})
  /\ Mishap
  /\ Goto(s, "look")
  /\ todo' = [todo EXCEPT ![s] = Commits]
  /\ seen' = [seen EXCEPT ![s] = {}]
  /\ UNCHANGED <<records, item, own, imported, missed, starts, verdicts>>

StoreStep(s) == StoreLook(s) \/ StoreInsert(s) \/ StoreAgain(s)
-----------------------------------------------------------------------------
(* ClassificationJobRunner::run_next *)

\* dequeue, first call: the oldest pending job, all priorities being 0
Fetch(r) ==
  /\ at[r] = "fetch" /\ PendingClassJobs # {}
  /\ own' = [own EXCEPT ![r] = Earliest(PendingClassJobs)]
  /\ Goto(r, "mark")
  /\ UNCHANGED <<records, todo, item, seen, histories>>

\* dequeue, second call: mark_started writes whatever the row says by now
MarkStarted(r) ==
  /\ at[r] = "mark"
  /\ cjob' = [cjob EXCEPT ![own[r]] = "running"]
  /\ starts' = [starts EXCEPT ![own[r]][r] = @ + 1]
  /\ Goto(r, "read")
  /\ UNCHANGED <<record, cstamp, todo, item, own, seen, imported, missed, verdicts, mishaps>>

\* process_internal's query
ReadList(r) ==
  /\ at[r] = "read" /\ r \in Runners
  /\ todo' = [todo EXCEPT ![r] = FirstOf(PendingCommits, Limit)]
  /\ missed' = missed \cup (imported \cap (PendingCommits \ todo'[r]))
  /\ Goto(r, "classify")
  /\ UNCHANGED <<records, item, own, seen, imported, starts, verdicts, mishaps>>

\* one round of process_internal's loop: the row is written whatever it says by now
ClassifyNext(r) ==
  /\ at[r] = "classify" /\ r \in Runners /\ todo[r] # {}
  /\ LET c == Earliest(todo[r]) IN
     /\ \E verdict \in {"done", "needs_review"} : record' = [record EXCEPT ![c] = verdict]
     /\ verdicts' = [verdicts EXCEPT ![c][r] = @ + 1]
     /\ Drop(r, c)
  /\ UNCHANGED <<cjob, cstamp, at, item, own, seen, imported, missed, starts, mishaps>>

CloseJob(r, outcome) ==
  /\ cjob' = [cjob EXCEPT ![own[r]] = outcome]
  /\ todo' = [todo EXCEPT ![r] = {}]
  /\ Goto(r, "fetch")
  /\ UNCHANGED <<record, cstamp, item, own, seen, imported, missed, starts, verdicts>>

MarkSucceeded(r) ==
  /\ at[r] = "classify" /\ r \in Runners /\ todo[r] = {}
  /\ CloseJob(r, "succeeded")
  /\ UNCHANGED mishaps

\* seeded fault: a failed job is put back to be tried again
MarkFailedRetry(r) ==
  /\ at[r] \in {"read", "classify"} /\ r \in Runners
  /\ Mishap
  /\ CloseJob(r, "pending")

\* the query or a save failed
MarkFailed(r) ==
  /\ at[r] \in {"read", "classify"} /\ r \in Runners
  /\ Mishap
  /\ CloseJob(r, "failed")

RunnerStep(r) == Fetch(r) \/ MarkStarted(r) \/ ReadList(r) \/ ClassifyNext(r)
                 \/ MarkSucceeded(r) \/ MarkFailed(r)
-----------------------------------------------------------------------------
(* stage_classification: every pending commit; one whose classification    *)
(* fails stays pending                                                     *)

StageRead(g) ==
  /\ at[g] = "read" /\ g \in Stages
  /\ todo' = [todo EXCEPT ![g] = PendingCommits]
  /\ Goto(g, "classify")
  /\ UNCHANGED <<records, item, own, seen, histories>>

StageClassify(g, c) ==
  /\ at[g] = "classify" /\ g \in Stages /\ c \in todo[g]
  /\ \/ /\ record' = [record EXCEPT ![c] = "done"]
        /\ verdicts' = [verdicts EXCEPT ![c][g] = @ + 1]
     \/ UNCHANGED <<record, verdicts>>
  /\ Drop(g, c)
  /\ UNCHANGED <<cjob, cstamp, at, item, own, seen, imported, missed, starts, mishaps>>

\* the pipeline's next execution
StageAgain(g) ==
  /\ at[g] = "classify" /\ g \in Stages /\ todo[g] = {}
  /\ Goto(g, "read")
  /\ UNCHANGED <<records, todo, item, own, seen, histories>>

StageStep(g) == StageRead(g) \/ (\E c \in Commits : StageClassify(g, c)) \/ StageAgain(g)
-----------------------------------------------------------------------------
(* A crash of the process, or a call that fails and ends the operation *)

Crash(p) ==
  /\ at[p] \notin {"off", "failed"}
  /\ Mishap
  /\ Goto(p, CASE p \in Runners -> "fetch" [] p \in Stages -> "read" [] OTHER -> "failed")
  /\ todo' = [todo EXCEPT ![p] = {}]
  /\ UNCHANGED <<records, item, own, seen, imported, missed, starts, verdicts>>

RecordsNext ==
  \/ \E i \in Importers : ImporterStep(i)
  \/ \E p \in Pushers : PusherStep(p)
  \/ \E s \in Stores : StoreStep(s)
  \/ \E r \in Runners : RunnerStep(r)
  \/ \E g \in Stages : StageStep(g)
  \/ \E p \in Programs : Crash(p)

RecordsSpec == RecordsInit /\ [][RecordsNext]_recordVars
-----------------------------------------------------------------------------
\* Every variable has its type, and a program that is handling a commit or a
\* job has one.
RecordsTypeOK ==
  /\ record \in [Commits -> Class]
  /\ cjob \in [CJobs -> {"absent", "pending", "running", "succeeded", "failed"}]
  /\ cstamp \in 0..MaxClassJobs
  /\ at \in [Programs -> Phase]
  /\ todo \in [Programs -> SUBSET Commits]
  /\ item \in [Programs -> Commits \cup {NoCommit}]
  /\ own \in [Programs -> CJobs \cup {NoJob}]
  /\ seen \in [Stores -> SUBSET Releases]
  /\ imported \in SUBSET Commits /\ missed \in SUBSET Commits
  /\ starts \in [CJobs -> [Runners -> Nat]]
  /\ verdicts \in [Commits -> [Classifiers -> Nat]]
  /\ mishaps \in 0..MaxMishaps
  /\ \A p \in Programs : at[p] \in {"insert", "enqueue", "queue"} => item[p] \in Commits
  /\ \A p \in Programs : at[p] \in {"queue", "mark"} => own[p] \in CJobs

\* A commit an import stored is not forgotten: while it is pending its importer
\* is about to queue it, or a pending job or a runner that has its list to read
\* will take it, or a list has it.  The two ways out are those in `missed`: an
\* import trusted a running job that had read its list, and a list longer than
\* the limit.  (enqueue, dequeue, process_internal; without failed calls.)
ImportedIsCovered ==
  mishaps = 0 =>
    \A c \in imported :
      \/ record[c] # "pending"
      \/ c \in missed
      \/ PendingClassJobs # {}
      \/ \E r \in Runners : at[r] \in {"mark", "read"} \/ c \in todo[r]
      \/ \E i \in Importers : at[i] \in {"enqueue", "queue"} /\ item[i] = c

\* A job is started at most once by each runner, although dequeue fetches and
\* marks in two calls and a runner may crash between and after them: once
\* started a job is never pending again.
StartsBounded == \A j \in CJobs, r \in Runners : starts[j][r] <= 1

\* The jobs open at a time: one for each importer at work, whose look and insert
\* are two calls, and one more for each runner at work but one, whose mark may
\* reopen a closed job.  (Failed calls leave a job open for ever.)
OpenJobsBounded ==
  LET working(S) == {p \in S : at[p] # "off"} IN
  mishaps = 0 =>
    Cardinality(OpenClassJobs) <= Cardinality(working(Importers))
                                  + IF working(Runners) = {} THEN 0 ELSE Cardinality(working(Runners)) - 1

\* However many jobs and executions there are, a commit is classified at most
\* once by each runner and stage: a list has only pending commits, and none is
\* pending again once it is classified.
OneVerdictEach == \A c \in Commits, p \in Classifiers : verdicts[c][p] <= 1

\* Leaving out a bot's commits loses no release: when a store has been through
\* the list, a commit without a row shares its release with one that has a row.
ReleasesKept ==
  \A s \in Stores : at[s] = "look" /\ todo[s] = {} =>
    \A c \in Commits : record[c] = "absent" =>
      \E d \in Commits : record[d] # "absent" /\ ReleaseOf[d] = ReleaseOf[c]
=============================================================================
