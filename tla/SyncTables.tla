----------------------------- MODULE SyncTables -----------------------------
(***************************************************************************)
(* The two database tables the scheduler works on, `tracking` and          *)
(* `sync_jobs`, with the queries and the row writes of SyncManager         *)
(* (scheduler/sync_manager.rs) and the tracking handlers                   *)
(* (server/handlers/tracking.rs).  Each operator below is one database     *)
(* call; the modules that extend this one decide how calls interleave.     *)
(*                                                                         *)
(* A sync_jobs row is named by its scheduled_at stamp, the only column its *)
(* rows are ordered by.  A stamp is taken (Utc::now()) before the row is   *)
(* inserted, so rows may become visible out of stamp order.                *)
(***************************************************************************)
EXTENDS Naturals, FiniteSets

CONSTANTS
  Trackings,    \* ids of the tracking rows
  MaxJobs,      \* bound: sync_jobs rows ever inserted
  None          \* no tracking, no row

ASSUME TablesAssumption ==
  /\ IsFiniteSet(Trackings)
  /\ None \notin Trackings
  /\ None \notin 1..MaxJobs
  /\ MaxJobs \in Nat

VARIABLES
  tracking,     \* tracking row: tracking_status, and whether last_sync_time is fresh:
                \* set, and the next aligned instant has not passed
  jobs,         \* sync_jobs row of each stamp
  stamp         \* the last scheduled_at stamp taken

tables == <<tracking, jobs, stamp>>

Jobs == 1..MaxJobs

\* tracking_status; "new" and "deleted" stand for a row not there (yet, any more)
RowStatus == {"active", "error", "syncing", "paused", "archived"}
HeldStatus == {"paused", "archived"}
TrackingRow == [status : RowStatus \cup {"new", "deleted"},
                fresh : BOOLEAN]

JobRow == [tracking_id : Trackings \cup {None},
           status : {"absent", "pending", "running", "succeeded", "failed"}]
NoRow == [tracking_id |-> None, status |-> "absent"]

TablesInit ==
  /\ tracking = [t \in Trackings |-> [status |-> "new", fresh |-> FALSE]]
  /\ jobs = [j \in Jobs |-> NoRow]
  /\ stamp = 0

TablesTypeOK ==
  /\ tracking \in [Trackings -> TrackingRow]
  /\ jobs \in [Jobs -> JobRow]
  /\ stamp \in 0..MaxJobs
-----------------------------------------------------------------------------
(* Queries *)

Exists(t) == tracking[t].status \in RowStatus
Held(t) == tracking[t].status \in HeldStatus

\* should_sync: never synced, or the next aligned instant has passed
Due(t) == ~tracking[t].fresh

RowsOf(t) == {j \in Jobs : jobs[j].status # "absent" /\ jobs[j].tracking_id = t}
ActiveJobs(t) == {j \in RowsOf(t) : jobs[j].status \in {"pending", "running"}}

\* ORDER BY scheduled_at DESC LIMIT 1
Newest(S) == CHOOSE j \in S : \A k \in S : k <= j

\* get_pending_sync_tasks_with_tracking_id(wake_up, tracking_id)
PendingTrackings(wake, only) ==
  {t \in Trackings : /\ Exists(t)
                     /\ tracking[t].status \notin {"syncing", "paused", "archived"}
                     /\ only \in {None, t}
                     /\ Due(t) \/ wake}
-----------------------------------------------------------------------------
(* Row writes *)

TakeStamp == stamp' = stamp + 1

InsertJobRow(j, t) == jobs' = [jobs EXCEPT ![j] = [tracking_id |-> t, status |-> "pending"]]

SetJobStatus(j, s) == jobs' = [jobs EXCEPT ![j].status = s]

\* update_tracking_sync_time: the status column is written whatever it was
WriteSyncTime(t) ==
  tracking' = [tracking EXCEPT ![t] = [status |-> "active", fresh |-> TRUE]]

\* seeded fault: the job's status word in the tracking's column
WriteOutcomeJobWord(t, result, keep) ==
  tracking' = [tracking EXCEPT
    ![t].status = IF keep THEN @ ELSE IF result = "Failed" THEN "failed" ELSE "active",
    ![t].fresh = @ \/ result = "Success"]

\* apply_completion's update of the tracking row; `keep` is preserve_status
WriteOutcome(t, result, keep) ==
  tracking' = [tracking EXCEPT
    ![t].status = IF keep THEN @ ELSE IF result = "Failed" THEN "error" ELSE "active",
    ![t].fresh = @ \/ result = "Success"]

JobStatusOf(result) == IF result = "Failed" THEN "failed" ELSE "succeeded"
-----------------------------------------------------------------------------
(* The tracking handlers and the passing of time *)

\* POST /api/tracking; without a tracking_status the row is "active"
CreateTracking(t, s) ==
  /\ tracking[t].status = "new"
  /\ tracking' = [tracking EXCEPT ![t].status = s]
  /\ UNCHANGED <<jobs, stamp>>

\* PUT /api/tracking/:id with a tracking_status
UpdateTracking(t, s) ==
  /\ Exists(t)
  /\ tracking' = [tracking EXCEPT ![t].status = s]
  /\ UNCHANGED <<jobs, stamp>>

\* DELETE /api/tracking/:id; the foreign key of sync_jobs cascades
DeleteTracking(t) ==
  /\ Exists(t)
  /\ tracking' = [tracking EXCEPT ![t] = [status |-> "deleted", fresh |-> FALSE]]
  /\ jobs' = [j \in Jobs |-> IF j \in RowsOf(t) THEN NoRow ELSE jobs[j]]
  /\ UNCHANGED stamp

\* the next aligned instant of t passes
BecomeDue(t) ==
  /\ tracking[t].fresh
  /\ tracking' = [tracking EXCEPT ![t].fresh = FALSE]
  /\ UNCHANGED <<jobs, stamp>>
=============================================================================
