------------------------ MODULE TrackSchedulerProofs ------------------------
(***************************************************************************)
(* Theorems about TrackScheduler, for every set of workers and trackings   *)
(* and every bound.                                                        *)
(***************************************************************************)
EXTENDS TrackScheduler, FiniteSetTheorems, TLAPS

LEMMA JobsFinite == IsFiniteSet(Jobs)
<1>1. 1 \in Int /\ MaxJobs \in Int
  BY TablesAssumption
<1>2. QED
  BY <1>1, FS_Interval DEF Jobs

(* What "ORDER BY scheduled_at DESC LIMIT 1" returns: a row of the set, and *)
(* none of the set is later.                                                *)
LEMMA NewestIsLast ==
  ASSUME NEW S \in SUBSET Jobs, S # {}
  PROVE  Newest(S) \in S /\ \A k \in S : k <= Newest(S)
<1> DEFINE Later(j) == {k \in S : j < k}
           T == {Later(j) : j \in S}
           R == StrictSubsetOrdering(S)
<1>1. IsFiniteSet(S)
  BY JobsFinite, FS_Subset
<1>2. \A j \in S : j \in Nat
  BY DEF Jobs
<1>3. T \subseteq FiniteSubsetsOf(S) /\ T # {}
  <2>1. ASSUME NEW j \in S PROVE IsFiniteSet(Later(j)) /\ Later(j) \in SUBSET S
    <3>1. Later(j) \in SUBSET S
      OBVIOUS
    <3>2. QED
      BY <1>1, <3>1, FS_Subset
  <2>2. QED
    BY <2>1 DEF FiniteSubsetsOf
<1>4. PICK X \in T : \A Y \in T : ~(<<Y, X>> \in R)
  BY <1>3, WFMin, FS_StrictSubsetOrderingWellFounded
<1>5. PICK j \in S : X = Later(j)
  BY <1>4
<1>6. \A k \in S : k <= j
  <2>1. SUFFICES ASSUME NEW k \in S, j < k PROVE FALSE
    BY <1>2
  <2>2. Later(k) \subseteq Later(j) /\ k \in Later(j) /\ k \notin Later(k)
    BY <1>2, <2>1
  <2>3. <<Later(k), X>> \in R
    BY <1>5, <2>2 DEF StrictSubsetOrdering
  <2>4. QED
    BY <1>4, <2>3
<1>7. QED
  BY <1>6 DEF Newest

LEMMA RowsAreJobs ==
  ASSUME NEW t
  PROVE  RowsOf(t) \subseteq Jobs /\ ActiveJobs(t) \subseteq RowsOf(t)
BY DEF RowsOf, ActiveJobs

LEMMA PendingAreTrackings ==
  ASSUME NEW wake, NEW only
  PROVE  /\ PendingTrackings(wake, only) \in SUBSET Trackings
         /\ Cardinality(PendingTrackings(wake, only)) \in Nat
<1>1. PendingTrackings(wake, only) \in SUBSET Trackings
  BY DEF PendingTrackings
<1>2. QED
  BY <1>1, TablesAssumption, FS_Subset, FS_CardinalityType

(* The chunk a round takes from a list that is not empty.                   *)
LEMMA ChunkIsPositive ==
  ASSUME TypeOK, NEW w \in Workers, round[w].todo # {}
  PROVE  Cardinality(round[w].todo) \in Nat \ {0}
<1>1. round[w].todo \in SUBSET Trackings
  BY DEF TypeOK, Round
<1>2. IsFiniteSet(round[w].todo)
  BY <1>1, TablesAssumption, FS_Subset
<1>3. QED
  BY <1>2, FS_CardinalityType, FS_EmptySet

-----------------------------------------------------------------------------
(* Type correctness *)

(* Leaving a tracking and taking a label keep the workers' types.           *)
WorkersTypeOK ==
  /\ pc \in [Workers -> PC]
  /\ cur \in [Workers -> Trackings \cup {None}]
  /\ run \in [Workers -> Run]
  /\ \A w \in Workers : AtHand(w)

LEMMA LeaveType ==
  ASSUME TypeOK, NEW w \in Workers, Leave(w)
  PROVE  WorkersTypeOK'
BY DEF TypeOK, WorkersTypeOK, AtHand, Leave, Goto, PC, Run, NoRun

LEMMA GotoType ==
  ASSUME TypeOK, NEW w \in Workers, NEW label \in PC, Goto(w, label),
         cur' \in [Workers -> Trackings \cup {None}], run' \in [Workers -> Run],
         \A v \in Workers \ {w} : cur'[v] = cur[v] /\ run'[v] = run[v],
         label \notin {"idle", "next"} => cur'[w] \in Trackings,
         label \notin {"idle", "next", "find", "check"} => run'[w].job \in Jobs,
         label \in {"ingest", "collect"} => run'[w].src \in Trackings
  PROVE  WorkersTypeOK'
BY DEF TypeOK, WorkersTypeOK, AtHand, Goto

LEMMA StayType ==
  ASSUME TypeOK, NEW w \in Workers, NEW label \in PC, Goto(w, label),
         UNCHANGED <<cur, run>>,
         label \notin {"idle", "next"} => cur[w] \in Trackings,
         label \notin {"idle", "next", "find", "check"} => run[w].job \in Jobs,
         label \in {"ingest", "collect"} => run[w].src \in Trackings
  PROVE  WorkersTypeOK'
BY DEF TypeOK, WorkersTypeOK, AtHand, Goto

LEMMA StartType ==
  ASSUME TypeOK, NEW w \in Workers, Start(w)
  PROVE  TypeOK'
<1>1. ASSUME NEW mode \in {"run", "queue"}, NEW S \in SUBSET Trackings, NEW n \in Nat,
             Begin(w, mode, S, n), UNCHANGED mishaps \/ Mishap
      PROVE  TypeOK'
  <2>1. WorkersTypeOK'
    BY <1>1, StayType DEF Begin, PC
  <2>2. mishaps' \in 0..MaxMishaps
    BY <1>1, SchedulerAssumption DEF TypeOK, Mishap
  <2>3. round' \in [Workers -> Round]
    BY <1>1 DEF TypeOK, Begin, Round
  <2>4. QED
    BY <1>1, <2>1, <2>2, <2>3 DEF TypeOK, TablesTypeOK, tables, WorkersTypeOK, Begin
<1>2. ASSUME NEW wake \in BOOLEAN, StartRound(w, wake)
      PROVE  TypeOK'
  <2>1. PendingTrackings(wake, None) \ Fallback \in SUBSET Trackings
    BY PendingAreTrackings
  <2>2. QED
    BY <1>1, <1>2, <2>1 DEF StartRound
<1>3. CASE StartCron(w)
  BY <1>1, <1>3, PendingAreTrackings DEF StartCron
<1>4. ASSUME NEW t \in Trackings, StartSpecificRound(w, t)
      PROVE  TypeOK'
  BY <1>1, <1>4, PendingAreTrackings DEF StartSpecificRound
<1>5. ASSUME NEW t \in Trackings, StartTrigger(w, t) \/ StartQueue(w, t)
      PROVE  TypeOK'
  BY <1>1, <1>5 DEF StartTrigger, StartQueue
<1>6. QED
  BY <1>2, <1>3, <1>4, <1>5 DEF Start

LEMMA RoundType ==
  ASSUME TypeOK, NEW w \in Workers, TakeNext(w) \/ EndRound(w)
  PROVE  TypeOK'
<1>1. CASE TakeNext(w)
  <2> DEFINE n == Cardinality(round[w].todo)
             chunk == IF round[w].batch > 0 THEN round[w].batch
                      ELSE IF n < MaxConcurrent THEN n ELSE MaxConcurrent
  <2>1. PICK t \in round[w].todo :
          /\ cur' = [cur EXCEPT ![w] = t]
          /\ round' = [round EXCEPT ![w].todo = @ \ {t},
                                    ![w].batch = chunk - 1,
                                    ![w].ran = round[w].batch > 0 /\ round[w].ran]
    BY <1>1 DEF TakeNext
  <2>2. n \in Nat \ {0}
    BY <2>1, ChunkIsPositive
  <2>3. round[w] \in Round
    BY DEF TypeOK
  <2>4. chunk - 1 \in Nat
    BY <2>2, <2>3, SchedulerAssumption DEF Round
  <2>5. round' \in [Workers -> Round]
    <3> HIDE DEF chunk
    <3>1. round[w].todo \ {t} \in SUBSET Trackings
      BY <2>3 DEF Round
    <3>2. QED
      BY <2>1, <2>3, <2>4, <3>1 DEF TypeOK, Round
  <2>6. t \in Trackings
    BY <2>1, <2>3 DEF Round
  <2>7. cur' \in [Workers -> Trackings \cup {None}] /\ cur'[w] \in Trackings
        /\ run' \in [Workers -> Run]
        /\ \A v \in Workers \ {w} : cur'[v] = cur[v] /\ run'[v] = run[v]
    BY <1>1, <2>1, <2>6 DEF TakeNext, TypeOK
  <2>8. WorkersTypeOK'
    BY <1>1, <2>7, GotoType DEF TakeNext, PC
  <2>9. QED
    BY <1>1, <2>5, <2>8 DEF TakeNext, TypeOK, TablesTypeOK, tables, WorkersTypeOK
<1>2. CASE EndRound(w)
  <2>1. WorkersTypeOK'
    BY <1>2, StayType DEF EndRound, PC
  <2>2. NoRound \in Round
    BY DEF NoRound, Round
  <2>3. QED
    BY <1>2, <2>1, <2>2 DEF EndRound, TypeOK, TablesTypeOK, tables, WorkersTypeOK
<1>3. QED
  BY <1>1, <1>2

LEMMA QueuedType ==
  ASSUME TypeOK, NEW w \in Workers, NEW j \in Jobs, Queued(w, j),
         cur[w] \in Trackings
  PROVE  WorkersTypeOK' /\ round' \in [Workers -> Round]
<1>1. round' \in [Workers -> Round]
  BY DEF TypeOK, Queued, Round
<1>2. CASE Leave(w)
  BY <1>1, <1>2, LeaveType
<1>3. CASE Goto(w, "load") /\ run' = [run EXCEPT ![w].job = j] /\ UNCHANGED cur
  <2>1. run' \in [Workers -> Run] /\ run'[w].job = j
        /\ \A v \in Workers \ {w} : run'[v] = run[v]
    BY <1>3 DEF TypeOK, Run
  <2>2. QED
    BY <1>1, <1>3, <2>1, GotoType DEF PC, TypeOK
<1>4. QED
  BY <1>2, <1>3 DEF Queued

LEMMA QueueType ==
  ASSUME TypeOK, NEW w \in Workers, QueueStep(w)
  PROVE  TypeOK'
<1>0. cur[w] \in Trackings
  BY DEF QueueStep, FindActive, CheckTracking, InsertJob, At, TypeOK, AtHand
<1>1. CASE FindActive(w)
  <2>1. CASE ActiveJobs(cur[w]) # {}
    <3>1. Newest(ActiveJobs(cur[w])) \in Jobs
      BY <2>1, NewestIsLast, RowsAreJobs
    <3>2. QED
      BY <1>0, <1>1, <2>1, <3>1, QueuedType
         DEF FindActive, TypeOK, TablesTypeOK, tables, WorkersTypeOK
  <2>2. CASE ActiveJobs(cur[w]) = {}
    <3>1. WorkersTypeOK'
      BY <1>0, <1>1, <2>2, StayType DEF FindActive, PC
    <3>2. QED
      BY <1>1, <2>2, <3>1 DEF FindActive, TypeOK, TablesTypeOK, tables, WorkersTypeOK
  <2>3. QED
    BY <2>1, <2>2
<1>2. CASE CheckTracking(w)
  <2>1. CASE Exists(cur[w]) /\ ~Held(cur[w]) /\ stamp < MaxJobs
    <3>1. stamp + 1 \in Jobs /\ stamp' \in 0..MaxJobs
      BY <1>2, <2>1, TablesAssumption
         DEF CheckTracking, TakeStamp, Jobs, TypeOK, TablesTypeOK
    <3>2. run' \in [Workers -> Run] /\ run'[w].job \in Jobs
          /\ \A v \in Workers \ {w} : run'[v] = run[v]
      BY <1>2, <2>1, <3>1 DEF CheckTracking, TypeOK, Run
    <3>3. WorkersTypeOK'
      BY <1>0, <1>2, <2>1, <3>2, GotoType DEF CheckTracking, PC, TypeOK
    <3>4. QED
      BY <1>2, <3>1, <3>3 DEF CheckTracking, TypeOK, TablesTypeOK, WorkersTypeOK
  <2>2. CASE ~(Exists(cur[w]) /\ ~Held(cur[w]) /\ stamp < MaxJobs)
    BY <1>2, <2>2, LeaveType DEF CheckTracking, TypeOK, TablesTypeOK, WorkersTypeOK
  <2>3. QED
    BY <2>1, <2>2
<1>3. CASE InsertJob(w)
  <2>1. CASE Exists(cur[w])
    <3>1. jobs' \in [Jobs -> JobRow]
      BY <1>0, <1>3, <2>1 DEF InsertJob, InsertJobRow, TypeOK, TablesTypeOK, JobRow
    <3>2. run[w].job \in Jobs
      BY <1>3 DEF InsertJob, At, TypeOK, AtHand
    <3>3. QED
      BY <1>0, <1>3, <2>1, <3>1, <3>2, QueuedType
         DEF InsertJob, TypeOK, TablesTypeOK, WorkersTypeOK
  <2>2. CASE ~Exists(cur[w])
    BY <1>3, <2>2, LeaveType DEF InsertJob, TypeOK, TablesTypeOK, WorkersTypeOK
  <2>3. QED
    BY <2>1, <2>2
<1>4. QED
  BY <1>1, <1>2, <1>3 DEF QueueStep

LEMMA PipelineType ==
  ASSUME TypeOK, NEW w \in Workers, PipelineStep(w)
  PROVE  TypeOK'
<1> USE DEF PC
<1>1. cur[w] \in Trackings /\ run[w].job \in Jobs
  BY DEF PipelineStep, LoadJob, Ingest, Collect, Finish, PipelineFails, FallbackFails,
         UseFallback, At, TypeOK, AtHand
<1>2. ASSUME NEW label \in PC, Goto(w, label),
             run' \in [Workers -> Run], run'[w].job = run[w].job,
             \A v \in Workers \ {w} : run'[v] = run[v],
             label \in {"ingest", "collect"} => run'[w].src \in Trackings,
             UNCHANGED <<cur, round, mishaps, jobs, stamp>>,
             tracking' \in [Trackings -> TrackingRow], attempted' \subseteq Jobs
      PROVE  TypeOK'
  <2>1. WorkersTypeOK'
    BY <1>1, <1>2, GotoType DEF TypeOK
  <2>2. QED
    BY <1>2, <2>1 DEF TypeOK, TablesTypeOK, WorkersTypeOK
<1>3. /\ run \in [Workers -> Run] /\ run[w] \in Run
      /\ tracking \in [Trackings -> TrackingRow] /\ attempted \subseteq Jobs
  BY DEF TypeOK, TablesTypeOK
<1> DEFINE RunOK == /\ run' \in [Workers -> Run] /\ run'[w].job = run[w].job
                    /\ \A v \in Workers \ {w} : run'[v] = run[v]
<1>4. CASE LoadJob(w)
  <2>1. RunOK /\ run'[w].src \in Trackings
    BY <1>1, <1>3, <1>4 DEF LoadJob, Run
  <2>2. QED
    BY <1>1, <1>2, <1>3, <1>4, <2>1 DEF LoadJob, tables
<1>5. CASE Ingest(w)
  <2>1. run[w].src \in Trackings
    BY <1>5 DEF Ingest, At, TypeOK, AtHand
  <2>2. RunOK /\ run'[w].src \in Trackings
    BY <1>3, <1>5, <2>1 DEF Ingest, Run
  <2>3. Goto(w, "finish") \/ Goto(w, "collect")
    BY <1>5 DEF Ingest
  <2>4. QED
    BY <1>2, <1>3, <1>5, <2>2, <2>3 DEF Ingest, tables
<1>6. CASE Collect(w)
  <2>1. tracking' \in [Trackings -> TrackingRow]
    BY <1>6 DEF Collect, WriteSyncTime, TypeOK, TablesTypeOK, TrackingRow, RowStatus
  <2>2. Goto(w, "diff") \/ Goto(w, "finish")
    BY <1>6 DEF Collect
  <2>3. QED
    BY <1>2, <1>3, <1>6, <2>1, <2>2 DEF Collect
<1>7. CASE Finish(w)
  <2>1. RunOK
    BY <1>3, <1>7 DEF Finish, Run
  <2>2. QED
    BY <1>2, <1>3, <1>7, <2>1 DEF Finish, tables
<1>8. CASE PipelineFails(w)
  <2>1. RunOK
    BY <1>3, <1>8 DEF PipelineFails, Run
  <2>2. QED
    BY <1>2, <1>3, <1>8, <2>1 DEF PipelineFails, tables
<1>9. CASE FallbackFails(w)
  BY <1>2, <1>3, <1>9 DEF FallbackFails, tables
<1>10. ASSUME NEW f \in Fallback, UseFallback(w, f)
       PROVE  TypeOK'
  <2>1. f \in Trackings
    BY SchedulerAssumption
  <2>2. RunOK /\ run'[w].src \in Trackings
    BY <1>3, <1>10, <2>1 DEF UseFallback, Run
  <2>3. tracking' \in [Trackings -> TrackingRow]
    BY <1>10, <2>1 DEF UseFallback, TypeOK, TablesTypeOK, TrackingRow, RowStatus
  <2>4. QED
    BY <1>2, <1>3, <1>10, <2>2, <2>3 DEF UseFallback
<1>11. QED
  BY <1>4, <1>5, <1>6, <1>7, <1>8, <1>9, <1>10 DEF PipelineStep

(* A tracking row stays one when one or both of its columns are written.    *)
LEMMA RowType ==
  ASSUME TablesTypeOK, NEW t \in Trackings,
         NEW s \in RowStatus \cup {"new", "deleted"}, NEW f \in BOOLEAN
  PROVE  /\ [tracking EXCEPT ![t] = [status |-> s, fresh |-> f]] \in [Trackings -> TrackingRow]
         /\ [tracking EXCEPT ![t].status = s] \in [Trackings -> TrackingRow]
         /\ [tracking EXCEPT ![t].fresh = f] \in [Trackings -> TrackingRow]
         /\ [tracking EXCEPT ![t].status = s, ![t].fresh = f] \in [Trackings -> TrackingRow]
<1>1. tracking[t] \in TrackingRow
  BY DEF TablesTypeOK
<1>2. [status |-> s, fresh |-> f] \in TrackingRow
  BY DEF TrackingRow
<1>3. [tracking[t] EXCEPT !.status = s] \in TrackingRow
  BY <1>1 DEF TrackingRow
<1>4. [tracking[t] EXCEPT !.fresh = f] \in TrackingRow
  BY <1>1 DEF TrackingRow
<1>5. [[tracking[t] EXCEPT !.status = s] EXCEPT !.fresh = f] \in TrackingRow
  BY <1>1 DEF TrackingRow
<1>6. QED
  BY <1>2, <1>3, <1>4, <1>5 DEF TablesTypeOK

LEMMA OutcomeType ==
  ASSUME TablesTypeOK, NEW t \in Trackings, NEW result, NEW keep,
         WriteOutcome(t, result, keep)
  PROVE  tracking' \in [Trackings -> TrackingRow]
<1> DEFINE s == IF keep THEN tracking[t].status
                ELSE IF result = "Failed" THEN "error" ELSE "active"
           f == tracking[t].fresh \/ result = "Success"
<1>1. s \in RowStatus \cup {"new", "deleted"}
  BY DEF TablesTypeOK, TrackingRow, RowStatus
<1>2. f \in BOOLEAN
  OBVIOUS
<1>3. tracking' = [tracking EXCEPT ![t].status = s, ![t].fresh = f]
  BY Zenon DEF WriteOutcome, TablesTypeOK
<1> HIDE DEF s, f
<1>4. QED
  BY <1>1, <1>2, <1>3, RowType

LEMMA CompletionType ==
  ASSUME TypeOK, NEW w \in Workers, CompletionStep(w)
  PROVE  TypeOK'
<1>1. cur[w] \in Trackings /\ run[w].job \in Jobs
  BY DEF CompletionStep, ReadTracking, WriteTracking, FindLatest, MarkJob, At, TypeOK, AtHand
<1>2. CASE Leave(w) /\ UNCHANGED <<tracking, stamp, round, mishaps, attempted>>
           /\ jobs' \in [Jobs -> JobRow]
  BY <1>2, LeaveType DEF TypeOK, TablesTypeOK, WorkersTypeOK
<1>3. CASE ReadTracking(w)
  <2>1. CASE Exists(cur[w])
    <3> DEFINE held == Held(cur[w])
    <3>0. held \in BOOLEAN /\ run' = [run EXCEPT ![w].keep = held]
      BY <1>3, <2>1 DEF ReadTracking, Held
    <3> HIDE DEF held
    <3>1. /\ run' \in [Workers -> Run] /\ run'[w].job = run[w].job
          /\ \A v \in Workers \ {w} : run'[v] = run[v]
      BY <3>0 DEF TypeOK, Run
    <3>2. WorkersTypeOK'
      BY <1>1, <1>3, <2>1, <3>1, GotoType DEF ReadTracking, PC, TypeOK
    <3>3. QED
      BY <1>3, <3>2 DEF ReadTracking, TypeOK, TablesTypeOK, tables, WorkersTypeOK
  <2>2. CASE ~Exists(cur[w])
    BY <1>2, <1>3, <2>2 DEF ReadTracking, TypeOK, TablesTypeOK, tables
  <2>3. QED
    BY <2>1, <2>2
<1>4. CASE WriteTracking(w)
  <2>1. CASE Exists(cur[w])
    <3>1. tracking' \in [Trackings -> TrackingRow]
      BY <1>1, <1>4, <2>1, OutcomeType DEF WriteTracking, TypeOK
    <3>2. WorkersTypeOK'
      BY <1>1, <1>4, <2>1, StayType DEF WriteTracking, PC
    <3>3. QED
      BY <1>4, <3>1, <3>2 DEF WriteTracking, TypeOK, TablesTypeOK, WorkersTypeOK
  <2>2. CASE ~Exists(cur[w])
    BY <1>2, <1>4, <2>2 DEF WriteTracking, TypeOK, TablesTypeOK
  <2>3. QED
    BY <2>1, <2>2
<1>5. CASE FindLatest(w)
  <2>1. CASE RowsOf(cur[w]) # {}
    <3>1. Newest(RowsOf(cur[w])) \in Jobs
      BY <2>1, NewestIsLast, RowsAreJobs
    <3>2. /\ run' \in [Workers -> Run] /\ run'[w].job \in Jobs
          /\ \A v \in Workers \ {w} : run'[v] = run[v]
      BY <1>5, <2>1, <3>1 DEF FindLatest, TypeOK, Run
    <3>3. WorkersTypeOK'
      BY <1>1, <1>5, <2>1, <3>2, GotoType DEF FindLatest, PC, TypeOK
    <3>4. QED
      BY <1>5, <3>3 DEF FindLatest, TypeOK, TablesTypeOK, tables, WorkersTypeOK
  <2>2. CASE RowsOf(cur[w]) = {}
    BY <1>2, <1>5, <2>2 DEF FindLatest, TypeOK, TablesTypeOK, tables
  <2>3. QED
    BY <2>1, <2>2
<1>6. CASE MarkJob(w)
  <2>1. jobs' \in [Jobs -> JobRow]
    BY <1>6 DEF MarkJob, SetJobStatus, JobStatusOf, TypeOK, TablesTypeOK, JobRow
  <2>2. QED
    BY <1>2, <1>6, <2>1 DEF MarkJob
<1>7. QED
  BY <1>3, <1>4, <1>5, <1>6 DEF CompletionStep

LEMMA MishapType ==
  ASSUME TypeOK, NEW w \in Workers, CallFails(w) \/ Abort(w)
  PROVE  TypeOK'
<1>1. mishaps' \in 0..MaxMishaps
  BY SchedulerAssumption DEF CallFails, Abort, Mishap, TypeOK
<1>2. CASE CallFails(w)
  BY <1>1, <1>2, LeaveType DEF CallFails, TypeOK, TablesTypeOK, tables, WorkersTypeOK
<1>3. CASE Abort(w)
  <2>1. /\ cur' \in [Workers -> Trackings \cup {None}] /\ run' \in [Workers -> Run]
        /\ round' \in [Workers -> Round]
        /\ \A v \in Workers \ {w} : cur'[v] = cur[v] /\ run'[v] = run[v]
    BY <1>3 DEF Abort, TypeOK, Run, NoRun, Round, NoRound
  <2>2. WorkersTypeOK'
    BY <1>3, <2>1, GotoType DEF Abort, PC
  <2>3. QED
    BY <1>1, <1>3, <2>1, <2>2 DEF Abort, TypeOK, TablesTypeOK, tables, WorkersTypeOK
<1>4. QED
  BY <1>2, <1>3

LEMMA TablesType ==
  ASSUME TypeOK, Operator \/ Time
  PROVE  TypeOK'
<1>1. CASE Operator
  <2>1. PICK t \in Trackings : \/ DeleteTracking(t)
                               \/ \E s \in OperatorStatus \cup {"active"} : CreateTracking(t, s)
                               \/ \E s \in OperatorStatus : UpdateTracking(t, s)
    BY <1>1 DEF Operator
  <2>2. tracking' \in [Trackings -> TrackingRow]
    <3>1. ASSUME NEW s \in OperatorStatus \cup {"active"}, CreateTracking(t, s)
          PROVE  tracking' \in [Trackings -> TrackingRow]
      <4>1. s \in RowStatus
        BY SchedulerAssumption DEF RowStatus
      <4>2. QED
        BY <3>1, <4>1, RowType DEF CreateTracking, TypeOK
    <3>2. CASE DeleteTracking(t)
      BY <3>2, RowType DEF DeleteTracking, TypeOK
    <3>3. ASSUME NEW s \in OperatorStatus, UpdateTracking(t, s)
          PROVE  tracking' \in [Trackings -> TrackingRow]
      BY <3>3, RowType, SchedulerAssumption DEF UpdateTracking, TypeOK
    <3>4. QED
      BY <2>1, <3>1, <3>2, <3>3
  <2>3. jobs' \in [Jobs -> JobRow] /\ UNCHANGED stamp
    BY <2>1 DEF CreateTracking, UpdateTracking, DeleteTracking, TypeOK, TablesTypeOK,
                JobRow, NoRow
  <2>4. QED
    BY <1>1, <2>2, <2>3 DEF Operator, TypeOK, TablesTypeOK, workerVars, AtHand
<1>2. CASE Time
  <2>1. tracking' \in [Trackings -> TrackingRow] /\ UNCHANGED <<jobs, stamp>>
    BY <1>2, RowType DEF Time, BecomeDue, TypeOK, RowStatus
  <2>2. QED
    BY <1>2, <2>1 DEF Time, TypeOK, TablesTypeOK, workerVars, AtHand
<1>3. QED
  BY <1>1, <1>2

LEMMA StepType ==
  ASSUME TypeOK, [Next]_vars
  PROVE  TypeOK'
<1>1. CASE UNCHANGED vars
  BY <1>1 DEF vars, tables, workerVars, TypeOK, TablesTypeOK, AtHand
<1>2. ASSUME NEW w \in Workers, Work(w)
      PROVE  TypeOK'
  BY <1>2, RoundType, QueueType, PipelineType, CompletionType DEF Work
<1>3. QED
  BY <1>1, <1>2, StartType, MishapType, TablesType DEF Next

LEMMA InitType == Init => TypeOK
<1>1. ASSUME Init PROVE TablesTypeOK
  BY <1>1, TablesAssumption DEF Init, TablesInit, TablesTypeOK, TrackingRow, JobRow, NoRow
<1>2. QED
  BY <1>1, SchedulerAssumption
     DEF Init, TypeOK, AtHand, PC, Run, NoRun, Round, NoRound

(* The tables and the workers keep their types, and a worker past a step of  *)
(* queue_sync_job, execute_sync_job or apply_completion holds the job and    *)
(* the tracking that step was to give it.                                    *)
THEOREM TypeCorrect == Spec => []TypeOK
  BY InitType, StepType, PTL DEF Spec
-----------------------------------------------------------------------------
(* What a step of one worker leaves alone *)

LEMMA Frame ==
  ASSUME TypeOK, NEW w \in Workers, Start(w) \/ Work(w) \/ CallFails(w) \/ Abort(w)
  PROVE  \A v \in Workers \ {w} :
           pc'[v] = pc[v] /\ cur'[v] = cur[v] /\ run'[v] = run[v]
<1> DEFINE Others == \A v \in Workers \ {w} :
                       pc'[v] = pc[v] /\ cur'[v] = cur[v] /\ run'[v] = run[v]
<1>1. ASSUME Start(w) PROVE Others
  BY <1>1 DEF Start, StartRound, StartSpecificRound, StartTrigger, StartQueue, StartCron,
              Begin, Goto, TypeOK
<1>2. ASSUME TakeNext(w) \/ EndRound(w) PROVE Others
  BY <1>2 DEF TakeNext, EndRound, Goto, TypeOK
<1>3. ASSUME QueueStep(w) PROVE Others
  BY <1>3 DEF QueueStep, FindActive, CheckTracking, InsertJob, Queued, Leave, Goto, TypeOK
<1>4. ASSUME PipelineStep(w) PROVE Others
  BY <1>4 DEF PipelineStep, LoadJob, Ingest, Collect, Finish, PipelineFails, FallbackFails,
              UseFallback, Goto, TypeOK
<1>5. ASSUME CompletionStep(w) PROVE Others
  BY <1>5 DEF CompletionStep, ReadTracking, WriteTracking, FindLatest, MarkJob, Leave, Goto,
              TypeOK
<1>6. ASSUME CallFails(w) \/ Abort(w) PROVE Others
  BY <1>6 DEF CallFails, Abort, Leave, Goto, TypeOK
<1>7. QED
  BY <1>1, <1>2, <1>3, <1>4, <1>5, <1>6 DEF Work

(* The two tables are only written by the insert of queue_sync_job, by the   *)
(* collector, by the fallback and by the two updates of apply_completion.    *)
LEMMA WhoWrites ==
  ASSUME NEW w \in Workers, Start(w) \/ Work(w) \/ CallFails(w) \/ Abort(w)
  PROVE  \/ UNCHANGED <<tracking, jobs>>
         \/ (InsertJob(w) \/ MarkJob(w)) /\ UNCHANGED tracking
         \/ Collect(w) /\ UNCHANGED jobs
         \/ (\E f \in Fallback : UseFallback(w, f)) /\ UNCHANGED jobs
         \/ WriteTracking(w) /\ UNCHANGED jobs
<1>1. ASSUME Start(w) PROVE UNCHANGED <<tracking, jobs>>
  BY <1>1 DEF Start, StartRound, StartSpecificRound, StartTrigger, StartQueue, StartCron,
              Begin, tables
<1>2. ASSUME TakeNext(w) \/ EndRound(w) \/ FindActive(w) \/ CheckTracking(w)
      PROVE  UNCHANGED <<tracking, jobs>>
  BY <1>2 DEF TakeNext, EndRound, FindActive, CheckTracking, tables
<1>3. ASSUME LoadJob(w) \/ Ingest(w) \/ Finish(w) \/ PipelineFails(w) \/ FallbackFails(w)
      PROVE  UNCHANGED <<tracking, jobs>>
  BY <1>3 DEF LoadJob, Ingest, Finish, PipelineFails, FallbackFails, tables
<1>4. ASSUME ReadTracking(w) \/ FindLatest(w) \/ CallFails(w) \/ Abort(w)
      PROVE  UNCHANGED <<tracking, jobs>>
  BY <1>4 DEF ReadTracking, FindLatest, CallFails, Abort, tables
<1>5. QED
  BY <1>1, <1>2, <1>3, <1>4
     DEF Work, QueueStep, PipelineStep, CompletionStep, InsertJob, MarkJob, Collect,
         UseFallback, WriteTracking
-----------------------------------------------------------------------------
(* No orphan jobs *)

LEMMA NoOrphanStep ==
  ASSUME TypeOK, NoOrphanJob, [Next]_vars
  PROVE  NoOrphanJob'
<1>1. ASSUME UNCHANGED jobs, \A t \in Trackings : Exists(t) => Exists(t)'
      PROVE  NoOrphanJob'
  BY <1>1 DEF NoOrphanJob
<1>2. CASE UNCHANGED <<tracking, jobs>>
  BY <1>1, <1>2 DEF Exists
<1>3. ASSUME NEW w \in Workers, InsertJob(w), UNCHANGED tracking
      PROVE  NoOrphanJob'
  <2>1. cur[w] \in Trackings
    BY <1>3 DEF InsertJob, At, TypeOK, AtHand
  <2>2. CASE UNCHANGED jobs
    BY <1>2, <1>3, <2>2
  <2>3. CASE Exists(cur[w]) /\ InsertJobRow(run[w].job, cur[w])
    BY <1>3, <2>1, <2>3 DEF InsertJobRow, NoOrphanJob, Exists, TypeOK, TablesTypeOK
  <2>4. QED
    BY <1>3, <2>2, <2>3 DEF InsertJob
<1>4. ASSUME NEW w \in Workers, MarkJob(w), UNCHANGED tracking
      PROVE  NoOrphanJob'
  BY <1>2, <1>4 DEF MarkJob, SetJobStatus, NoOrphanJob, Exists, TypeOK, TablesTypeOK, JobRow
<1>5. ASSUME NEW w \in Workers, UNCHANGED jobs,
             Collect(w) \/ WriteTracking(w) \/ \E f \in Fallback : UseFallback(w, f)
      PROVE  NoOrphanJob'
  BY <1>1, <1>5
     DEF Collect, WriteSyncTime, WriteTracking, WriteOutcome, UseFallback, Exists, RowStatus,
         TypeOK, TablesTypeOK, TrackingRow
<1>6. ASSUME Operator PROVE NoOrphanJob'
  <2>1. PICK t \in Trackings : \/ DeleteTracking(t)
                               \/ \E s \in OperatorStatus \cup {"active"} : CreateTracking(t, s)
                               \/ \E s \in OperatorStatus : UpdateTracking(t, s)
    BY <1>6 DEF Operator
  <2>2. CASE \/ \E s \in OperatorStatus \cup {"active"} : CreateTracking(t, s)
            \/ \E s \in OperatorStatus : UpdateTracking(t, s)
    BY <1>1, <2>2, SchedulerAssumption
       DEF CreateTracking, UpdateTracking, Exists, RowStatus, TypeOK, TablesTypeOK, TrackingRow
  <2>3. CASE DeleteTracking(t)
    BY <2>3 DEF DeleteTracking, RowsOf, NoRow, NoOrphanJob, Exists, TypeOK, TablesTypeOK
  <2>4. QED
    BY <2>1, <2>2, <2>3
<1>7. ASSUME Time PROVE NoOrphanJob'
  BY <1>1, <1>7 DEF Time, BecomeDue, Exists, TypeOK, TablesTypeOK, TrackingRow
<1>8. CASE UNCHANGED vars
  BY <1>2, <1>8 DEF vars, tables
<1>9. QED
  BY <1>2, <1>3, <1>4, <1>5, <1>6, <1>7, <1>8, WhoWrites DEF Next

(* A job row always belongs to a tracking that is still there, however the   *)
(* deletion of a tracking and the insert of a job interleave.                *)
THEOREM NoOrphans == Spec => []NoOrphanJob
<1>1. Init => NoOrphanJob
  BY DEF Init, TablesInit, NoOrphanJob, NoRow
<1>2. TypeOK /\ NoOrphanJob /\ [Next]_vars => NoOrphanJob'
  BY NoOrphanStep
<1>3. QED
  BY <1>1, <1>2, TypeCorrect, PTL DEF Spec
-----------------------------------------------------------------------------
(* A pause sticks *)

LEMMA QuietStep ==
  ASSUME TypeOK, Next, NEW t \in Trackings, Quiet(t)
  PROVE  Quiet(t)' \/ OperatorWrites(t)
<1> DEFINE Kept == tracking'[t].status = tracking[t].status
<1>1. ASSUME Kept, \A w \in Workers : ~InFlight(w, t)'
      PROVE  Quiet(t)'
  BY <1>1 DEF Quiet, Held
<1>2. ASSUME NEW w \in Workers, Kept, ~InFlight(w, t)',
             Start(w) \/ Work(w) \/ CallFails(w) \/ Abort(w)
      PROVE  Quiet(t)'
  BY <1>1, <1>2, Frame DEF Quiet, InFlight
<1>3. ASSUME NEW w \in Workers, Start(w) \/ Work(w) \/ CallFails(w) \/ Abort(w)
      PROVE  Kept
  <2>1. CASE Collect(w)
    BY <2>1 DEF Collect, At, WriteSyncTime, Quiet, InFlight, TypeOK, TablesTypeOK
  <2>2. CASE WriteTracking(w)
    BY <2>2 DEF WriteTracking, At, WriteOutcome, Quiet, InFlight, TypeOK, TablesTypeOK,
                TrackingRow
  <2>3. ASSUME NEW f \in Fallback, UseFallback(w, f) PROVE Kept
    BY <2>3 DEF UseFallback, Exists, Quiet, Held, HeldStatus, RowStatus, TypeOK, TablesTypeOK
  <2>4. QED
    BY <1>3, <2>1, <2>2, <2>3, WhoWrites
<1>4. ASSUME NEW w \in Workers, Start(w) \/ Work(w) \/ CallFails(w) \/ Abort(w)
      PROVE  ~InFlight(w, t)'
  <2>1. pc'[w] = "collect" => run'[w].src # t
    BY <1>4
       DEF Start, StartRound, StartSpecificRound, StartTrigger, StartQueue, StartCron, Begin,
           Work, TakeNext, EndRound, QueueStep, FindActive, CheckTracking, InsertJob, Queued,
           PipelineStep, LoadJob, Ingest, Collect, Finish, PipelineFails, FallbackFails,
           UseFallback, CompletionStep, ReadTracking, WriteTracking, FindLatest, MarkJob,
           CallFails, Abort, Leave, Goto, At, Quiet, InFlight, TypeOK
  <2>2. CASE ReadTracking(w)
    <3>1. pc'[w] = "write" => cur'[w] = cur[w] /\ run'[w].keep = Held(cur[w])
      BY <2>2 DEF ReadTracking, Leave, Goto, TypeOK, Run
    <3>2. QED
      BY <2>1, <3>1 DEF InFlight, Quiet
  <2>3. CASE ~ReadTracking(w)
    <3>1. pc'[w] # "write"
      BY <1>4, <2>3
         DEF Start, StartRound, StartSpecificRound, StartTrigger, StartQueue, StartCron, Begin,
             Work, TakeNext, EndRound, QueueStep, FindActive, CheckTracking, InsertJob, Queued,
             PipelineStep, LoadJob, Ingest, Collect, Finish, PipelineFails, FallbackFails,
             UseFallback, CompletionStep, WriteTracking, FindLatest, MarkJob, CallFails, Abort,
             Leave, Goto, At, TypeOK
    <3>2. QED
      BY <2>1, <3>1 DEF InFlight
  <2>4. QED
    BY <2>2, <2>3
<1>5. ASSUME Operator \/ Time
      PROVE  Quiet(t)' \/ OperatorWrites(t)
  <2>1. \A w \in Workers : ~InFlight(w, t)'
    BY <1>5 DEF Operator, Time, workerVars, Quiet, InFlight
  <2>2. Kept \/ OperatorWrites(t)
    BY <1>5 DEF Operator, Time, CreateTracking, UpdateTracking, DeleteTracking, BecomeDue,
                OperatorWrites, Quiet, Held, HeldStatus, TypeOK, TablesTypeOK, TrackingRow
  <2>3. QED
    BY <1>1, <2>1, <2>2
<1>6. QED
  BY <1>2, <1>3, <1>4, <1>5 DEF Next

(* Once a tracking is paused or archived and no worker is past its checks of *)
(* it, only an operator changes that, for any number of rounds and requests. *)
THEOREM PausesStick == Spec => PauseSticks
<1>1. TypeOK /\ [Next]_vars =>
        [\A t \in Trackings : Quiet(t) => Quiet(t)' \/ OperatorWrites(t)]_vars
  BY QuietStep
<1>2. QED
  BY <1>1, TypeCorrect, PTL DEF Spec, PauseSticks
-----------------------------------------------------------------------------
(* Active jobs are bounded *)

(* workers past the look for an active job of t that may still insert one    *)
Inserting(t) == {w \in Workers : pc[w] \in {"check", "insert"} /\ cur[w] = t}

(* The inductive form of ActiveBound: a worker on its way to an insert has   *)
(* room for the row it will add.                                             *)
InsertBound ==
  \A t \in Trackings :
    Cardinality(OpenRows(t)) + Cardinality(Inserting(t)) <= Cardinality(Workers)

LEMMA SetsFinite ==
  ASSUME NEW t
  PROVE  /\ IsFiniteSet(Workers) /\ Cardinality(Workers) \in Nat
         /\ IsFiniteSet(OpenRows(t)) /\ Cardinality(OpenRows(t)) \in Nat
         /\ IsFiniteSet(Inserting(t)) /\ Cardinality(Inserting(t)) \in Nat
         /\ Cardinality(Inserting(t)) <= Cardinality(Workers)
<1>1. IsFiniteSet(Workers)
  BY SchedulerAssumption
<1>2. OpenRows(t) \in SUBSET Jobs
  BY DEF OpenRows
<1>3. Inserting(t) \in SUBSET Workers
  BY DEF Inserting
<1>4. QED
  BY <1>1, <1>2, <1>3, JobsFinite, FS_Subset, FS_CardinalityType

LEMMA SetsFinitePrime ==
  ASSUME NEW t
  PROVE  /\ IsFiniteSet(OpenRows(t)') /\ Cardinality(OpenRows(t)') \in Nat
         /\ IsFiniteSet(Inserting(t)') /\ Cardinality(Inserting(t)') \in Nat
         /\ Cardinality(Inserting(t)') <= Cardinality(Workers)
<1>1. OpenRows(t)' \in SUBSET Jobs
  BY DEF OpenRows
<1>2. Inserting(t)' \in SUBSET Workers
  BY DEF Inserting
<1>3. QED
  BY <1>1, <1>2, JobsFinite, SchedulerAssumption, FS_Subset, FS_CardinalityType

(* Neither set of t grows.                                                   *)
LEMMA Shrinks ==
  ASSUME InsertBound, NEW t \in Trackings,
         OpenRows(t)' \subseteq OpenRows(t), Inserting(t)' \subseteq Inserting(t)
  PROVE  Cardinality(OpenRows(t)') + Cardinality(Inserting(t)') <= Cardinality(Workers)
<1>1. Cardinality(OpenRows(t)') <= Cardinality(OpenRows(t))
  BY SetsFinite, FS_Subset
<1>2. Cardinality(Inserting(t)') <= Cardinality(Inserting(t))
  BY SetsFinite, FS_Subset
<1>3. QED
  BY <1>1, <1>2, SetsFinite, SetsFinitePrime DEF InsertBound

(* A worker trades its place in Inserting(t) for a row.                      *)
LEMMA Trades ==
  ASSUME InsertBound, NEW t \in Trackings, NEW j, NEW w \in Inserting(t),
         OpenRows(t)' \subseteq OpenRows(t) \cup {j},
         Inserting(t)' \subseteq Inserting(t) \ {w}
  PROVE  Cardinality(OpenRows(t)') + Cardinality(Inserting(t)') <= Cardinality(Workers)
<1>1. Cardinality(Inserting(t) \ {w}) = Cardinality(Inserting(t)) - 1
      /\ IsFiniteSet(Inserting(t) \ {w})
  BY SetsFinite, FS_RemoveElement
<1>2. Cardinality(Inserting(t)') <= Cardinality(Inserting(t) \ {w})
  BY <1>1, FS_Subset
<1>3. Cardinality(OpenRows(t) \cup {j}) <= Cardinality(OpenRows(t)) + 1
      /\ IsFiniteSet(OpenRows(t) \cup {j})
  <2> DEFINE S == OpenRows(t)
  <2>1. IsFiniteSet(S) /\ Cardinality(S) \in Nat
    BY SetsFinite
  <2> HIDE DEF S
  <2>2. IsFiniteSet(S \cup {j}) /\ (Cardinality(S \cup {j}) = Cardinality(S)
                                   \/ Cardinality(S \cup {j}) = Cardinality(S) + 1)
    BY <2>1, FS_AddElement
  <2>3. QED
    BY <2>1, <2>2 DEF S
<1>4. Cardinality(OpenRows(t)') <= Cardinality(OpenRows(t) \cup {j})
  BY <1>3, FS_Subset
<1>5. Cardinality(OpenRows(t) \cup {j}) \in Nat
  BY <1>3, FS_CardinalityType
<1>6. QED
  BY <1>1, <1>2, <1>3, <1>4, <1>5, SetsFinite, SetsFinitePrime DEF InsertBound

LEMMA NoneOpen ==
  ASSUME NEW t, OpenRows(t)' = {}
  PROVE  Cardinality(OpenRows(t)') + Cardinality(Inserting(t)') <= Cardinality(Workers)
<1>1. Cardinality(OpenRows(t)') = 0
  BY FS_EmptySet
<1>2. QED
  BY <1>1, SetsFinite, SetsFinitePrime

LEMMA InsertBoundStep ==
  ASSUME TypeOK, InsertBound, [Next]_vars
  PROVE  InsertBound'
<1> SUFFICES ASSUME NEW t \in Trackings
             PROVE  Cardinality(OpenRows(t)') + Cardinality(Inserting(t)')
                      <= Cardinality(Workers)
  BY DEF InsertBound
<1> DEFINE Few == OpenRows(t)' \subseteq OpenRows(t)
           Calm == Inserting(t)' \subseteq Inserting(t)
<1>1. CASE UNCHANGED vars
  <2>1. Few /\ Calm
    BY <1>1 DEF vars, tables, workerVars, OpenRows, Inserting
  <2>2. QED
    BY <2>1, Shrinks
<1>2. ASSUME Operator \/ Time PROVE Few /\ Calm
  BY <1>2 DEF Operator, Time, CreateTracking, UpdateTracking, DeleteTracking, BecomeDue,
              workerVars, OpenRows, Inserting, RowsOf, NoRow, TypeOK, TablesTypeOK
<1>3. ASSUME NEW w \in Workers, Start(w) \/ Work(w) \/ CallFails(w) \/ Abort(w),
             ~InsertJob(w)
      PROVE  Few
  <2>1. CASE UNCHANGED jobs
    BY <2>1 DEF OpenRows
  <2>2. CASE MarkJob(w)
    BY <2>2 DEF MarkJob, SetJobStatus, JobStatusOf, OpenRows, TypeOK, TablesTypeOK, JobRow
  <2>3. QED
    BY <1>3, <2>1, <2>2, WhoWrites
<1>4. ASSUME NEW w \in Workers, Start(w) \/ Work(w) \/ CallFails(w) \/ Abort(w),
             ~FindActive(w)
      PROVE  Calm
  <2>1. pc'[w] \in {"check", "insert"} => pc[w] \in {"check", "insert"} /\ cur'[w] = cur[w]
    BY <1>4
       DEF Start, StartRound, StartSpecificRound, StartTrigger, StartQueue, StartCron, Begin,
           Work, TakeNext, EndRound, QueueStep, CheckTracking, InsertJob, Queued,
           PipelineStep, LoadJob, Ingest, Collect, Finish, PipelineFails, FallbackFails,
           UseFallback, CompletionStep, ReadTracking, WriteTracking, FindLatest, MarkJob,
           CallFails, Abort, Leave, Goto, At, TypeOK
  <2>2. QED
    BY <1>4, <2>1, Frame DEF Inserting
<1>5. ASSUME NEW w \in Workers, InsertJob(w)
      PROVE  Cardinality(OpenRows(t)') + Cardinality(Inserting(t)') <= Cardinality(Workers)
  <2>1. Calm
    BY <1>4, <1>5 DEF Work, QueueStep, FindActive, InsertJob, At
  <2>2. CASE UNCHANGED jobs \/ cur[w] # t
    <3>1. Few
      BY <1>5, <2>2 DEF InsertJob, InsertJobRow, OpenRows, TypeOK, TablesTypeOK
    <3>2. QED
      BY <2>1, <3>1, Shrinks
  <2>3. CASE cur[w] = t /\ jobs' # jobs
    <3>1. w \in Inserting(t)
      BY <1>5, <2>3 DEF InsertJob, At, Inserting
    <3>2. w \notin Inserting(t)'
      BY <1>5 DEF InsertJob, Queued, Leave, Goto, Inserting, TypeOK
    <3>3. OpenRows(t)' \subseteq OpenRows(t) \cup {run[w].job}
      BY <1>5 DEF InsertJob, InsertJobRow, OpenRows, TypeOK, TablesTypeOK
    <3>4. QED
      BY <2>1, <3>1, <3>2, <3>3, Trades
  <2>4. QED
    BY <2>2, <2>3
<1>6. ASSUME NEW w \in Workers, FindActive(w)
      PROVE  Cardinality(OpenRows(t)') + Cardinality(Inserting(t)') <= Cardinality(Workers)
  <2>1. OpenRows(t)' = OpenRows(t)
    BY <1>6 DEF FindActive, tables, OpenRows
  <2>2. CASE cur[w] = t /\ ActiveJobs(t) = {}
    <3>1. OpenRows(t) = {}
      BY <2>2 DEF ActiveJobs, RowsOf, OpenRows
    <3>2. QED
      BY <2>1, <3>1, NoneOpen
  <2>3. CASE cur[w] # t \/ ActiveJobs(t) # {}
    <3>1. pc'[w] \in {"check", "insert"} => cur'[w] # t
      BY <1>6, <2>3 DEF FindActive, Queued, Leave, Goto, TypeOK
    <3>2. Calm
      BY <1>6, <3>1, Frame DEF Work, QueueStep, Inserting
    <3>3. QED
      BY <2>1, <3>2, Shrinks
  <2>4. QED
    BY <2>2, <2>3
<1>7. QED
  BY <1>1, <1>2, <1>3, <1>4, <1>5, <1>6, Shrinks DEF Next

(* Concurrent requests may each insert a job, but a tracking never has more  *)
(* active jobs than there are futures that queue, over crashes and retries.  *)
THEOREM ActiveJobsBounded == Spec => []ActiveBound
<1>1. Init => InsertBound
  <2>1. ASSUME Init, NEW t \in Trackings PROVE OpenRows(t) = {} /\ Inserting(t) = {}
    BY <2>1 DEF Init, TablesInit, NoRow, OpenRows, Inserting
  <2>2. Cardinality({}) = 0 /\ Cardinality(Workers) \in Nat
    BY FS_EmptySet, SchedulerAssumption, FS_CardinalityType
  <2>3. QED
    BY <2>1, <2>2 DEF InsertBound
<1>2. TypeOK /\ InsertBound /\ [Next]_vars => InsertBound'
  BY InsertBoundStep
<1>3. InsertBound => ActiveBound
  BY SetsFinite DEF InsertBound, ActiveBound
<1>4. QED
  BY <1>1, <1>2, <1>3, TypeCorrect, PTL DEF Spec

(* A program that queues from one future only, a scheduler without HTTP      *)
(* requests, never has two pending or running jobs of a tracking.            *)
THEOREM OneWorkerOneJob ==
  ASSUME Cardinality(Workers) = 1
  PROVE  Spec => []OneActiveJob
<1>1. ActiveBound => OneActiveJob
  BY DEF ActiveBound, OneActiveJob
<1>2. QED
  BY <1>1, ActiveJobsBounded, PTL
-----------------------------------------------------------------------------
(* One worker *)

\* labels between the choice of a job and the update of its row
Executing == {"load", "ingest", "collect", "diff", "finish", "complete", "write", "latest"}
Attempting == (Executing \ {"load"}) \cup {"mark"}

\* a stamp is taken for one insert, and no row is later than it
InsertIsNext ==
  /\ \A j \in Jobs : jobs[j].status # "absent" => j <= stamp
  /\ \A w \in Workers : pc[w] = "insert" =>
       /\ run[w].job = stamp
       /\ \A j \in Jobs : jobs[j].status # "absent" => j < stamp

\* no job is queued while an earlier one is open
OpenIsLast == \A t \in Trackings : \A j \in OpenRows(t) : \A k \in RowsOf(t) : k <= j
InsertFindsNone ==
  \A w \in Workers : pc[w] \in {"check", "insert"} => OpenRows(cur[w]) = {}

\* the job at hand is the latest one of its tracking, unless all are gone
JobIsLatest ==
  \A w \in Workers : pc[w] \in Executing =>
    /\ RowsOf(cur[w]) = {} \/ run[w].job \in RowsOf(cur[w])
    /\ \A k \in RowsOf(cur[w]) : k <= run[w].job

AttemptRecorded == \A w \in Workers : pc[w] \in Attempting => run[w].job \in attempted

(* The inductive form of FinishedWasAttempted for one worker.                *)
OneWorkerInv ==
  /\ TypeOK
  /\ NoOrphanJob
  /\ InsertIsNext
  /\ OpenIsLast
  /\ InsertFindsNone
  /\ JobIsLatest
  /\ AttemptRecorded
  /\ FinishedWasAttempted

LEMMA SoleWorker ==
  ASSUME Cardinality(Workers) = 1, NEW v \in Workers, NEW w \in Workers
  PROVE  v = w
<1>1. PICK x : Workers = {x}
  BY SchedulerAssumption, FS_Singleton
<1>2. QED
  BY <1>1

(* Every change of a stamp, of the job at hand and of the record of attempts *)
(* that the invariant is about.                                              *)
LEMMA Moves ==
  ASSUME TypeOK, NEW w \in Workers, Start(w) \/ Work(w) \/ CallFails(w) \/ Abort(w)
  PROVE  /\ attempted \subseteq attempted'
         /\ IF pc'[w] = "insert"
            THEN CheckTracking(w) /\ stamp' = stamp + 1 /\ run'[w].job = stamp + 1
            ELSE stamp' = stamp
         /\ pc'[w] = "check" => FindActive(w) /\ cur'[w] = cur[w] /\ ActiveJobs(cur[w]) = {}
         /\ pc'[w] = "insert" => pc[w] = "check" /\ cur'[w] = cur[w] /\ UNCHANGED jobs
         /\ pc'[w] \in Executing =>
              /\ cur'[w] = cur[w]
              /\ \/ pc[w] \in Executing /\ run'[w].job = run[w].job /\ UNCHANGED jobs
                 \/ /\ FindActive(w) /\ ActiveJobs(cur[w]) # {} /\ UNCHANGED jobs
                    /\ run'[w].job = Newest(ActiveJobs(cur[w]))
                 \/ /\ InsertJob(w) /\ InsertJobRow(run[w].job, cur[w])
                    /\ run'[w].job = run[w].job
         /\ pc'[w] \in Attempting =>
              \/ run'[w].job = run[w].job /\ (pc[w] \in Attempting \/ run[w].job \in attempted')
              \/ /\ FindLatest(w) /\ RowsOf(cur[w]) # {}
                 /\ run'[w].job = Newest(RowsOf(cur[w]))
<1> USE DEF Executing, Attempting
<1>1. CASE Start(w)
  BY <1>1 DEF Start, StartRound, StartSpecificRound, StartTrigger, StartQueue, StartCron,
              Begin, Goto, tables, TypeOK
<1>2. CASE TakeNext(w) \/ EndRound(w)
  <2>1. pc'[w] \in {"find", "idle"} /\ UNCHANGED <<stamp, attempted>>
    BY <1>2 DEF TakeNext, EndRound, Goto, tables, TypeOK
  <2>2. QED
    BY <2>1
<1>3. CASE FindActive(w)
  <2>1. UNCHANGED <<jobs, stamp, attempted>>
    BY <1>3 DEF FindActive, tables
  <2>2. CASE ActiveJobs(cur[w]) = {}
    <3>1. pc'[w] = "check" /\ cur'[w] = cur[w]
      BY <1>3, <2>2 DEF FindActive, Goto, TypeOK
    <3>2. QED
      BY <1>3, <2>1, <2>2, <3>1
  <2>3. CASE ActiveJobs(cur[w]) # {}
    <3>1. pc'[w] = "next" \/ /\ pc'[w] = "load" /\ cur'[w] = cur[w]
                             /\ run'[w].job = Newest(ActiveJobs(cur[w]))
      BY <1>3, <2>3 DEF FindActive, Queued, Leave, Goto, TypeOK, Run
    <3>2. QED
      BY <1>3, <2>1, <2>3, <3>1
  <2>4. QED
    BY <2>2, <2>3
<1>4. CASE CheckTracking(w)
  <2>1. UNCHANGED <<jobs, attempted>>
    BY <1>4 DEF CheckTracking
  <2>2. \/ pc'[w] = "next" /\ UNCHANGED stamp
        \/ /\ pc'[w] = "insert" /\ stamp' = stamp + 1 /\ run'[w].job = stamp + 1
           /\ pc[w] = "check" /\ cur'[w] = cur[w]
    BY <1>4 DEF CheckTracking, TakeStamp, Leave, Goto, At, TypeOK, Run
  <2>3. QED
    BY <1>4, <2>1, <2>2
<1>5. CASE InsertJob(w)
  <2>1. UNCHANGED <<stamp, attempted>>
    BY <1>5 DEF InsertJob
  <2>2. \/ pc'[w] = "next"
        \/ /\ pc'[w] = "load" /\ cur'[w] = cur[w] /\ run'[w].job = run[w].job
           /\ InsertJobRow(run[w].job, cur[w])
    BY <1>5 DEF InsertJob, Queued, Leave, Goto, TypeOK, Run
  <2>3. QED
    BY <1>5, <2>1, <2>2
<1>6. CASE LoadJob(w) \/ PipelineFails(w)
  <2>1. run[w].job \in Jobs
    BY <1>6 DEF LoadJob, PipelineFails, At, TypeOK, AtHand
  <2>2. QED
    BY <1>6, <2>1 DEF LoadJob, PipelineFails, Goto, At, tables, TypeOK, Run
<1>7. CASE Ingest(w) \/ Collect(w) \/ Finish(w) \/ FallbackFails(w)
           \/ \E f \in Fallback : UseFallback(w, f)
  BY <1>7 DEF Ingest, Collect, Finish, FallbackFails, UseFallback, Goto, At, tables,
              TypeOK, Run
<1>8. CASE ReadTracking(w) \/ WriteTracking(w)
  BY <1>8 DEF ReadTracking, WriteTracking, Leave, Goto, At, tables, TypeOK, Run
<1>9. CASE FindLatest(w)
  BY <1>9 DEF FindLatest, Leave, Goto, At, tables, TypeOK, Run
<1>10. CASE MarkJob(w) \/ CallFails(w) \/ Abort(w)
  BY <1>10 DEF MarkJob, CallFails, Abort, Leave, Goto, tables, TypeOK
<1>11. QED
  BY <1>1, <1>2, <1>3, <1>4, <1>5, <1>6, <1>7, <1>8, <1>9, <1>10
     DEF Work, QueueStep, PipelineStep, CompletionStep

(* What a step may do to the rows: add the row a worker was to insert, close *)
(* the row a worker was to mark, or drop every row of one tracking.          *)
LEMMA RowSteps ==
  ASSUME TypeOK, [Next]_vars
  PROVE  \/ UNCHANGED jobs
         \/ \E w \in Workers : /\ InsertJob(w) /\ UNCHANGED stamp
                               /\ InsertJobRow(run[w].job, cur[w])
         \/ \E w \in Workers : /\ MarkJob(w) /\ jobs[run[w].job].status # "absent"
                               /\ SetJobStatus(run[w].job, JobStatusOf(ResultOf(run[w].verdict)))
         \/ \E t \in Trackings : DeleteTracking(t) /\ UNCHANGED <<workerVars, attempted>>
<1>1. CASE UNCHANGED vars
  BY <1>1 DEF vars, tables
<1>2. CASE Operator \/ Time
  BY <1>2 DEF Operator, Time, CreateTracking, UpdateTracking, BecomeDue
<1>3. ASSUME NEW w \in Workers, Start(w) \/ Work(w) \/ CallFails(w) \/ Abort(w),
             ~UNCHANGED jobs
      PROVE  \/ /\ InsertJob(w) /\ UNCHANGED stamp
                /\ InsertJobRow(run[w].job, cur[w])
             \/ /\ MarkJob(w) /\ jobs[run[w].job].status # "absent"
                /\ SetJobStatus(run[w].job, JobStatusOf(ResultOf(run[w].verdict)))
  BY <1>3, WhoWrites DEF InsertJob, MarkJob
<1>4. QED
  BY <1>1, <1>2, <1>3 DEF Next

(* The rows of a tracking after each of these writes.                        *)
LEMMA RowsAfter ==
  ASSUME TypeOK, NEW t
  PROVE  /\ UNCHANGED jobs => RowsOf(t)' = RowsOf(t) /\ OpenRows(t)' = OpenRows(t)
         /\ \A j \in Jobs, u \in Trackings :
              InsertJobRow(j, u) /\ jobs[j].status = "absent" =>
                IF t = u THEN /\ RowsOf(t)' = RowsOf(t) \cup {j}
                              /\ OpenRows(t)' = OpenRows(t) \cup {j}
                ELSE RowsOf(t)' = RowsOf(t) /\ OpenRows(t)' = OpenRows(t)
         /\ \A j \in Jobs, s \in {"succeeded", "failed"} :
              SetJobStatus(j, s) /\ jobs[j].status # "absent" =>
                RowsOf(t)' = RowsOf(t) /\ OpenRows(t)' = OpenRows(t) \ {j}
         /\ \A u \in Trackings : DeleteTracking(u) =>
              IF t = u THEN RowsOf(t)' = {} /\ OpenRows(t)' = {}
              ELSE t \in Trackings => RowsOf(t)' = RowsOf(t) /\ OpenRows(t)' = OpenRows(t)
<1> USE DEF RowsOf, OpenRows
<1>0. jobs \in [Jobs -> JobRow]
  BY DEF TypeOK, TablesTypeOK
<1>1. UNCHANGED jobs => RowsOf(t)' = RowsOf(t) /\ OpenRows(t)' = OpenRows(t)
  OBVIOUS
<1>2. ASSUME NEW j \in Jobs, NEW u \in Trackings, InsertJobRow(j, u), jobs[j].status = "absent"
      PROVE  IF t = u THEN /\ RowsOf(t)' = RowsOf(t) \cup {j}
                           /\ OpenRows(t)' = OpenRows(t) \cup {j}
             ELSE RowsOf(t)' = RowsOf(t) /\ OpenRows(t)' = OpenRows(t)
  <2>1. jobs'[j] = [tracking_id |-> u, status |-> "pending"]
        /\ \A k \in Jobs \ {j} : jobs'[k] = jobs[k]
    BY <1>0, <1>2 DEF InsertJobRow
  <2>2. j \notin RowsOf(t) /\ j \notin OpenRows(t)
    BY <1>2
  <2>3. QED
    BY <2>1, <2>2
<1>3. ASSUME NEW j \in Jobs, NEW s \in {"succeeded", "failed"}, SetJobStatus(j, s),
             jobs[j].status # "absent"
      PROVE  RowsOf(t)' = RowsOf(t) /\ OpenRows(t)' = OpenRows(t) \ {j}
  <2>1. jobs'[j].status = s /\ jobs'[j].tracking_id = jobs[j].tracking_id
        /\ \A k \in Jobs \ {j} : jobs'[k] = jobs[k]
    BY <1>0, <1>3 DEF SetJobStatus, JobRow
  <2>2. QED
    BY <1>3, <2>1
<1>4. ASSUME NEW u \in Trackings, DeleteTracking(u)
      PROVE  IF t = u THEN RowsOf(t)' = {} /\ OpenRows(t)' = {}
             ELSE t \in Trackings => RowsOf(t)' = RowsOf(t) /\ OpenRows(t)' = OpenRows(t)
  <2>1. \A k \in Jobs : jobs'[k] = IF k \in RowsOf(u) THEN NoRow ELSE jobs[k]
    BY <1>4 DEF DeleteTracking
  <2>2. CASE t = u
    BY <2>1, <2>2 DEF NoRow
  <2>3. CASE t # u
    BY <2>1, <2>3 DEF NoRow
  <2>4. QED
    BY <2>2, <2>3
<1>5. QED
  BY <1>1, <1>2, <1>3, <1>4
LEMMA StepKinds ==
  ASSUME TypeOK, [Next]_vars
  PROVE  \/ \E w \in Workers : Start(w) \/ Work(w) \/ CallFails(w) \/ Abort(w)
         \/ /\ UNCHANGED <<workerVars, stamp, attempted>>
            /\ UNCHANGED jobs \/ \E t \in Trackings : DeleteTracking(t)
BY DEF Next, Operator, Time, CreateTracking, UpdateTracking, DeleteTracking, BecomeDue,
       vars, tables

LEMMA InsertIsNextStep ==
  ASSUME Cardinality(Workers) = 1, OneWorkerInv, [Next]_vars
  PROVE  InsertIsNext'
<1> USE DEF OneWorkerInv
<1>0. stamp \in Nat /\ jobs \in [Jobs -> JobRow] /\ \A j \in Jobs : j \in Nat
  BY DEF TypeOK, TablesTypeOK, Jobs
<1>1. \A j \in Jobs : jobs'[j].status # "absent" =>
        \/ jobs[j].status # "absent"
        \/ \E w \in Workers : InsertJob(w) /\ UNCHANGED stamp /\ j = run[w].job
  <2>1. ASSUME NEW w \in Workers, InsertJobRow(run[w].job, cur[w]), InsertJob(w)
        PROVE  \A j \in Jobs \ {run[w].job} : jobs'[j] = jobs[j]
    BY <1>0, <2>1 DEF InsertJobRow
  <2>2. ASSUME NEW w \in Workers, NEW s, SetJobStatus(run[w].job, s)
        PROVE  \A j \in Jobs \ {run[w].job} : jobs'[j] = jobs[j]
    BY <1>0, <2>2 DEF SetJobStatus
  <2>3. ASSUME NEW t \in Trackings, DeleteTracking(t)
        PROVE  \A j \in Jobs : jobs'[j] \in {jobs[j], NoRow}
    BY <2>3 DEF DeleteTracking
  <2>4. QED
    BY <2>1, <2>2, <2>3, RowSteps DEF NoRow
<1>2. CASE /\ UNCHANGED <<workerVars, stamp, attempted>>
           /\ UNCHANGED jobs \/ \E t \in Trackings : DeleteTracking(t)
  <2>1. \A w \in Workers : ~(InsertJob(w) /\ UNCHANGED pc)
    BY DEF InsertJob, At, Queued, Leave, Goto, TypeOK
  <2>2. \A j \in Jobs : jobs'[j].status # "absent" => jobs[j].status # "absent"
    BY <1>1, <1>2, <2>1 DEF workerVars
  <2>3. QED
    BY <1>2, <2>2 DEF InsertIsNext, workerVars
<1>3. ASSUME NEW w \in Workers, Start(w) \/ Work(w) \/ CallFails(w) \/ Abort(w)
      PROVE  InsertIsNext'
  <2>1. \A v \in Workers : v = w
    BY SoleWorker
  <2>2. CASE pc'[w] = "insert"
    <3>1. UNCHANGED jobs /\ stamp' = stamp + 1 /\ run'[w].job = stamp + 1
      BY <1>3, <2>2, Moves
    <3>2. QED
      BY <1>0, <2>1, <3>1 DEF InsertIsNext
  <2>3. CASE pc'[w] # "insert"
    <3>1. stamp' = stamp
      BY <1>3, <2>3, Moves
    <3>2. InsertJob(w) => run[w].job = stamp
      BY DEF InsertJob, At, InsertIsNext
    <3>3. QED
      BY <1>0, <1>1, <2>1, <2>3, <3>1, <3>2 DEF InsertIsNext
  <2>4. QED
    BY <2>2, <2>3
<1>4. QED
  BY <1>2, <1>3, StepKinds

LEMMA OpenIsLastStep ==
  ASSUME OneWorkerInv, [Next]_vars
  PROVE  OpenIsLast'
<1> USE DEF OneWorkerInv
<1> SUFFICES ASSUME NEW t \in Trackings, NEW j \in OpenRows(t)', NEW k \in RowsOf(t)'
             PROVE  k <= j
  BY DEF OpenIsLast
<1>0. \A x \in Jobs : x \in Nat
  BY DEF Jobs
<1>1. CASE UNCHANGED jobs
  BY <1>1, RowsAfter DEF OpenIsLast
<1>2. ASSUME NEW w \in Workers, InsertJob(w), InsertJobRow(run[w].job, cur[w])
      PROVE  k <= j
  <2>1. /\ cur[w] \in Trackings /\ run[w].job \in Jobs /\ OpenRows(cur[w]) = {}
        /\ \A x \in Jobs : jobs[x].status # "absent" => x < run[w].job
    BY <1>2 DEF InsertJob, At, TypeOK, AtHand, InsertFindsNone, InsertIsNext
  <2>2. jobs[run[w].job].status = "absent"
    BY <1>0, <2>1
  <2>3. CASE t = cur[w]
    <3>1. OpenRows(t)' = {run[w].job} /\ RowsOf(t)' = RowsOf(t) \cup {run[w].job}
      BY <1>2, <2>1, <2>2, <2>3, RowsAfter
    <3>2. \A x \in RowsOf(t) : x < run[w].job
      BY <2>1 DEF RowsOf
    <3>3. QED
      BY <1>0, <2>1, <3>1, <3>2 DEF RowsOf
  <2>4. CASE t # cur[w]
    BY <1>2, <2>1, <2>2, <2>4, RowsAfter DEF OpenIsLast
  <2>5. QED
    BY <2>3, <2>4
<1>3. ASSUME NEW w \in Workers, MarkJob(w), jobs[run[w].job].status # "absent",
             SetJobStatus(run[w].job, JobStatusOf(ResultOf(run[w].verdict)))
      PROVE  k <= j
  <2>1. run[w].job \in Jobs
    BY <1>3 DEF MarkJob, At, TypeOK, AtHand
  <2>2. JobStatusOf(ResultOf(run[w].verdict)) \in {"succeeded", "failed"}
    BY DEF JobStatusOf
  <2>3. QED
    BY <1>3, <2>1, <2>2, RowsAfter DEF OpenIsLast
<1>4. ASSUME NEW u \in Trackings, DeleteTracking(u)
      PROVE  k <= j
  BY <1>4, RowsAfter DEF OpenIsLast
<1>5. QED
  BY <1>1, <1>2, <1>3, <1>4, RowSteps

LEMMA InsertFindsNoneStep ==
  ASSUME Cardinality(Workers) = 1, OneWorkerInv, [Next]_vars
  PROVE  InsertFindsNone'
<1> USE DEF OneWorkerInv
<1>1. CASE /\ UNCHANGED <<workerVars, stamp, attempted>>
           /\ UNCHANGED jobs \/ \E t \in Trackings : DeleteTracking(t)
  <2>1. ASSUME NEW w \in Workers, pc[w] \in {"check", "insert"}, NEW t, t = cur[w]
        PROVE  OpenRows(t)' = {}
    <3>1. t \in Trackings /\ OpenRows(t) = {}
      BY <2>1 DEF TypeOK, AtHand, InsertFindsNone
    <3>2. QED
      BY <1>1, <3>1, RowsAfter
  <2>2. QED
    BY <1>1, <2>1 DEF InsertFindsNone, OpenRows, workerVars
<1>2. ASSUME NEW w \in Workers, Start(w) \/ Work(w) \/ CallFails(w) \/ Abort(w)
      PROVE  InsertFindsNone'
  <2> SUFFICES ASSUME pc'[w] \in {"check", "insert"}, NEW t, t = cur'[w]
               PROVE  OpenRows(t)' = {}
    <3>1. \A v \in Workers : v = w
      BY SoleWorker
    <3>2. QED
      BY <3>1 DEF InsertFindsNone, OpenRows
  <2>1. CASE pc'[w] = "check"
    <3>1. FindActive(w) /\ cur'[w] = cur[w] /\ ActiveJobs(cur[w]) = {}
      BY <1>2, <2>1, Moves
    <3>2. QED
      BY <3>1 DEF FindActive, tables, ActiveJobs, RowsOf, OpenRows
  <2>2. CASE pc'[w] = "insert"
    <3>1. pc[w] = "check" /\ cur'[w] = cur[w] /\ UNCHANGED jobs
      BY <1>2, <2>2, Moves
    <3>2. QED
      BY <3>1 DEF InsertFindsNone, OpenRows
  <2>3. QED
    BY <2>1, <2>2
<1>3. QED
  BY <1>1, <1>2, StepKinds

LEMMA JobIsLatestStep ==
  ASSUME Cardinality(Workers) = 1, OneWorkerInv, [Next]_vars
  PROVE  JobIsLatest'
<1> USE DEF OneWorkerInv
<1> DEFINE Latest(rows, j) == (rows = {} \/ j \in rows) /\ \A k \in rows : k <= j
<1>0. \A x \in Jobs : x \in Nat
  BY DEF Jobs
<1>1. CASE /\ UNCHANGED <<workerVars, stamp, attempted>>
           /\ UNCHANGED jobs \/ \E t \in Trackings : DeleteTracking(t)
  <2>1. ASSUME NEW w \in Workers, pc[w] \in Executing, NEW t, t = cur[w]
        PROVE  Latest(RowsOf(t)', run[w].job)
    <3>1. t \in Trackings /\ Latest(RowsOf(t), run[w].job)
      BY <2>1 DEF TypeOK, AtHand, JobIsLatest, Executing
    <3>2. RowsOf(t)' = {} \/ RowsOf(t)' = RowsOf(t)
      BY <1>1, <3>1, RowsAfter
    <3>3. QED
      BY <3>1, <3>2
  <2>2. QED
    BY <1>1, <2>1 DEF JobIsLatest, RowsOf, workerVars
<1>2. ASSUME NEW w \in Workers, Start(w) \/ Work(w) \/ CallFails(w) \/ Abort(w)
      PROVE  JobIsLatest'
  <2> SUFFICES ASSUME pc'[w] \in Executing, NEW t, t = cur'[w]
               PROVE  Latest(RowsOf(t)', run'[w].job)
    <3>1. \A v \in Workers : v = w
      BY SoleWorker
    <3>2. QED
      BY <3>1 DEF JobIsLatest, RowsOf
  <2>1. t = cur[w]
    BY <1>2, Moves
  <2>2. CASE pc[w] \in Executing /\ run'[w].job = run[w].job /\ UNCHANGED jobs
    BY <2>1, <2>2 DEF JobIsLatest, RowsOf
  <2>3. CASE /\ FindActive(w) /\ ActiveJobs(cur[w]) # {} /\ UNCHANGED jobs
             /\ run'[w].job = Newest(ActiveJobs(cur[w]))
    <3>1. t \in Trackings
      BY <2>1, <2>3 DEF FindActive, At, TypeOK, AtHand
    <3>2. run'[w].job \in ActiveJobs(cur[w])
      BY <2>3, NewestIsLast, RowsAreJobs
    <3>3. run'[w].job \in OpenRows(t) /\ run'[w].job \in RowsOf(t)
      BY <2>1, <3>2 DEF ActiveJobs, RowsOf, OpenRows
    <3>4. RowsOf(t)' = RowsOf(t)
      BY <2>3 DEF RowsOf
    <3>5. QED
      BY <3>1, <3>3, <3>4 DEF OpenIsLast
  <2>4. CASE /\ InsertJob(w) /\ InsertJobRow(run[w].job, cur[w])
             /\ run'[w].job = run[w].job
    <3>1. /\ t \in Trackings /\ run[w].job \in Jobs
          /\ \A x \in Jobs : jobs[x].status # "absent" => x < run[w].job
      BY <2>1, <2>4 DEF InsertJob, At, TypeOK, AtHand, InsertIsNext
    <3>2. jobs[run[w].job].status = "absent"
      BY <1>0, <3>1
    <3>3. RowsOf(t)' = RowsOf(t) \cup {run[w].job}
      BY <2>1, <2>4, <3>1, <3>2, RowsAfter
    <3>4. \A x \in RowsOf(t) : x < run[w].job
      BY <3>1 DEF RowsOf
    <3>5. QED
      BY <1>0, <2>4, <3>1, <3>3, <3>4 DEF RowsOf
  <2>5. QED
    BY <1>2, <2>2, <2>3, <2>4, Moves
<1>3. QED
  BY <1>1, <1>2, StepKinds

LEMMA AttemptRecordedStep ==
  ASSUME Cardinality(Workers) = 1, OneWorkerInv, [Next]_vars
  PROVE  AttemptRecorded'
<1> USE DEF OneWorkerInv
<1>1. CASE UNCHANGED <<workerVars, stamp, attempted>>
  BY <1>1 DEF AttemptRecorded, workerVars
<1>2. ASSUME NEW w \in Workers, Start(w) \/ Work(w) \/ CallFails(w) \/ Abort(w)
      PROVE  AttemptRecorded'
  <2> SUFFICES ASSUME pc'[w] \in Attempting
               PROVE  run'[w].job \in attempted'
    BY SoleWorker DEF AttemptRecorded
  <2>1. attempted \subseteq attempted'
    BY <1>2, Moves
  <2>2. CASE /\ run'[w].job = run[w].job
             /\ pc[w] \in Attempting \/ run[w].job \in attempted'
    BY <2>1, <2>2 DEF AttemptRecorded
  <2>3. CASE /\ FindLatest(w) /\ RowsOf(cur[w]) # {}
             /\ run'[w].job = Newest(RowsOf(cur[w]))
    <3>1. pc[w] \in Executing /\ pc[w] \in Attempting
      BY <2>3 DEF FindLatest, At, Executing, Attempting
    <3>2. /\ Newest(RowsOf(cur[w])) \in RowsOf(cur[w])
          /\ \A k \in RowsOf(cur[w]) : k <= Newest(RowsOf(cur[w]))
      BY <2>3, NewestIsLast, RowsAreJobs
    <3>3. run'[w].job = run[w].job
      <4>1. run[w].job \in RowsOf(cur[w]) /\ \A k \in RowsOf(cur[w]) : k <= run[w].job
        BY <2>3, <3>1 DEF JobIsLatest
      <4>2. \A k \in RowsOf(cur[w]) : k \in Nat
        BY DEF RowsOf, Jobs
      <4>3. QED
        BY <2>3, <3>2, <4>1, <4>2
    <3>4. QED
      BY <2>1, <3>1, <3>3 DEF AttemptRecorded
  <2>4. QED
    BY <1>2, <2>2, <2>3, Moves
<1>3. QED
  BY <1>1, <1>2, StepKinds

LEMMA FinishedStep ==
  ASSUME OneWorkerInv, [Next]_vars
  PROVE  FinishedWasAttempted'
<1> USE DEF OneWorkerInv
<1>0. attempted \subseteq attempted'
  BY StepKinds, Moves
<1> SUFFICES ASSUME NEW j \in Jobs, jobs'[j].status \in {"succeeded", "failed"},
                    jobs'[j].status # jobs[j].status
             PROVE  j \in attempted
  BY <1>0 DEF FinishedWasAttempted
<1>1. jobs \in [Jobs -> JobRow]
  BY DEF TypeOK, TablesTypeOK
<1>2. ASSUME NEW w \in Workers, InsertJob(w), InsertJobRow(run[w].job, cur[w])
      PROVE  FALSE
  BY <1>1, <1>2 DEF InsertJobRow
<1>3. ASSUME NEW u \in Trackings, DeleteTracking(u)
      PROVE  FALSE
  BY <1>3 DEF DeleteTracking, NoRow
<1>4. ASSUME NEW w \in Workers, MarkJob(w),
             SetJobStatus(run[w].job, JobStatusOf(ResultOf(run[w].verdict)))
      PROVE  j \in attempted
  <2>1. run[w].job \in attempted
    BY <1>4 DEF MarkJob, At, AttemptRecorded, Attempting
  <2>2. j = run[w].job
    BY <1>1, <1>4 DEF SetJobStatus
  <2>3. QED
    BY <2>1, <2>2
<1>5. QED
  BY <1>2, <1>3, <1>4, RowSteps

LEMMA OneWorkerInvariant ==
  ASSUME Cardinality(Workers) = 1
  PROVE  Spec => []OneWorkerInv
<1>1. Init => OneWorkerInv
  BY InitType
     DEF Init, TablesInit, NoRow, OneWorkerInv, NoOrphanJob, InsertIsNext, OpenIsLast,
         OpenRows, InsertFindsNone, JobIsLatest, Executing, AttemptRecorded, Attempting,
         FinishedWasAttempted
<1>2. OneWorkerInv /\ [Next]_vars => OneWorkerInv'
  <2> SUFFICES ASSUME OneWorkerInv, [Next]_vars PROVE OneWorkerInv'
    OBVIOUS
  <2>1. TypeOK' /\ NoOrphanJob'
    BY StepType, NoOrphanStep DEF OneWorkerInv
  <2>2. QED
    BY <2>1, InsertIsNextStep, OpenIsLastStep, InsertFindsNoneStep, JobIsLatestStep,
       AttemptRecordedStep, FinishedStep DEF OneWorkerInv
<1>3. QED
  BY <1>1, <1>2, PTL DEF Spec

(* Where one future queues and runs the jobs, the row that apply_completion   *)
(* finds as the latest of its tracking is the job that ran: no job is         *)
(* reported succeeded or failed that nobody set out to execute.               *)
THEOREM OneWorkerMarksItsJob ==
  ASSUME Cardinality(Workers) = 1
  PROVE  Spec => []FinishedWasAttempted
<1>1. OneWorkerInv => FinishedWasAttempted
  BY DEF OneWorkerInv
<1>2. QED
  BY <1>1, OneWorkerInvariant, PTL
-----------------------------------------------------------------------------
(* The job table implements the ledger *)

\* the ledger's entries of t stay
LedgerStays(t) ==
  LedgerOpen'[t] = LedgerOpen[t] /\ LedgerClosed'[t] = LedgerClosed[t]

LEMMA LedgerEntries ==
  ASSUME OneWorkerInv, NEW t \in Trackings
  PROVE  /\ LedgerOpen[t] = None <=> OpenRows(t) = {}
         /\ LedgerOpen[t] # None => OpenRows(t) = {LedgerOpen[t]}
         /\ LedgerClosed[t] = RowsOf(t) \ OpenRows(t)
         /\ \A j \in OpenRows(t) : LedgerOpen[t] = j
         /\ OpenRows(t) \subseteq RowsOf(t)
<1>1. OpenRows(t) \in SUBSET Jobs /\ OpenRows(t) \subseteq RowsOf(t)
  BY DEF OpenRows, RowsOf
<1>2. \A j, k \in OpenRows(t) : j = k
  BY <1>1 DEF OneWorkerInv, OpenIsLast, Jobs
<1>3. OpenRows(t) # {} => Newest(OpenRows(t)) \in OpenRows(t)
  BY <1>1, NewestIsLast
<1>4. None \notin Jobs
  BY TablesAssumption DEF Jobs
<1>5. QED
  BY <1>1, <1>2, <1>3, <1>4 DEF LedgerOpen, LedgerClosed

LEMMA LedgerAfter ==
  ASSUME NEW t \in Trackings
  PROVE  /\ RowsOf(t)' = RowsOf(t) /\ OpenRows(t)' = OpenRows(t) => LedgerStays(t)
         /\ OpenRows(t)' = {} => LedgerOpen'[t] = None
         /\ \A j \in Jobs : OpenRows(t)' = {j} => LedgerOpen'[t] = j
         /\ LedgerClosed'[t] = RowsOf(t)' \ OpenRows(t)'
<1>1. LedgerOpen'[t] = IF OpenRows(t)' = {} THEN None ELSE Newest(OpenRows(t)')
  BY DEF LedgerOpen, Newest
<1>2. LedgerClosed'[t] = RowsOf(t)' \ OpenRows(t)'
  BY DEF LedgerClosed
<1>3. RowsOf(t)' = RowsOf(t) /\ OpenRows(t)' = OpenRows(t) => LedgerStays(t)
  BY <1>1, <1>2 DEF LedgerStays, LedgerOpen, LedgerClosed
<1>4. \A j \in Jobs : Newest({j}) = j
  BY NewestIsLast
<1>5. QED
  BY <1>1, <1>2, <1>3, <1>4

(* A step that changes the entries of one tracking only.                     *)
LEMMA LedgerExcept ==
  ASSUME NEW t \in Trackings, \A u \in Trackings \ {t} : LedgerStays(u)
  PROVE  /\ \A x : LedgerOpen'[t] = x => LedgerOpen' = [LedgerOpen EXCEPT ![t] = x]
         /\ \A S : LedgerClosed'[t] = S => LedgerClosed' = [LedgerClosed EXCEPT ![t] = S]
         /\ LedgerStays(t) => UNCHANGED <<LedgerOpen, LedgerClosed>>
<1>1. /\ LedgerOpen = [u \in Trackings |-> LedgerOpen[u]]
      /\ LedgerOpen' = [u \in Trackings |-> LedgerOpen'[u]]
      /\ LedgerClosed = [u \in Trackings |-> LedgerClosed[u]]
      /\ LedgerClosed' = [u \in Trackings |-> LedgerClosed'[u]]
  BY DEF LedgerOpen, LedgerClosed
<1>2. QED
  BY <1>1, Zenon DEF LedgerStays

LEMMA LedgerStep ==
  ASSUME OneWorkerInv, [Next]_vars
  PROVE  [Ledger!Next]_<<LedgerOpen, LedgerClosed>>
<1> USE DEF OneWorkerInv
<1>0. \A x \in Jobs : x \in Nat
  BY DEF Jobs
<1>1. CASE UNCHANGED jobs
  <2>1. \A t \in Trackings : LedgerStays(t)
    BY <1>1, RowsAfter, LedgerAfter
  <2>2. CASE Trackings = {}
    BY <2>2 DEF LedgerOpen, LedgerClosed
  <2>3. QED
    BY <2>1, <2>2, LedgerExcept
<1>2. ASSUME NEW w \in Workers, InsertJob(w), InsertJobRow(run[w].job, cur[w])
      PROVE  Ledger!Next
  <2> DEFINE j == run[w].job
  <2>1. PICK t \in Trackings : t = cur[w]
    BY <1>2 DEF InsertJob, At, TypeOK, AtHand
  <2>2. /\ j \in Jobs /\ OpenRows(t) = {}
        /\ \A x \in Jobs : jobs[x].status # "absent" => x < j
    BY <1>2, <2>1 DEF InsertJob, At, TypeOK, AtHand, InsertFindsNone, InsertIsNext
  <2>3. jobs[j].status = "absent"
    BY <1>0, <2>2
  <2> HIDE DEF j
  <2>4. /\ RowsOf(t)' = RowsOf(t) \cup {j} /\ OpenRows(t)' = {j}
        /\ \A u \in Trackings \ {t} : RowsOf(u)' = RowsOf(u) /\ OpenRows(u)' = OpenRows(u)
    BY <1>2, <2>1, <2>2, <2>3, RowsAfter DEF j
  <2>5. \A u \in Trackings : j \notin RowsOf(u)
    BY <2>3 DEF RowsOf
  <2>6. LedgerOpen[t] = None
    BY <2>2, LedgerEntries
  <2>7. \A u \in Trackings : j # LedgerOpen[u] /\ j \notin LedgerClosed[u]
    <3>1. j # None
      BY <2>2, TablesAssumption DEF Jobs
    <3>2. QED
      BY <2>5, <3>1, LedgerEntries
  <2>8. \A k \in LedgerClosed[t] : k < j
    BY <2>2, LedgerEntries DEF RowsOf
  <2>9. LedgerOpen' = [LedgerOpen EXCEPT ![t] = j]
    BY <2>2, <2>4, LedgerAfter, LedgerExcept
  <2>10. UNCHANGED LedgerClosed
    <3>1. LedgerClosed'[t] = LedgerClosed[t]
      <4>1. LedgerClosed[t] = RowsOf(t)
        BY <2>2, LedgerEntries
      <4>2. LedgerClosed'[t] = (RowsOf(t) \cup {j}) \ {j}
        BY <2>4, LedgerAfter
      <4>3. QED
        BY <2>5, <4>1, <4>2
    <3>2. LedgerClosed' = [LedgerClosed EXCEPT ![t] = LedgerClosed[t]]
      BY <2>4, <3>1, LedgerAfter, LedgerExcept
    <3>3. QED
      BY <3>2 DEF LedgerClosed
  <2>11. Ledger!Open(t, j)
    BY <2>6, <2>7, <2>8, <2>9, <2>10 DEF Ledger!Open
  <2>12. QED
    BY <2>2, <2>11 DEF Ledger!Next
<1>3. ASSUME NEW w \in Workers, MarkJob(w), jobs[run[w].job].status # "absent",
             SetJobStatus(run[w].job, JobStatusOf(ResultOf(run[w].verdict)))
      PROVE  [Ledger!Next]_<<LedgerOpen, LedgerClosed>>
  <2> DEFINE j == run[w].job
  <2>1. j \in Jobs
    BY <1>3 DEF MarkJob, At, TypeOK, AtHand
  <2>2. PICK t \in Trackings : jobs[j].tracking_id = t
    BY <1>3, <2>1 DEF NoOrphanJob
  <2>3. JobStatusOf(ResultOf(run[w].verdict)) \in {"succeeded", "failed"}
    BY DEF JobStatusOf
  <2>4. \A u \in Trackings : RowsOf(u)' = RowsOf(u) /\ OpenRows(u)' = OpenRows(u) \ {j}
    BY <1>3, <2>1, <2>3, RowsAfter
  <2>5. \A u \in Trackings \ {t} : j \notin OpenRows(u)
    BY <2>2 DEF OpenRows
  <2>6. j \in OpenRows(t) => j \in RowsOf(t)
    BY DEF OpenRows, RowsOf
  <2> HIDE DEF j
  <2>7. \A u \in Trackings \ {t} : LedgerStays(u)
    BY <2>4, <2>5, LedgerAfter
  <2>8. CASE j \in OpenRows(t)
    <3>1. LedgerOpen[t] = j /\ LedgerOpen[t] # None /\ OpenRows(t) = {j}
      BY <2>8, LedgerEntries
    <3>2. OpenRows(t)' = {}
      BY <2>4, <3>1
    <3>3. LedgerOpen' = [LedgerOpen EXCEPT ![t] = None]
      BY <2>7, <3>2, LedgerAfter, LedgerExcept
    <3>4. LedgerClosed'[t] = LedgerClosed[t] \cup {LedgerOpen[t]}
      BY <2>4, <2>6, <2>8, <3>1, <3>2, LedgerAfter, LedgerEntries
    <3>5. LedgerClosed' = [LedgerClosed EXCEPT ![t] = @ \cup {LedgerOpen[t]}]
      BY <2>7, <3>4, LedgerExcept
    <3>6. Ledger!Close(t)
      BY <3>1, <3>3, <3>5 DEF Ledger!Close
    <3>7. QED
      BY <3>6 DEF Ledger!Next
  <2>9. CASE j \notin OpenRows(t)
    <3>1. LedgerStays(t)
      BY <2>4, <2>9, LedgerAfter
    <3>2. QED
      BY <2>7, <3>1, LedgerExcept
  <2>10. QED
    BY <2>8, <2>9
<1>4. ASSUME NEW t \in Trackings, DeleteTracking(t)
      PROVE  Ledger!Next
  <2>1. RowsOf(t)' = {} /\ OpenRows(t)' = {}
    BY <1>4, RowsAfter
  <2>2. \A u \in Trackings \ {t} : LedgerStays(u)
    BY <1>4, RowsAfter, LedgerAfter
  <2>3. LedgerOpen' = [LedgerOpen EXCEPT ![t] = None]
        /\ LedgerClosed' = [LedgerClosed EXCEPT ![t] = {}]
    BY <2>1, <2>2, LedgerAfter, LedgerExcept
  <2>4. QED
    BY <2>3 DEF Ledger!Next, Ledger!Drop
<1>5. QED
  BY <1>1, <1>2, <1>3, <1>4, RowSteps

(* Where one future queues and runs the jobs, sync_jobs is a ledger: over    *)
(* crashes, failed calls and deletions a tracking's jobs are opened one at a *)
(* time, each later than all before it, and closed for good.                 *)
THEOREM OneWorkerKeepsLedger ==
  ASSUME Cardinality(Workers) = 1
  PROVE  Spec => LedgerSpec
<1>1. Init => Ledger!Init
  BY DEF Init, TablesInit, NoRow, OpenRows, RowsOf, Ledger!Init, LedgerOpen, LedgerClosed
<1>2. OneWorkerInv /\ [Next]_vars => [Ledger!Next]_<<LedgerOpen, LedgerClosed>>
  BY LedgerStep
<1>3. QED
  BY <1>1, <1>2, OneWorkerInvariant, PTL DEF Spec, LedgerSpec, Ledger!Spec
=============================================================================
