-------------------------- MODULE PipelineRunProofs --------------------------
(***************************************************************************)
(* Safety of PipelineRun for any number of overlapping executions, of      *)
(* cancel requests and of mishaps.  RunInv is inductive: it knows of each  *)
(* execution which verdict it may carry and that no stage after the report *)
(* is reached without the report.  CountInv bounds the stages counted, and *)
(* ClassifiedInv says who is still to classify what an execution stored.   *)
(***************************************************************************)
EXTENDS PipelineRun, FiniteSetTheorems, TLAPS

Types ==
  /\ commit \in [Commits -> {"absent", "pending", "done"}]
  /\ published \subseteq Commits
  /\ entry \in [present : BOOLEAN, completed : Nat, cancel : BOOLEAN]
  /\ exec \in [Executors -> Exec]
  /\ cancels \in Nat /\ mishaps \in Nat /\ late \in Nat

\* what an execution may look like once `asked` says whether a cancel was requested
Sound(e, asked) ==
  /\ e.pc # "finish" => e.stage \in Stages /\ e.verdict = "completed"
  /\ e.stage > ReportGeneration => ReportGeneration \in e.done
  /\ e.pc = "finish" /\ e.verdict = "completed" => ReportGeneration \in e.done
  /\ e.verdict = "cancelled" => asked

RunInv ==
  /\ Types
  /\ entry.cancel => cancels > 0
  /\ \A w \in Executors : Sound(exec[w], cancels > 0)

USE DEF Stages, L1Ingestion, L2Snapshot, Classification, ReportGeneration

LEMMA IdleIsSound ==
  ASSUME NEW asked
  PROVE  Idle \in Exec /\ Sound(Idle, asked)
BY DEF Idle, Exec, Sound

LEMMA InitRunInv == Init => RunInv
<1> SUFFICES ASSUME Init PROVE RunInv
  OBVIOUS
<1>1. \A w \in Executors : exec[w] = Idle
  BY DEF Init
<1>2. Types
  BY IdleIsSound DEF Init, Types, NoEntry
<1>3. QED
  BY <1>1, <1>2, IdleIsSound DEF Init, RunInv, NoEntry

(* A step of w that rewrites its record into a sound one.                   *)
Rewrites(w) ==
  \E e \in Exec : Sound(e, cancels > 0) /\ exec' = [exec EXCEPT ![w] = e]

LEMMA StageEndsRewrites ==
  ASSUME RunInv, NEW w \in Executors, NEW b \in BOOLEAN, StageEnds(w, b),
         exec[w].pc # "finish"
  PROVE  Rewrites(w) /\ entry' \in [present : BOOLEAN, completed : Nat, cancel : BOOLEAN]
         /\ entry'.cancel = entry.cancel /\ exec'[w].pc \in {"finish", "check"}
<1> DEFINE e == exec[w]
           skip == e.skip \/ ~b
           next == After(e.stage, skip)
           new == [e EXCEPT !.pc = IF next = 7 THEN "finish" ELSE "check",
                            !.stage = next, !.done = @ \cup {e.stage},
                            !.skip = skip, !.todo = {}]
<1>1. e \in Exec /\ Sound(e, cancels > 0)
  BY DEF RunInv, Types
<1>2. next \in 1..7 /\ (next > 5 => e.stage = 5 \/ (e.stage = 6))
  BY <1>1 DEF After, Sound, Exec
<1>3. new \in Exec
  BY <1>1, <1>2 DEF Exec, Sound
<1>4. Sound(new, cancels > 0)
  BY <1>1, <1>2 DEF Exec, Sound
<1>5. exec' = [exec EXCEPT ![w] = new]
  BY DEF StageEnds, RunInv, Types
<1>6. Rewrites(w)
  BY <1>3, <1>4, <1>5 DEF Rewrites
<1>7. exec'[w].pc \in {"finish", "check"}
  BY <1>1, <1>5 DEF RunInv, Types, Exec
<1>8. QED
  BY <1>6, <1>7 DEF StageEnds, RunInv, Types

(* The steps that look at one commit.                                       *)
LEMMA CommitStepMoves ==
  ASSUME RunInv, NEW w \in Executors, FindCommit(w) \/ SaveCommit(w) \/ Classify(w)
  PROVE  exec'[w].pc \in {"find", "save", "classify", "finish"}
<1>1. exec \in [Executors -> Exec]
  BY DEF RunInv, Types
<1>2. CASE FindCommit(w)
  BY <1>1, <1>2 DEF FindCommit, At, Exec
<1>3. CASE SaveCommit(w)
  BY <1>1, <1>3 DEF SaveCommit, At, Exec
<1>4. CASE Classify(w)
  BY <1>1, <1>4 DEF Classify, At, Exec
<1>5. QED
  BY <1>2, <1>3, <1>4

(* Every step of an execution rewrites its own record, soundly.             *)
LEMMA ExecuteRewrites ==
  ASSUME RunInv, NEW w \in Executors, Execute(w)
  PROVE  Rewrites(w)
<1>0. exec[w] \in Exec /\ Sound(exec[w], cancels > 0) /\ (entry.cancel => cancels > 0)
      /\ exec \in [Executors -> Exec]
  BY DEF RunInv, Types
<1>1. ASSUME Begin(w) \/ Announce(w) \/ LoadTracking(w) \/ StartStage(w)
      PROVE  Rewrites(w)
  BY <1>0, <1>1 DEF Begin, Announce, LoadTracking, StartStage, At, Goto, Rewrites, Sound, Exec
<1>2. ASSUME CheckCancel(w) PROVE Rewrites(w)
  BY <1>0, <1>2 DEF CheckCancel, At, Goto, Rewrites, Sound, Exec
<1>3. ASSUME RunStage(w) \/ IngestSkipped(w) \/ IngestEnds(w) \/ ClassificationEnds(w)
      PROVE  Rewrites(w)
  <2>1. \E b \in BOOLEAN : StageEnds(w, b)
    BY <1>3 DEF RunStage, IngestSkipped, IngestEnds, ClassificationEnds
  <2>2. exec[w].pc # "finish"
    BY <1>3 DEF RunStage, IngestSkipped, IngestEnds, ClassificationEnds, InStage, At
  <2>3. QED
    BY <2>1, <2>2, StageEndsRewrites
<1>4. ASSUME StageFails(w) PROVE Rewrites(w)
  BY <1>0, <1>4 DEF StageFails, Rewrites, Sound, Exec
<1>5. ASSUME Finish(w) \/ CallFails(w) PROVE Rewrites(w)
  BY <1>0, <1>5, IdleIsSound DEF Finish, CallFails, Rewrites, Sound
<1>6. ASSUME Collect(w) PROVE Rewrites(w)
  <2> DEFINE new == [exec[w] EXCEPT !.pc = "find", !.fetched = TRUE, !.todo = published]
  <2>1. new \in Exec /\ exec' = [exec EXCEPT ![w] = new]
    BY <1>0, <1>6 DEF Collect, Exec, RunInv, Types
  <2>2. Sound(new, cancels > 0)
    BY <1>0, <1>6 DEF Collect, InStage, At, Sound, Exec
  <2>3. QED
    BY <2>1, <2>2 DEF Rewrites
<1>7. ASSUME FindCommit(w) PROVE Rewrites(w)
  BY <1>0, <1>7 DEF FindCommit, At, Rewrites, Sound, Exec
<1>8. ASSUME SaveCommit(w) PROVE Rewrites(w)
  BY <1>0, <1>8 DEF SaveCommit, At, Rewrites, Sound, Exec
<1>9. ASSUME TakePending(w) PROVE Rewrites(w)
  <2> DEFINE new == [exec[w] EXCEPT !.pc = "classify", !.todo = Pending]
  <2>1. new \in Exec /\ exec' = [exec EXCEPT ![w] = new]
    BY <1>0, <1>9 DEF TakePending, Exec, Pending
  <2>2. Sound(new, cancels > 0)
    BY <1>0, <1>9 DEF TakePending, InStage, At, Sound, Exec
  <2>3. QED
    BY <2>1, <2>2 DEF Rewrites
<1>10. ASSUME Classify(w) PROVE Rewrites(w)
  BY <1>0, <1>10 DEF Classify, At, Rewrites, Sound, Exec
<1>11. QED
  BY <1>1, <1>2, <1>3, <1>4, <1>5, <1>6, <1>7, <1>8, <1>9, <1>10 DEF Execute

(* Nobody but the canceller raises the request or the count of requests.    *)
LEMMA ExecuteFrame ==
  ASSUME RunInv, NEW w \in Executors, Execute(w)
  PROVE  /\ entry' \in [present : BOOLEAN, completed : Nat, cancel : BOOLEAN]
         /\ entry'.cancel => entry.cancel
         /\ cancels' = cancels /\ mishaps' \in Nat /\ late' \in Nat
         /\ commit' \in [Commits -> {"absent", "pending", "done"}]
         /\ published' = published
<1>1. CASE \/ Announce(w) \/ LoadTracking(w) \/ CheckCancel(w) \/ StartStage(w)
           \/ StageFails(w) \/ Finish(w) \/ CallFails(w) \/ Collect(w) \/ FindCommit(w)
           \/ TakePending(w)
  BY <1>1 DEF Announce, LoadTracking, CheckCancel, StartStage, StageFails, Finish, CallFails,
              Collect, FindCommit, TakePending, data, bounds, RunInv, Types
<1>2. CASE Begin(w)
  BY <1>2 DEF Begin, NewEntry, NoEntry, data, bounds, RunInv, Types
<1>3. CASE RunStage(w) \/ IngestSkipped(w) \/ IngestEnds(w) \/ ClassificationEnds(w)
  <2>1. \E b \in BOOLEAN : StageEnds(w, b)
    BY <1>3 DEF RunStage, IngestSkipped, IngestEnds, ClassificationEnds
  <2>2. exec[w].pc # "finish"
    BY <1>3 DEF RunStage, IngestSkipped, IngestEnds, ClassificationEnds, InStage, At
  <2>3. entry' \in [present : BOOLEAN, completed : Nat, cancel : BOOLEAN]
        /\ entry'.cancel = entry.cancel
    BY <2>1, <2>2, StageEndsRewrites
  <2>4. QED
    BY <1>3, <2>3 DEF RunStage, IngestSkipped, IngestEnds, ClassificationEnds, data, bounds,
                      RunInv, Types
<1>4. CASE SaveCommit(w) \/ Classify(w)
  <2>1. PICK c \in Commits : commit' = commit \/ commit' = [commit EXCEPT ![c] = "pending"]
                                            \/ commit' = [commit EXCEPT ![c] = "done"]
    BY <1>4 DEF SaveCommit, Classify, RunInv, Types, Exec
  <2>2. commit' \in [Commits -> {"absent", "pending", "done"}]
    BY <2>1 DEF RunInv, Types
  <2>3. QED
    BY <1>4, <2>2 DEF SaveCommit, Classify, bounds, RunInv, Types
<1>5. QED
  BY <1>1, <1>2, <1>3, <1>4 DEF Execute

LEMMA RunInvStep ==
  ASSUME RunInv, [Next]_vars
  PROVE  RunInv'
<1>1. CASE UNCHANGED vars
  BY <1>1 DEF vars, data, bounds, RunInv, Types
<1>2. ASSUME NEW w \in Executors, Execute(w) PROVE RunInv'
  <2>1. PICK e \in Exec : Sound(e, cancels > 0) /\ exec' = [exec EXCEPT ![w] = e]
    BY <1>2, ExecuteRewrites DEF Rewrites
  <2>2. exec' \in [Executors -> Exec] /\ \A v \in Executors : Sound(exec'[v], cancels > 0)
    BY <2>1 DEF RunInv, Types
  <2>3. QED
    BY <1>2, <2>2, ExecuteFrame DEF RunInv, Types
<1>3. ASSUME RequestCancel PROVE RunInv'
  <2>1. cancels' > 0 /\ cancels' \in Nat /\ exec' = exec
    BY <1>3 DEF RequestCancel, RunInv, Types
  <2>2. \A w \in Executors : Sound(exec'[w], cancels' > 0)
    BY <2>1 DEF RunInv, Sound
  <2>3. QED
    BY <1>3, <2>1, <2>2 DEF RequestCancel, RunInv, Types, data
<1>4. ASSUME MarkCancelling \/ Publish PROVE RunInv'
  BY <1>4 DEF MarkCancelling, Publish, data, bounds, RunInv, Types
<1>5. ASSUME Crash PROVE RunInv'
  <2>1. \A w \in Executors : exec'[w] = Idle
    BY <1>5 DEF Crash
  <2>2. exec' \in [Executors -> Exec] /\ \A w \in Executors : Sound(exec'[w], cancels > 0)
    BY <1>5, <2>1, IdleIsSound DEF Crash
  <2>3. QED
    BY <1>5, <2>2 DEF Crash, NoEntry, data, RunInv, Types
<1>6. QED
  BY <1>1, <1>2, <1>3, <1>4, <1>5 DEF Next

LEMMA AlwaysRunInv == Spec => []RunInv
BY InitRunInv, RunInvStep, PTL DEF Spec
-----------------------------------------------------------------------------
(* "completed" is only ever written by an execution that made its report,    *)
(* "cancelled" only after a request.                                         *)
THEOREM OutcomesAreEarned == Spec => OutcomeEarned
<1> DEFINE Earned ==
      \A w \in Executors :
        At(w, "finish") /\ exec'[w].pc = "idle" /\ job' # job =>
          /\ job' = "completed" => ReportGeneration \in exec[w].done
          /\ job' = "cancelled" => cancels > 0
<1>1. RunInv /\ Next => Earned
  <2> SUFFICES ASSUME RunInv, Next, NEW w \in Executors,
                      At(w, "finish"), exec'[w].pc = "idle", job' # job
               PROVE  /\ job' = "completed" => ReportGeneration \in exec[w].done
                      /\ job' = "cancelled" => cancels > 0
    OBVIOUS
  <2>1. CASE Finish(w)
    BY <2>1 DEF Finish, At, RunInv, Sound
  <2>2. ASSUME NEW v \in Executors, Execute(v), v # w PROVE FALSE
    <3>1. exec'[w] = exec[w]
      BY <2>2, ExecuteRewrites DEF Rewrites, RunInv, Types
    <3>2. QED
      BY <3>1 DEF At
  <2>3. ASSUME Execute(w), ~Finish(w) PROVE FALSE
    BY <2>3 DEF Execute, Begin, Announce, LoadTracking, CheckCancel, StartStage, RunStage,
           StageFails, CallFails, IngestSkipped, Collect, FindCommit, SaveCommit,
           IngestEnds, TakePending, Classify, ClassificationEnds, At, InStage
  <2>4. ASSUME RequestCancel \/ MarkCancelling \/ Crash \/ Publish PROVE FALSE
    BY <2>4 DEF RequestCancel, MarkCancelling, Crash, Publish, At
  <2>5. QED
    BY <2>1, <2>2, <2>3, <2>4 DEF Next
<1>2. RunInv /\ [Next]_vars => [Earned]_vars
  BY <1>1
<1>3. QED
  BY <1>2, AlwaysRunInv, PTL DEF Spec, OutcomeEarned
-----------------------------------------------------------------------------
(* A job that says "running" is executed, until the first mishap.            *)
THEOREM RunningJobsAreExecuted == Spec => []RunningIsExecuted
<1>1. Init => RunningIsExecuted
  BY DEF Init, RunningIsExecuted
<1>2. ASSUME RunInv, RunInv', RunningIsExecuted, [Next]_vars PROVE RunningIsExecuted'
  <2> SUFFICES ASSUME job' = "running", mishaps' = 0
               PROVE  \E w \in Executors : exec'[w].pc # "idle"
    BY DEF RunningIsExecuted, At
  <2>1. CASE UNCHANGED vars
    BY <1>2, <2>1 DEF vars, bounds, RunningIsExecuted, At
  <2>2. CASE RequestCancel \/ Publish \/ MarkCancelling
    BY <1>2, <2>2 DEF RequestCancel, Publish, MarkCancelling, bounds, RunningIsExecuted, At
  <2>3. CASE Crash
    BY <1>2, <2>3 DEF Crash, RunInv, Types
  <2>4. ASSUME NEW w \in Executors, Execute(w)
        PROVE  \E v \in Executors : exec'[v].pc # "idle"
    <3>1. CASE CallFails(w)
      BY <1>2, <3>1 DEF CallFails, RunInv, Types
    <3>2. CASE Finish(w)
      BY <1>2, <3>2 DEF Finish, RunInv, Types, Exec
    <3>3. CASE ~CallFails(w) /\ ~Finish(w)
      <4>1. CASE RunStage(w) \/ IngestSkipped(w) \/ IngestEnds(w) \/ ClassificationEnds(w)
        <5>1. \E b \in BOOLEAN : StageEnds(w, b)
          BY <4>1 DEF RunStage, IngestSkipped, IngestEnds, ClassificationEnds
        <5>2. exec[w].pc # "finish"
          BY <4>1 DEF RunStage, IngestSkipped, IngestEnds, ClassificationEnds, InStage, At
        <5>3. QED
          BY <1>2, <5>1, <5>2, StageEndsRewrites
      <4>2. CASE FindCommit(w) \/ SaveCommit(w) \/ Classify(w)
        BY <1>2, <4>2, CommitStepMoves
      <4>3. CASE \/ Begin(w) \/ Announce(w) \/ LoadTracking(w) \/ CheckCancel(w)
                 \/ StartStage(w) \/ StageFails(w) \/ Collect(w) \/ TakePending(w)
        BY <1>2, <4>3 DEF Begin, Announce, LoadTracking, CheckCancel, StartStage, StageFails,
                          Collect, TakePending, At, InStage, Goto, RunInv, Types, Exec
      <4>4. QED
        BY <2>4, <3>3, <4>1, <4>2, <4>3 DEF Execute
    <3>4. QED
      BY <3>1, <3>2, <3>3
  <2>5. QED
    BY <1>2, <2>1, <2>2, <2>3, <2>4 DEF Next
<1>3. QED
  BY <1>1, <1>2, AlwaysRunInv, PTL DEF Spec
-----------------------------------------------------------------------------
(* A cancel request stops every execution at its next stage                  *)

\* the executions past their check of this stage
Starting == {w \in Executors : At(w, "start")}

CancelInv ==
  /\ entry.cancel => late + Cardinality(Starting) <= Cardinality(Executors)
  /\ ~entry.cancel => late = 0

LEMMA StartingFinite ==
  /\ Cardinality(Executors) \in Nat
  /\ IsFiniteSet(Starting) /\ Cardinality(Starting) \in Nat
  /\ Cardinality(Starting) <= Cardinality(Executors)
  /\ IsFiniteSet(Starting') /\ Cardinality(Starting') \in Nat
<1>1. Starting \in SUBSET Executors /\ Starting' \in SUBSET Executors
  BY DEF Starting
<1>2. QED
  BY <1>1, PipelineAssumption, FS_Subset, FS_CardinalityType

(* No further execution is past its check, and no late stage is counted.    *)
LEMMA CancelInvKept ==
  ASSUME RunInv, CancelInv, Starting' \subseteq Starting,
         late' = late, entry'.cancel = entry.cancel
  PROVE  CancelInv'
<1>1. Cardinality(Starting') <= Cardinality(Starting)
  BY StartingFinite, FS_Subset
<1>2. QED
  BY <1>1, StartingFinite DEF CancelInv, RunInv, Types

LEMMA CancelInvStep ==
  ASSUME RunInv, CancelInv, [Next]_vars
  PROVE  CancelInv'
<1>1. CASE UNCHANGED vars
  BY <1>1, CancelInvKept DEF vars, Starting, At
<1>2. ASSUME NEW w \in Executors, Begin(w) PROVE CancelInv'
  BY <1>2 DEF Begin, NewEntry, NoEntry, CancelInv
<1>3. ASSUME NEW w \in Executors, StartStage(w) PROVE CancelInv'
  <2>1. w \in Starting /\ Starting' = Starting \ {w}
    BY <1>3 DEF StartStage, Goto, At, Starting, RunInv, Types, Exec
  <2>2. Cardinality(Starting') = Cardinality(Starting) - 1
    BY <2>1, StartingFinite, FS_RemoveElement
  <2>3. QED
    BY <1>3, <2>2, StartingFinite DEF StartStage, CancelInv, RunInv, Types
<1>4. ASSUME NEW w \in Executors, CheckCancel(w) PROVE CancelInv'
  <2>1. CASE entry.cancel
    <3>1. Starting' \subseteq Starting
      BY <1>4, <2>1 DEF CheckCancel, At, Starting, RunInv, Types, Exec
    <3>2. QED
      BY <1>4, <3>1, CancelInvKept DEF CheckCancel
  <2>2. CASE ~entry.cancel
    BY <1>4, <2>2 DEF CheckCancel, CancelInv
  <2>3. QED
    BY <2>1, <2>2
<1>5. ASSUME NEW w \in Executors, Execute(w),
             ~Begin(w), ~StartStage(w), ~CheckCancel(w)
      PROVE  CancelInv'
  <2>1. exec'[w].pc # "start" /\ late' = late /\ entry'.cancel = entry.cancel
    <3>1. CASE RunStage(w) \/ IngestSkipped(w) \/ IngestEnds(w) \/ ClassificationEnds(w)
      <4>1. \E b \in BOOLEAN : StageEnds(w, b)
        BY <3>1 DEF RunStage, IngestSkipped, IngestEnds, ClassificationEnds
      <4>2. exec[w].pc # "finish" /\ late' = late
        BY <3>1 DEF RunStage, IngestSkipped, IngestEnds, ClassificationEnds, InStage, At
      <4>3. QED
        BY <4>1, <4>2, StageEndsRewrites
    <3>2. CASE FindCommit(w) \/ SaveCommit(w) \/ Classify(w)
      <4>1. exec'[w].pc # "start"
        BY <3>2, CommitStepMoves
      <4>2. QED
        BY <3>2, <4>1 DEF FindCommit, SaveCommit, Classify
    <3>3. CASE \/ Announce(w) \/ LoadTracking(w) \/ StageFails(w) \/ Collect(w)
               \/ TakePending(w) \/ Finish(w) \/ CallFails(w)
      BY <3>3 DEF Announce, LoadTracking, StageFails, Collect, TakePending, Finish,
                  CallFails, Idle, At, InStage, Goto, RunInv, Types, Exec
    <3>4. QED
      BY <1>5, <3>1, <3>2, <3>3 DEF Execute
  <2>2. \A v \in Executors : v # w => exec'[v] = exec[v]
    BY <1>5, ExecuteRewrites DEF Rewrites, RunInv, Types
  <2>3. Starting' \subseteq Starting
    BY <2>1, <2>2 DEF Starting, At
  <2>4. QED
    BY <2>1, <2>3, CancelInvKept
<1>6. ASSUME RequestCancel PROVE CancelInv'
  <2>1. Starting' = Starting /\ late' = late
    BY <1>6 DEF RequestCancel, Starting, At
  <2>2. (entry.cancel => entry'.cancel) /\ (~entry'.cancel => ~entry.cancel)
    BY <1>6 DEF RequestCancel, RunInv, Types
  <2>3. QED
    BY <2>1, <2>2, StartingFinite DEF CancelInv, RunInv, Types
<1>7. ASSUME MarkCancelling \/ Publish PROVE CancelInv'
  BY <1>7, CancelInvKept DEF MarkCancelling, Publish, Starting, At
<1>8. ASSUME Crash PROVE CancelInv'
  BY <1>8 DEF Crash, NoEntry, CancelInv
<1>9. QED
  BY <1>1, <1>2, <1>3, <1>4, <1>5, <1>6, <1>7, <1>8 DEF Next

(* While a cancel request stands, at most one stage more per execution is    *)
(* started, whatever the number of executions.                               *)
THEOREM CancelRequestsStop == Spec => []CancelStops
<1>1. Init => CancelInv
  BY DEF Init, NoEntry, CancelInv
<1>2. RunInv /\ CancelInv => CancelStops
  BY StartingFinite DEF CancelInv, CancelStops, RunInv, Types
<1>3. QED
  BY <1>1, <1>2, CancelInvStep, AlwaysRunInv, PTL DEF Spec
-----------------------------------------------------------------------------
(* What the other steps of an execution leave alone                          *)

EndsStage(w) == RunStage(w) \/ IngestSkipped(w) \/ IngestEnds(w) \/ ClassificationEnds(w)

LEMMA EndsStageStep ==
  ASSUME RunInv, NEW w \in Executors, EndsStage(w)
  PROVE  /\ \E b \in BOOLEAN : StageEnds(w, b)
         /\ exec[w].pc \in {"work", "find", "classify"} /\ exec[w].stage \in Stages
         /\ UNCHANGED <<job, canceller, mishaps, commit>>
         /\ exec'[w].stage \in Nat /\ exec'[w].stage > exec[w].stage
         /\ exec'[w].done = exec[w].done \cup {exec[w].stage}
         /\ exec'[w].saved = exec[w].saved /\ exec'[w].pc \in {"finish", "check"}
<1>0. exec[w] \in Exec /\ exec \in [Executors -> Exec] /\ Sound(exec[w], cancels > 0)
  BY DEF RunInv, Types
<1>1. /\ \E b \in BOOLEAN : StageEnds(w, b)
      /\ exec[w].pc \in {"work", "find", "classify"}
      /\ UNCHANGED <<job, canceller, mishaps, commit>>
  BY DEF EndsStage, RunStage, IngestSkipped, IngestEnds, ClassificationEnds, InStage, At,
         data, bounds
<1>2. PICK b \in BOOLEAN : StageEnds(w, b)
  BY <1>1
<1>3. exec[w].stage \in Stages
  BY <1>0, <1>1 DEF Sound
<1> DEFINE next == After(exec[w].stage, exec[w].skip \/ ~b)
<1>4. next \in Nat /\ next > exec[w].stage
  BY <1>0, <1>3 DEF After, Exec
<1>5. /\ exec'[w].stage = next /\ exec'[w].done = exec[w].done \cup {exec[w].stage}
      /\ exec'[w].saved = exec[w].saved /\ exec'[w].pc \in {"finish", "check"}
  BY <1>0, <1>2 DEF StageEnds, Exec
<1>6. QED
  BY <1>1, <1>3, <1>4, <1>5

(* Any other step of w leaves it in its stage, or ends its execution.        *)
LEMMA SameStage ==
  ASSUME RunInv, NEW w \in Executors, Execute(w), ~EndsStage(w), ~Begin(w)
  PROVE  /\ entry'.completed = entry.completed
         /\ exec'[w].pc \in {"idle", "finish"} \/ exec'[w].stage = exec[w].stage
         /\ exec[w].pc \in {"idle", "finish"} => exec'[w].pc \in {"idle", "finish"}
<1>0. exec[w] \in Exec /\ exec \in [Executors -> Exec]
  BY DEF RunInv, Types
<1>1. CASE Announce(w) \/ LoadTracking(w) \/ CheckCancel(w) \/ StartStage(w)
  BY <1>0, <1>1 DEF Announce, LoadTracking, CheckCancel, StartStage, Goto, At, Exec
<1>2. CASE StageFails(w) \/ Finish(w) \/ CallFails(w) \/ Collect(w) \/ TakePending(w)
  BY <1>0, <1>2 DEF StageFails, Finish, CallFails, Collect, TakePending, InStage, At, Idle,
                    Exec
<1>3. CASE FindCommit(w) \/ Classify(w)
  <2>1. \E T, S : \/ exec' = [exec EXCEPT ![w].todo = T]
                 \/ exec' = [exec EXCEPT ![w].pc = "save"]
                 \/ exec' = [exec EXCEPT ![w].todo = T, ![w].saved = S]
    BY <1>3 DEF FindCommit, Classify
  <2>2. exec[w].pc \in {"find", "classify"} /\ entry' = entry
    BY <1>3 DEF FindCommit, Classify, At
  <2>3. QED
    BY <1>0, <2>1, <2>2 DEF Exec
<1>4. CASE SaveCommit(w)
  BY <1>0, <1>4 DEF SaveCommit, At, Exec
<1>5. QED
  BY <1>1, <1>2, <1>3, <1>4 DEF Execute, EndsStage

-----------------------------------------------------------------------------
(* Types, and the count of completed stages                                  *)

\* the stages the executions have before them
Left == {p \in Executors \X Stages :
           exec[p[1]].pc \notin {"idle", "finish"} /\ p[2] >= exec[p[1]].stage}

\* what is counted and what is to come is six stages per executor at most
CountInv ==
  /\ entry.completed + Cardinality(Left) <= 6 * Cardinality(Executors)
  /\ job \in {"pending", "running", "cancelling", "cancelled", "completed", "failed"}
  /\ canceller \in {"idle", "flagged"}
  /\ cancels <= MaxCancels /\ mishaps <= MaxMishaps

LEMMA LeftFinite ==
  /\ Cardinality(Executors) \in Nat
  /\ IsFiniteSet(Left) /\ Cardinality(Left) \in Nat
  /\ Cardinality(Left) <= 6 * Cardinality(Executors)
  /\ IsFiniteSet(Left') /\ Cardinality(Left') \in Nat
  /\ Cardinality(Left') <= 6 * Cardinality(Executors)
<1>1. IsFiniteSet(Stages) /\ Cardinality(Stages) = 6
  <2>1. 1 \in Int /\ 6 \in Int
    OBVIOUS
  <2>2. IsFiniteSet(1..6) /\ Cardinality(1..6) = IF 1 > 6 THEN 0 ELSE 6 - 1 + 1
    BY <2>1, FS_Interval
  <2>3. QED
    BY <2>2
<1>2. Cardinality(Executors) \in Nat
  BY PipelineAssumption, FS_CardinalityType
<1>3. IsFiniteSet(Executors \X Stages)
      /\ Cardinality(Executors \X Stages) = 6 * Cardinality(Executors)
  <2> HIDE DEF Stages
  <2>1. IsFiniteSet(Executors \X Stages)
        /\ Cardinality(Executors \X Stages) = Cardinality(Executors) * Cardinality(Stages)
    BY <1>1, PipelineAssumption, FS_Product
  <2>2. QED
    BY <1>1, <1>2, <2>1
<1>4. Left \in SUBSET (Executors \X Stages) /\ Left' \in SUBSET (Executors \X Stages)
  BY DEF Left
<1>5. QED
  <2> HIDE DEF Stages
  <2>1. QED
    BY <1>2, <1>3, <1>4, FS_Subset, FS_CardinalityType

LEMMA CountKept ==
  ASSUME RunInv, CountInv, Left' \subseteq Left, entry'.completed = entry.completed
  PROVE  entry'.completed + Cardinality(Left') <= 6 * Cardinality(Executors)
<1>1. Cardinality(Left') <= Cardinality(Left)
  BY LeftFinite, FS_Subset
<1>2. QED
  BY <1>1, LeftFinite DEF CountInv, RunInv, Types

LEMMA CountStep ==
  ASSUME RunInv, CountInv, [Next]_vars
  PROVE  entry'.completed + Cardinality(Left') <= 6 * Cardinality(Executors)
<1> USE DEF RunInv, Types
<1>1. CASE UNCHANGED vars \/ MarkCancelling \/ Publish \/ RequestCancel
  <2>1. Left' = Left /\ entry'.completed = entry.completed
    BY <1>1 DEF vars, MarkCancelling, Publish, RequestCancel, Left
  <2>2. QED
    BY <2>1, CountKept
<1>2. CASE Crash \/ \E w \in Executors : Begin(w)
  <2>1. entry'.completed = 0
    BY <1>2 DEF Crash, Begin, NoEntry, NewEntry
  <2>2. QED
    BY <2>1, LeftFinite
<1>3. ASSUME NEW w \in Executors, EndsStage(w), Execute(w)
      PROVE  entry'.completed + Cardinality(Left') <= 6 * Cardinality(Executors)
  <2> DEFINE p == <<w, exec[w].stage>>
  <2>1. /\ exec[w].pc \in {"work", "find", "classify"} /\ exec[w].stage \in Stages
        /\ exec'[w].stage \in Nat /\ exec'[w].stage > exec[w].stage
    BY <1>3, EndsStageStep
  <2>2. \A v \in Executors : v # w => exec'[v] = exec[v]
    BY <1>3, ExecuteRewrites DEF Rewrites
  <2>3. p \in Left
    BY <2>1 DEF Left
  <2>4. Left' \subseteq Left \ {p}
    <3>1. ASSUME NEW q \in Left' PROVE q \in Left \ {p}
      <4>1. PICK v \in Executors, s \in Stages : q = <<v, s>>
        BY <3>1 DEF Left
      <4>2. exec'[v].pc \notin {"idle", "finish"} /\ s >= exec'[v].stage
        BY <3>1, <4>1 DEF Left
      <4>3. CASE v = w
        BY <2>1, <4>1, <4>2, <4>3 DEF Left
      <4>4. CASE v # w
        BY <2>2, <4>1, <4>2, <4>4 DEF Left
      <4>5. QED
        BY <4>3, <4>4
    <3>2. QED
      BY <3>1
  <2>5. entry'.completed \in Nat /\ entry'.completed <= entry.completed + 1
    <3>1. PICK b \in BOOLEAN : StageEnds(w, b)
      BY <1>3, EndsStageStep
    <3>2. QED
      BY <3>1 DEF StageEnds
  <2> HIDE DEF p
  <2>6. Cardinality(Left \ {p}) = Cardinality(Left) - 1 /\ IsFiniteSet(Left \ {p})
    BY <2>3, LeftFinite, FS_RemoveElement
  <2>7. Cardinality(Left') <= Cardinality(Left) - 1
    BY <2>4, <2>6, FS_Subset
  <2>8. QED
    BY <2>5, <2>7, LeftFinite DEF CountInv
<1>4. ASSUME NEW w \in Executors, Execute(w), ~EndsStage(w), ~Begin(w)
      PROVE  entry'.completed + Cardinality(Left') <= 6 * Cardinality(Executors)
  <2>1. \A v \in Executors : v # w => exec'[v] = exec[v]
    BY <1>4, ExecuteRewrites DEF Rewrites
  <2>2. \A v \in Executors : exec'[v].pc \notin {"idle", "finish"} =>
          exec[v].pc \notin {"idle", "finish"} /\ exec'[v].stage = exec[v].stage
    BY <1>4, <2>1, SameStage
  <2>3. Left' \subseteq Left
    BY <2>2 DEF Left
  <2>4. QED
    BY <1>4, <2>3, SameStage, CountKept
<1>5. QED
  BY <1>1, <1>2, <1>3, <1>4 DEF Next

LEMMA CountInvStep ==
  ASSUME RunInv, CountInv, [Next]_vars
  PROVE  CountInv'
<1> USE DEF RunInv, Types, CountInv
<1>1. /\ job' \in {"pending", "running", "cancelling", "cancelled", "completed", "failed"}
      /\ canceller' \in {"idle", "flagged"}
      /\ cancels' <= MaxCancels /\ mishaps' <= MaxMishaps
  <2>1. CASE UNCHANGED vars \/ MarkCancelling \/ Publish \/ RequestCancel \/ Crash
    BY <2>1, PipelineAssumption
       DEF vars, bounds, MarkCancelling, Publish, RequestCancel, Crash
  <2>2. ASSUME NEW w \in Executors, Begin(w) \/ EndsStage(w)
        PROVE  UNCHANGED <<job, canceller, bounds>>
    BY <2>2 DEF Begin, EndsStage, RunStage, IngestSkipped, IngestEnds, ClassificationEnds
  <2>3. ASSUME NEW w \in Executors, Finish(w) \/ Announce(w) \/ CallFails(w)
        PROVE  /\ job' \in {job, "running", exec[w].verdict}
               /\ cancels' = cancels /\ mishaps' <= MaxMishaps /\ canceller' = canceller
    BY <2>3, PipelineAssumption DEF Finish, Announce, CallFails, bounds
  <2>4. ASSUME NEW w \in Executors,
               \/ LoadTracking(w) \/ CheckCancel(w) \/ StartStage(w) \/ StageFails(w)
               \/ Collect(w) \/ FindCommit(w) \/ SaveCommit(w) \/ TakePending(w) \/ Classify(w)
        PROVE  UNCHANGED <<job, canceller, bounds>>
    BY <2>4 DEF LoadTracking, CheckCancel, StartStage, StageFails, Collect, FindCommit,
                SaveCommit, TakePending, Classify
  <2>5. \A w \in Executors : exec[w].verdict \in {"completed", "failed", "cancelled"}
    BY DEF Exec
  <2>6. QED
    BY <2>1, <2>2, <2>3, <2>4, <2>5 DEF Next, Execute, EndsStage, bounds
<1>2. QED
  BY <1>1, CountStep

(* The states map counts six stages per executor at most, however many       *)
(* executions of the job follow each other, and every variable keeps its     *)
(* type.                                                                     *)
THEOREM TypeCorrect == Spec => []TypeOK
<1>1. Init => CountInv
  <2> SUFFICES ASSUME Init PROVE CountInv
    OBVIOUS
  <2>1. \A w \in Executors : exec[w].pc = "idle"
    BY DEF Init, Idle
  <2>2. Left = {}
    BY <2>1 DEF Left
  <2>3. Cardinality(Left) = 0
    BY <2>2, FS_EmptySet
  <2>4. QED
    BY <2>3, LeftFinite, PipelineAssumption DEF Init, CountInv, NoEntry
<1>2. RunInv /\ CountInv => TypeOK
  BY LeftFinite, PipelineAssumption DEF RunInv, Types, CountInv, TypeOK
<1>3. QED
  BY <1>1, <1>2, CountInvStep, AlwaysRunInv, PTL DEF Spec
-----------------------------------------------------------------------------
(* What an execution stored is classified                                    *)

\* how far the classification of what e stored has come
Handled(e) ==
  /\ e.pc \in {"find", "save"} => e.stage = L1Ingestion
  /\ e.pc = "classify" => e.stage = Classification
  /\ \A s \in e.done : s < e.stage
  /\ \A c \in e.saved : Stored(c)
  /\ e.pc = "classify" => \A c \in e.saved : commit[c] = "done" \/ c \in e.todo
  /\ Classification \in e.done => \A c \in e.saved : commit[c] = "done"

ClassifiedInv == \A w \in Executors : Handled(exec[w])

LEMMA IdleIsHandled == Handled(Idle) /\ Handled(Idle)'
BY DEF Handled, Idle

(* A stored commit stays, a classified one stays classified.                 *)
LEMMA CommitGrows ==
  ASSUME RunInv, [Next]_vars, NEW c \in Commits
  PROVE  /\ Stored(c) => Stored(c)'
         /\ commit[c] = "done" => commit'[c] = "done"
<1>1. CASE UNCHANGED commit
  BY <1>1 DEF Stored
<1>2. ASSUME NEW w \in Executors, SaveCommit(w)
      PROVE  UNCHANGED commit \/ \E d : ~Stored(d) /\ commit' = [commit EXCEPT ![d] = "pending"]
  BY <1>2 DEF SaveCommit
<1>3. ASSUME NEW w \in Executors, Classify(w)
      PROVE  UNCHANGED commit \/ \E d : commit' = [commit EXCEPT ![d] = "done"]
  BY <1>3 DEF Classify
<1>4. ASSUME NEW w \in Executors, EndsStage(w) PROVE UNCHANGED commit
  BY <1>4, EndsStageStep
<1>5. ASSUME ~UNCHANGED commit
      PROVE  \E w \in Executors : SaveCommit(w) \/ Classify(w)
  BY <1>4, <1>5 DEF Next, Execute, EndsStage, Begin, Announce, LoadTracking, CheckCancel,
         StartStage, StageFails, Finish, CallFails, Collect, FindCommit, TakePending,
         RequestCancel, MarkCancelling, Crash, Publish, vars, data
<1>6. QED
  BY <1>1, <1>2, <1>3, <1>5 DEF Stored, RunInv, Types

LEMMA HandledStep ==
  ASSUME RunInv, ClassifiedInv, NEW w \in Executors, Execute(w), NEW n, n = exec'[w]
  PROVE  Handled(n)'
<1> DEFINE e == exec[w]
<1>0. /\ e \in Exec /\ exec \in [Executors -> Exec] /\ Sound(e, cancels > 0) /\ Handled(e)
      /\ commit \in [Commits -> {"absent", "pending", "done"}] /\ e.saved \subseteq Commits
      /\ e.todo \subseteq Commits
  BY DEF RunInv, Types, ClassifiedInv, Exec
<1>1. \A c \in Commits : /\ Stored(c) => Stored(c)'
                         /\ commit[c] = "done" => commit'[c] = "done"
  BY CommitGrows DEF Next
<1>2. CASE Finish(w) \/ CallFails(w)
  BY <1>0, <1>2, IdleIsHandled DEF Finish, CallFails
<1>3. CASE \/ Begin(w) \/ Announce(w) \/ LoadTracking(w) \/ CheckCancel(w) \/ StartStage(w)
           \/ StageFails(w)
  <2>1. /\ n.pc \notin {"find", "save", "classify"}
        /\ n.stage = e.stage /\ n.done = e.done /\ n.saved = e.saved
    BY <1>0, <1>3 DEF Begin, Announce, LoadTracking, CheckCancel, StartStage, StageFails,
                      Goto, Exec
  <2>2. QED
    BY <1>0, <1>1, <2>1 DEF Handled
<1>4. CASE Collect(w) \/ FindCommit(w)
  <2>1. /\ n.pc \in {"find", "save"} /\ e.stage = L1Ingestion
        /\ n.stage = e.stage /\ n.done = e.done /\ n.saved = e.saved
    BY <1>0, <1>4 DEF Collect, FindCommit, InStage, At, Exec, Handled
  <2>2. QED
    BY <1>0, <1>1, <2>1 DEF Handled
<1>5. CASE SaveCommit(w)
  <2>1. PICK c \in e.todo :
          /\ n.stage = e.stage /\ n.done = e.done
          /\ n.pc \in {"find", "finish"}
          /\ \/ n.saved = e.saved
             \/ n.saved = e.saved \cup {c} /\ commit' = [commit EXCEPT ![c] = "pending"]
    BY <1>0, <1>5 DEF SaveCommit, Exec
  <2>2. e.stage = L1Ingestion
    BY <1>0, <1>5 DEF SaveCommit, At, Handled
  <2>3. Classification \notin e.done
    BY <1>0, <2>2 DEF Handled
  <2>4. \A d \in n.saved : Stored(d)'
    BY <1>0, <1>1, <2>1 DEF Handled, Stored
  <2>5. QED
    BY <1>0, <2>1, <2>2, <2>3, <2>4 DEF Handled
<1>6. CASE TakePending(w)
  <2>1. /\ n.pc = "classify" /\ n.stage = Classification /\ n.done = e.done
        /\ n.saved = e.saved /\ n.todo = Pending /\ commit' = commit
    BY <1>0, <1>6 DEF TakePending, InStage, Exec, data
  <2>2. \A c \in n.saved : commit[c] = "done" \/ c \in Pending
    BY <1>0, <2>1 DEF Handled, Stored, Pending
  <2>3. QED
    BY <1>0, <1>1, <1>6, <2>1, <2>2 DEF Handled, TakePending, InStage
<1>7. CASE Classify(w)
  <2>1. PICK c \in e.todo :
          /\ n.pc = "classify" /\ n.stage = e.stage /\ n.done = e.done
          /\ n.todo = e.todo \ {c}
          /\ \/ n.saved = e.saved /\ commit' = [commit EXCEPT ![c] = "done"]
             \/ n.saved = e.saved \ {c}
    BY <1>0, <1>7 DEF Classify, At, Exec
  <2>2. e.pc = "classify"
    BY <1>7 DEF Classify, At
  <2>3. \A d \in n.saved : d \in e.saved /\ (commit'[d] = "done" \/ d \in n.todo)
    BY <1>0, <1>1, <2>1, <2>2 DEF Handled
  <2>4. QED
    BY <1>0, <1>1, <2>1, <2>2, <2>3 DEF Handled
<1>8. CASE EndsStage(w)
  <2>1. /\ n.pc \in {"finish", "check"} /\ n.saved = e.saved
        /\ n.stage \in Nat /\ n.stage > e.stage /\ e.stage \in Stages
        /\ n.done = e.done \cup {e.stage} /\ commit' = commit
    BY <1>8, EndsStageStep
  <2>2. \A s \in n.done : s < n.stage
    BY <1>0, <2>1 DEF Handled, Exec
  <2>3. e.stage = Classification => e.pc = "classify" /\ e.todo = {}
    <3>1. \/ e.stage \notin {L1Ingestion, Classification} \/ e.stage = L1Ingestion
          \/ e.pc = "find" \/ (e.pc = "classify" /\ e.todo = {})
      BY <1>8 DEF EndsStage, RunStage, IngestSkipped, IngestEnds, ClassificationEnds,
                  InStage, At
    <3>2. QED
      BY <1>0, <3>1 DEF Handled
  <2>4. Classification \in n.done => \A c \in n.saved : commit'[c] = "done"
    BY <1>0, <2>1, <2>3 DEF Handled
  <2>5. \A c \in n.saved : Stored(c)'
    BY <1>0, <1>1, <2>1 DEF Handled
  <2>6. QED
    BY <2>1, <2>2, <2>4, <2>5 DEF Handled
<1>9. QED
  BY <1>2, <1>3, <1>4, <1>5, <1>6, <1>7, <1>8 DEF Execute, EndsStage

LEMMA ClassifiedStep ==
  ASSUME RunInv, ClassifiedInv, [Next]_vars
  PROVE  ClassifiedInv'
<1>1. ASSUME NEW w \in Executors, exec'[w] = exec[w], NEW n, n = exec'[w]
      PROVE  Handled(n)'
  <2>1. n.saved \subseteq Commits /\ Handled(n)
    BY <1>1 DEF RunInv, Types, Exec, ClassifiedInv
  <2>2. QED
    BY <2>1, CommitGrows DEF Handled
<1>2. CASE exec' = exec
  BY <1>1, <1>2 DEF ClassifiedInv, Handled, Stored
<1>3. ASSUME NEW w \in Executors, Execute(w) PROVE ClassifiedInv'
  <2>1. \A v \in Executors : v # w => exec'[v] = exec[v]
    BY <1>3, ExecuteRewrites DEF Rewrites, RunInv, Types
  <2>2. ASSUME NEW v \in Executors, NEW n, n = exec'[v] PROVE Handled(n)'
    BY <1>1, <1>3, <2>1, <2>2, HandledStep
  <2>3. QED
    BY <2>2 DEF ClassifiedInv, Handled, Stored
<1>4. CASE Crash
  <2>1. \A w \in Executors : exec'[w] = Idle
    BY <1>4 DEF Crash
  <2>2. QED
    BY <2>1 DEF ClassifiedInv, Handled, Idle
<1>5. QED
  BY <1>2, <1>3, <1>4 DEF Next, vars, RequestCancel, MarkCancelling, Publish

(* An execution that went through classification left none of its commits    *)
(* unclassified, however many executions of the job insert and classify the  *)
(* same commits next to it.                                                  *)
THEOREM StoredCommitsClassified == Spec => []StoredGetsClassified
<1>1. Init => ClassifiedInv
  BY DEF Init, Idle, ClassifiedInv, Handled
<1>2. ClassifiedInv => StoredGetsClassified
  BY DEF ClassifiedInv, Handled, StoredGetsClassified
<1>3. QED
  BY <1>1, <1>2, ClassifiedStep, AlwaysRunInv, PTL DEF Spec
=============================================================================
