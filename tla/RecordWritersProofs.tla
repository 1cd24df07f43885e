------------------------- MODULE RecordWritersProofs -------------------------
(***************************************************************************)
(* The machines of MCRecordWriters other than CommitRecords: L0Candidates  *)
(* for any number of programs, commits and mishaps, SyncExecution for any  *)
(* number of executors, trackings and mishaps, and their composition.      *)
(*                                                                         *)
(* The inductive part of the first: what a program has found absent is     *)
(* absent from its own rows until it inserts it, for nobody else writes    *)
(* those.  Of the second nothing beyond the types has to be strengthened:  *)
(* an executor's place says what it will still write, and WritesOf says    *)
(* which step writes a status.                                             *)
(***************************************************************************)
EXTENDS MCRecordWriters, FiniteSetTheorems, TLAPS

(* Upstream commits and backport candidates *)

(* the commits and pairs found absent, before they are inserted *)
AbsentRows ==
  /\ \A w \in L0Writers : l0at[w] = "add" =>
       w \in Watchers /\ \A s \in l0todo[w] : l0rows[s][w] = 0
  /\ \A w \in L0Writers : l0at[w] = "insert" =>
       w \notin Watchers /\ l0rows[l0item[w]][w] = 0

AbsentCands ==
  \A a \in Advisors : adAt[a] = "insert" => adItem[a] \in adTodo[a] /\ cands[adItem[a]][a] = 0

RowsInv ==
  /\ l0rows \in [Shas -> [L0Writers -> Nat]]
  /\ l0at \in [L0Writers -> {"off", "idle", "scan", "add", "insert"}]
  /\ l0todo \in [L0Writers -> SUBSET Shas]
  /\ l0item \in [L0Writers -> Shas \cup {NoItem}]
  /\ \A w \in L0Writers : l0at[w] = "insert" => l0item[w] \in Shas
  /\ AbsentRows
  /\ OneRowPerWriter

CandsInv ==
  /\ cands \in [Pairs -> [Advisors -> Nat]]
  /\ adAt \in [Advisors -> {"off", "idle", "look", "insert"}]
  /\ adTodo \in [Advisors -> SUBSET Pairs]
  /\ adItem \in [Advisors -> Pairs \cup {NoItem}]
  /\ adRead \in [Advisors -> SUBSET Pairs]
  /\ \A a \in Advisors : adAt[a] = "insert" => adItem[a] \in Pairs
  /\ AbsentCands
  /\ OneCandidatePerAdvisor
  /\ AdvisorCovers

L0Inv == RowsInv /\ CandsInv /\ l0mishaps \in 0..MaxL0Mishaps

LEMMA InitL0Inv == L0Init => L0Inv
<1> SUFFICES ASSUME L0Init PROVE L0Inv
  OBVIOUS
<1>1. RowsInv
  BY DEF L0Init, RowsInv, AbsentRows, OneRowPerWriter
<1>2. CandsInv
  BY DEF L0Init, CandsInv, AbsentCands, OneCandidatePerAdvisor, AdvisorCovers
<1>3. QED
  BY <1>1, <1>2, L0Assumption DEF L0Init, L0Inv

LEMMA MishapsBounded ==
  ASSUME l0mishaps \in 0..MaxL0Mishaps, L0Mishap
  PROVE  l0mishaps' \in 0..MaxL0Mishaps
BY L0Assumption DEF L0Mishap

(* one more row of a commit its writer has none of *)
LEMMA InsertedOnce ==
  ASSUME RowsInv, NEW w \in L0Writers, NEW s \in Shas, l0rows[s][w] = 0, InsertRow(w, s)
  PROVE  /\ l0rows' \in [Shas -> [L0Writers -> Nat]]
         /\ \A x \in Shas, v \in L0Writers :
              l0rows'[x][v] = IF x = s /\ v = w THEN 1 ELSE l0rows[x][v]
         /\ OneRowPerWriter'
<1>1. /\ l0rows' \in [Shas -> [L0Writers -> Nat]]
      /\ \A x \in Shas, v \in L0Writers :
           l0rows'[x][v] = IF x = s /\ v = w THEN 1 ELSE l0rows[x][v]
  BY DEF RowsInv, InsertRow
<1>2. QED
  BY <1>1 DEF RowsInv, OneRowPerWriter

LEMMA WriterKeepsRows ==
  ASSUME RowsInv, NEW w \in L0Writers, WriterStep(w)
  PROVE  RowsInv'
<1>1. ASSUME NEW shas \in SUBSET Shas, Listing(w, shas) PROVE RowsInv'
  BY <1>1 DEF Listing, RowsInv, AbsentRows, OneRowPerWriter
<1>2. CASE EndOfListing(w)
  BY <1>2 DEF EndOfListing, RowsInv, AbsentRows, OneRowPerWriter
<1>3. CASE WatcherScan(w)
  <2>1. \A s \in l0todo'[w] : l0rows[s][w] = 0
    BY <1>3 DEF WatcherScan, RowsInv, HasRow
  <2>2. l0todo' \in [L0Writers -> SUBSET Shas]
    BY <1>3 DEF WatcherScan, RowsInv
  <2>3. QED
    BY <1>3, <2>1, <2>2 DEF WatcherScan, RowsInv, AbsentRows, OneRowPerWriter
<1>4. CASE InsertCommit(w)
  <2>1. l0item[w] \in Shas /\ l0rows[l0item[w]][w] = 0 /\ w \notin Watchers
    BY <1>4 DEF InsertCommit, RowsInv, AbsentRows
  <2>2. /\ l0rows' \in [Shas -> [L0Writers -> Nat]]
        /\ \A x \in Shas, v \in L0Writers : v # w => l0rows'[x][v] = l0rows[x][v]
        /\ OneRowPerWriter'
    BY <1>4, <2>1, InsertedOnce DEF InsertCommit
  <2>3. QED
    BY <1>4, <2>1, <2>2 DEF InsertCommit, RowsInv, AbsentRows
<1>5. CASE PushSkips(w)
  BY <1>5 DEF PushSkips, RowsInv, AbsentRows, OneRowPerWriter
<1>6. CASE WriterStops(w)
  BY <1>6 DEF WriterStops, RowsInv, AbsentRows, OneRowPerWriter
<1>7. ASSUME NEW s \in Shas, WatcherInsert(w, s) PROVE RowsInv'
  <2>1. l0rows[s][w] = 0 /\ w \in Watchers
    BY <1>7 DEF WatcherInsert, RowsInv, AbsentRows
  <2>2. /\ l0rows' \in [Shas -> [L0Writers -> Nat]]
        /\ \A x \in Shas, v \in L0Writers :
             l0rows'[x][v] = IF x = s /\ v = w THEN 1 ELSE l0rows[x][v]
        /\ OneRowPerWriter'
    BY <1>7, <2>1, InsertedOnce DEF WatcherInsert
  <2>3. /\ l0todo' \in [L0Writers -> SUBSET Shas]
        /\ l0todo'[w] = l0todo[w] \ {s}
        /\ \A v \in L0Writers : v # w => l0todo'[v] = l0todo[v]
    BY <1>7 DEF WatcherInsert, RowsInv
  <2>4. QED
    BY <1>7, <2>1, <2>2, <2>3 DEF WatcherInsert, RowsInv, AbsentRows
<1>8. ASSUME NEW s \in Shas, LookForCommit(w, s) PROVE RowsInv'
  <2>1. ~HasRow(s) => l0rows[s][w] = 0
    BY DEF HasRow, RowsInv
  <2>2. QED
    BY <1>8, <2>1 DEF LookForCommit, RowsInv, AbsentRows, OneRowPerWriter
<1>9. QED
  BY <1>1, <1>2, <1>3, <1>4, <1>5, <1>6, <1>7, <1>8 DEF WriterStep

LEMMA WriterKeepsCands ==
  ASSUME CandsInv, NEW w \in L0Writers, WriterStep(w)
  PROVE  CandsInv'
<1>1. UNCHANGED advisorVars
  BY DEF WriterStep, Listing, EndOfListing, WatcherScan, InsertCommit, PushSkips,
         WriterStops, WatcherInsert, LookForCommit
<1>2. QED
  BY <1>1 DEF CandsInv, AbsentCands, OneCandidatePerAdvisor, AdvisorCovers, advisorVars

LEMMA AdvisorKeepsRows ==
  ASSUME RowsInv, NEW a \in Advisors, AdvisorStep(a)
  PROVE  RowsInv'
<1>1. UNCHANGED writerVars
  BY DEF AdvisorStep, ReadRows, InsertCandidate, AdvisorDone, AdvisorStops, LookForCandidate
<1>2. QED
  BY <1>1 DEF RowsInv, AbsentRows, OneRowPerWriter, writerVars

LEMMA AdvisorKeepsCands ==
  ASSUME CandsInv, NEW a \in Advisors, AdvisorStep(a)
  PROVE  CandsInv'
<1>1. CASE ReadRows(a)
  <2>1. adTodo' = [adTodo EXCEPT ![a] = adRead'[a]] /\ adRead' \in [Advisors -> SUBSET Pairs]
    BY <1>1 DEF ReadRows, CandsInv
  <2>2. QED
    BY <1>1, <2>1 DEF ReadRows, CandsInv, AbsentCands, OneCandidatePerAdvisor, AdvisorCovers
<1>2. CASE InsertCandidate(a)
  <2>1. adItem[a] \in Pairs /\ adItem[a] \in adTodo[a] /\ cands[adItem[a]][a] = 0
    BY <1>2 DEF InsertCandidate, CandsInv, AbsentCands
  <2>2. /\ cands' \in [Pairs -> [Advisors -> Nat]]
        /\ \A p \in Pairs, b \in Advisors :
             cands'[p][b] = IF p = adItem[a] /\ b = a THEN 1 ELSE cands[p][b]
    BY <1>2, <2>1 DEF InsertCandidate, CandsInv
  <2>3. /\ adTodo' \in [Advisors -> SUBSET Pairs] /\ adTodo'[a] = adTodo[a] \ {adItem[a]}
        /\ \A b \in Advisors : b # a => adTodo'[b] = adTodo[b]
    BY <1>2 DEF InsertCandidate, CandsInv
  <2>4. AdvisorCovers'
    <3>1. \A p \in Pairs : (\E b \in Advisors : cands[p][b] > 0) => \E b \in Advisors : cands'[p][b] > 0
      BY <2>2 DEF CandsInv
    <3>2. \E b \in Advisors : cands'[adItem[a]][b] > 0
      BY <2>1, <2>2
    <3>3. QED
      BY <1>2, <2>1, <2>3, <3>1, <3>2 DEF InsertCandidate, CandsInv, AdvisorCovers
  <2>5. OneCandidatePerAdvisor'
    BY <2>2 DEF CandsInv, OneCandidatePerAdvisor
  <2>6. QED
    BY <1>2, <2>2, <2>3, <2>4, <2>5 DEF InsertCandidate, CandsInv, AbsentCands
<1>3. CASE AdvisorDone(a)
  BY <1>3 DEF AdvisorDone, CandsInv, AbsentCands, OneCandidatePerAdvisor, AdvisorCovers
<1>4. CASE AdvisorStops(a)
  BY <1>4 DEF AdvisorStops, CandsInv, AbsentCands, OneCandidatePerAdvisor, AdvisorCovers
<1>5. ASSUME NEW p \in Pairs, LookForCandidate(a, p) PROVE CandsInv'
  <2>1. CASE HasCandidate(p)
    BY <1>5, <2>1
       DEF LookForCandidate, HasCandidate, CandsInv, AbsentCands, OneCandidatePerAdvisor, AdvisorCovers
  <2>2. CASE ~HasCandidate(p)
    <3>1. cands[p][a] = 0
      BY <2>2 DEF HasCandidate, CandsInv
    <3>2. QED
      BY <1>5, <2>2, <3>1
         DEF LookForCandidate, CandsInv, AbsentCands, OneCandidatePerAdvisor, AdvisorCovers
  <2>3. QED
    BY <2>1, <2>2
<1>6. QED
  BY <1>1, <1>2, <1>3, <1>4, <1>5 DEF AdvisorStep

LEMMA L0InvStep ==
  ASSUME L0Inv, [L0Next]_l0Vars
  PROVE  L0Inv'
<1>1. CASE UNCHANGED l0Vars
  BY <1>1 DEF l0Vars, L0Inv, RowsInv, CandsInv, AbsentRows, AbsentCands, OneRowPerWriter,
             OneCandidatePerAdvisor, AdvisorCovers
<1>2. ASSUME NEW w \in L0Writers, WriterStep(w) PROVE L0Inv'
  <2>1. l0mishaps' \in 0..MaxL0Mishaps
    BY <1>2, MishapsBounded
       DEF L0Inv, WriterStep, Listing, EndOfListing, WatcherScan, InsertCommit, PushSkips,
           WriterStops, WatcherInsert, LookForCommit
  <2>2. QED
    BY <1>2, <2>1, WriterKeepsRows, WriterKeepsCands DEF L0Inv
<1>3. ASSUME NEW a \in Advisors, AdvisorStep(a) PROVE L0Inv'
  <2>1. l0mishaps' \in 0..MaxL0Mishaps
    BY <1>3, MishapsBounded
       DEF L0Inv, AdvisorStep, ReadRows, InsertCandidate, AdvisorDone, AdvisorStops, LookForCandidate
  <2>2. QED
    BY <1>3, <2>1, AdvisorKeepsRows, AdvisorKeepsCands DEF L0Inv
<1>4. QED
  BY <1>1, <1>2, <1>3 DEF L0Next

LEMMA L0Invariant == L0Spec => []L0Inv
BY InitL0Inv, L0InvStep, PTL DEF L0Spec

(* Rows and programs have their types, and an inserter has what to insert.  *)
THEOREM L0TypeCorrect == L0Spec => []L0TypeOK
<1>1. L0Inv => L0TypeOK
  BY DEF L0Inv, RowsInv, CandsInv, L0TypeOK
<1>2. QED
  BY <1>1, L0Invariant, PTL

(* No program stores a commit in l0_commits twice (watcher, poller, push).   *)
THEOREM CommitsStoredOnce == L0Spec => []OneRowPerWriter
<1>1. L0Inv => OneRowPerWriter
  BY DEF L0Inv, RowsInv
<1>2. QED
  BY <1>1, L0Invariant, PTL

(* No pipeline suggests a backport twice (generate_for_package).             *)
THEOREM CandidatesSuggestedOnce == L0Spec => []OneCandidatePerAdvisor
<1>1. L0Inv => OneCandidatePerAdvisor
  BY DEF L0Inv, CandsInv
<1>2. QED
  BY <1>1, L0Invariant, PTL

(* What generate_for_package read and has handled has its candidate.         *)
THEOREM AdvisorsCover == L0Spec => []AdvisorCovers
<1>1. L0Inv => AdvisorCovers
  BY DEF L0Inv, CandsInv
<1>2. QED
  BY <1>1, L0Invariant, PTL
-----------------------------------------------------------------------------
(* Sync executors *)

LEMMA JobsFinite == IsFiniteSet(Jobs)
<1>1. 1 \in Int /\ MaxJobs \in Int
  BY TablesAssumption
<1>2. QED
  BY <1>1, FS_Interval DEF Jobs

(* ORDER BY scheduled_at DESC LIMIT 1 returns a row of the set.             *)
LEMMA NewestIsMember ==
  ASSUME NEW S \in SUBSET Jobs, S # {}
  PROVE  Newest(S) \in S
<1> DEFINE After(j) == {k \in S : j < k}
           T == {After(j) : j \in S}
           R == StrictSubsetOrdering(S)
<1>1. \A j \in S : j \in Nat
  BY DEF Jobs
<1>2. IsFiniteSet(S)
  BY JobsFinite, FS_Subset
<1>3. T \subseteq FiniteSubsetsOf(S) /\ T # {}
  <2>1. ASSUME NEW j \in S PROVE IsFiniteSet(After(j)) /\ After(j) \in SUBSET S
    <3>1. After(j) \in SUBSET S
      OBVIOUS
    <3>2. QED
      BY <1>2, <3>1, FS_Subset
  <2>2. QED
    BY <2>1 DEF FiniteSubsetsOf
<1>4. PICK X \in T : \A Y \in T : ~(<<Y, X>> \in R)
  BY <1>3, WFMin, FS_StrictSubsetOrderingWellFounded
<1>5. PICK j \in S : X = After(j)
  BY <1>4
<1>6. \A k \in S : k <= j
  <2>1. SUFFICES ASSUME NEW k \in S, j < k PROVE FALSE
    BY <1>1
  <2>2. After(k) \subseteq After(j) /\ k \in After(j) /\ k \notin After(k)
    <3>1. \A m \in S : k < m => j < m
      BY <1>1, <2>1
    <3>2. ~(k < k)
      BY <1>1, <2>1
    <3>3. QED
      BY <2>1, <3>1, <3>2
  <2>3. <<After(k), X>> \in R
    BY <1>5, <2>2 DEF StrictSubsetOrdering
  <2>4. QED
    BY <1>4, <2>3
<1>7. QED
  BY <1>6 DEF Newest
-----------------------------------------------------------------------------
(* Types *)

ExTypes ==
  /\ exAt \in [Executors -> ExPhase]
  /\ exTodo \in [Executors -> SUBSET Trackings]
  /\ exCur \in [Executors -> Trackings \cup {None}]
  /\ exJob \in [Executors -> Jobs \cup {0}]
  /\ exOutcome \in [Executors -> {"Success", "Failed", "Skipped"}]
  /\ exKeep \in [Executors -> BOOLEAN]
  /\ \A e \in Executors : exAt[e] \notin {"idle", "next"} => exCur[e] \in Trackings
  /\ \A e \in Executors : exAt[e] \in {"insert", "run", "mark"} => exJob[e] \in Jobs

LEMMA GiveUpTypes ==
  ASSUME ExTypes, NEW e \in Executors, GiveUp(e)
  PROVE  ExTypes'
BY DEF ExTypes, GiveUp, ForgetTask, ExGoto, ExPhase

\* a step to a phase at the same tracking
LEMMA OnwardTypes ==
  ASSUME ExTypes, NEW e \in Executors, NEW phase \in ExPhase, ExGoto(e, phase),
         exAt[e] \notin {"idle", "next"}, UNCHANGED <<exTodo, exCur>>,
         exJob' \in [Executors -> Jobs \cup {0}],
         exOutcome' \in [Executors -> {"Success", "Failed", "Skipped"}],
         exKeep' \in [Executors -> BOOLEAN],
         phase \in {"insert", "run", "mark"} => exJob'[e] \in Jobs,
         \A d \in Executors \ {e} : exJob'[d] = exJob[d]
  PROVE  ExTypes'
BY DEF ExTypes, ExGoto

LEMMA StampIsJob ==
  ASSUME stamp \in 0..MaxJobs, stamp < MaxJobs
  PROVE  stamp + 1 \in Jobs /\ stamp + 1 \in 0..MaxJobs
BY TablesAssumption DEF Jobs

LEMMA ExecutorTypes ==
  ASSUME ExTypes, TablesTypeOK, NEW e \in Executors, ExecutorStep(e)
  PROVE  ExTypes'
<1>0. /\ exJob \in [Executors -> Jobs \cup {0}] /\ exKeep \in [Executors -> BOOLEAN]
      /\ exOutcome \in [Executors -> {"Success", "Failed", "Skipped"}]
      /\ exAt \in [Executors -> ExPhase]
  BY DEF ExTypes
<1>1. CASE ExecutePending(e)
  <2>1. FirstTasks(PendingTrackings(FALSE, None), MaxTasks) \in SUBSET Trackings
    BY DEF FirstTasks, PendingTrackings
  <2>2. QED
    BY <1>1, <2>1 DEF ExecutePending, ExTypes, ExGoto, ExPhase
<1>2. ASSUME NEW ts \in SUBSET Trackings, ExecuteBatch(e, ts) PROVE ExTypes'
  BY <1>2 DEF ExecuteBatch, ExTypes, ExGoto, ExPhase
<1>3. CASE NextTask(e)
  BY <1>3 DEF NextTask, ExTypes, ExGoto, ExPhase
<1>4. CASE CheckHeld(e)
  BY <1>0, <1>4, GiveUpTypes, OnwardTypes DEF CheckHeld, ExPhase
<1>5. CASE EnsureJob(e)
  <2> DEFINE active == ActiveJobs(exCur[e])
  <2>1. CASE /\ active # {} /\ exJob' = [exJob EXCEPT ![e] = Newest(active)] /\ ExGoto(e, "run")
             /\ UNCHANGED <<exTodo, exCur, exOutcome, exKeep>>
    <3>1. active \in SUBSET Jobs
      BY DEF ActiveJobs, RowsOf
    <3>2. Newest(active) \in Jobs
      BY <2>1, <3>1, NewestIsMember
    <3>3. exJob' \in [Executors -> Jobs \cup {0}] /\ exJob'[e] \in Jobs
          /\ \A d \in Executors \ {e} : exJob'[d] = exJob[d]
      BY <1>0, <2>1, <3>2
    <3>4. QED
      BY <1>0, <1>5, <2>1, <3>3, OnwardTypes DEF EnsureJob, ExPhase
  <2>2. CASE /\ stamp < MaxJobs /\ exJob' = [exJob EXCEPT ![e] = stamp + 1] /\ ExGoto(e, "insert")
             /\ UNCHANGED <<exTodo, exCur, exOutcome, exKeep>>
    <3>1. exJob' \in [Executors -> Jobs \cup {0}] /\ exJob'[e] \in Jobs
          /\ \A d \in Executors \ {e} : exJob'[d] = exJob[d]
      BY <1>0, <2>2, StampIsJob DEF TablesTypeOK
    <3>2. QED
      BY <1>0, <1>5, <2>2, <3>1, OnwardTypes DEF EnsureJob, ExPhase
  <2>3. CASE GiveUp(e)
    BY <2>3, GiveUpTypes
  <2>4. QED
    BY <1>5, <2>1, <2>2, <2>3 DEF EnsureJob
<1>6. CASE InsertTask(e)
  BY <1>0, <1>6, GiveUpTypes, OnwardTypes DEF InsertTask, ExPhase, ExTypes
<1>7. CASE RunJob(e)
  <2>1. CASE GiveUp(e)
    BY <2>1, GiveUpTypes
  <2>2. CASE /\ ExGoto(e, "sync") /\ exJob' = [exJob EXCEPT ![e] = 0]
             /\ UNCHANGED <<exTodo, exCur, exOutcome, exKeep>>
    <3>1. exJob' \in [Executors -> Jobs \cup {0}] /\ \A d \in Executors \ {e} : exJob'[d] = exJob[d]
      BY <1>0, <2>2
    <3>2. QED
      BY <1>0, <1>7, <2>2, <3>1, OnwardTypes DEF RunJob, ExPhase
  <2>3. QED
    BY <1>7, <2>1, <2>2 DEF RunJob
<1>8. CASE WriteSyncing(e)
  BY <1>0, <1>8, GiveUpTypes, OnwardTypes DEF WriteSyncing, ExPhase
<1>9. CASE GetTracking(e)
  BY <1>0, <1>9, GiveUpTypes, OnwardTypes DEF GetTracking, ExPhase
<1>10. ASSUME NEW o \in {"Success", "Failed", "Skipped"}, Outcome(e, o),
              exAt[e] \notin {"idle", "next"}
       PROVE  ExTypes'
  <2>1. exOutcome' \in [Executors -> {"Success", "Failed", "Skipped"}]
    BY <1>0, <1>10 DEF Outcome
  <2>2. QED
    BY <1>0, <1>10, <2>1, OnwardTypes DEF Outcome, ExPhase
<1>11. CASE SyncCheck(e)
  <2>1. \/ Outcome(e, "Failed") \/ Outcome(e, "Skipped")
        \/ ExGoto(e, "collect") /\ UNCHANGED <<exTodo, exCur, exJob, exOutcome, exKeep>>
    BY <1>11 DEF SyncCheck
  <2>2. QED
    BY <1>0, <1>10, <1>11, <2>1, OnwardTypes DEF SyncCheck, ExPhase
<1>12. CASE SyncCollect(e)
  BY <1>10, <1>12 DEF SyncCollect
<1>13. CASE CompletionRead(e)
  <2>1. CASE GiveUp(e)
    BY <2>1, GiveUpTypes
  <2>2. CASE /\ exKeep' = [exKeep EXCEPT ![e] = Held(exCur[e])] /\ ExGoto(e, "write")
             /\ UNCHANGED <<exTodo, exCur, exJob, exOutcome>>
    <3>1. exKeep' \in [Executors -> BOOLEAN]
      BY <1>0, <2>2 DEF Held
    <3>2. QED
      BY <1>0, <1>13, <2>2, <3>1, OnwardTypes DEF CompletionRead, ExPhase
  <2>3. QED
    BY <1>13, <2>1, <2>2 DEF CompletionRead
<1>14. CASE CompletionWrite(e)
  BY <1>0, <1>14, GiveUpTypes, OnwardTypes DEF CompletionWrite, ExPhase
<1>15. CASE CompletionLatest(e)
  <2>1. CASE GiveUp(e)
    BY <2>1, GiveUpTypes
  <2>2. CASE /\ RowsOf(exCur[e]) # {} /\ exJob' = [exJob EXCEPT ![e] = Newest(RowsOf(exCur[e]))]
             /\ ExGoto(e, "mark") /\ UNCHANGED <<exTodo, exCur, exOutcome, exKeep>>
    <3>1. RowsOf(exCur[e]) \in SUBSET Jobs
      BY DEF RowsOf
    <3>2. Newest(RowsOf(exCur[e])) \in Jobs
      BY <2>2, <3>1, NewestIsMember
    <3>3. exJob' \in [Executors -> Jobs \cup {0}] /\ exJob'[e] \in Jobs
          /\ \A d \in Executors \ {e} : exJob'[d] = exJob[d]
      BY <1>0, <2>2, <3>2
    <3>4. QED
      BY <1>0, <1>15, <2>2, <3>3, OnwardTypes DEF CompletionLatest, ExPhase
  <2>3. QED
    BY <1>15, <2>1, <2>2 DEF CompletionLatest
<1>16. CASE CompletionMark(e)
  BY <1>16, GiveUpTypes DEF CompletionMark
<1>17. QED
  BY <1>1, <1>2, <1>3, <1>4, <1>5, <1>6, <1>7, <1>8, <1>9, <1>11, <1>12, <1>13, <1>14, <1>15, <1>16
     DEF ExecutorStep

LEMMA ExecutorTables ==
  ASSUME ExTypes, TablesTypeOK, NEW e \in Executors, ExecutorStep(e)
  PROVE  TablesTypeOK'
<1>0. /\ tracking \in [Trackings -> TrackingRow] /\ jobs \in [Jobs -> JobRow]
      /\ stamp \in 0..MaxJobs
      /\ exAt[e] \notin {"idle", "next"} => exCur[e] \in Trackings
      /\ exAt[e] \in {"insert", "run", "mark"} => exJob[e] \in Jobs
  BY DEF ExTypes, TablesTypeOK
<1>1. CASE EnsureJob(e)
  BY <1>0, <1>1, StampIsJob DEF EnsureJob, TakeStamp, TablesTypeOK
<1>2. CASE InsertTask(e)
  BY <1>0, <1>2 DEF InsertTask, InsertJobRow, TablesTypeOK, JobRow
<1>3. ASSUME NEW j \in Jobs, NEW st \in {"running", "succeeded", "failed"}, SetJobStatus(j, st)
      PROVE  jobs' \in [Jobs -> JobRow]
  BY <1>0, <1>3 DEF SetJobStatus, JobRow
<1>4. CASE RunJob(e)
  BY <1>0, <1>3, <1>4 DEF RunJob, TablesTypeOK
<1>5. CASE CompletionMark(e)
  BY <1>0, <1>3, <1>5 DEF CompletionMark, JobStatusOf, TablesTypeOK
<1>6. CASE WriteSyncing(e)
  BY <1>0, <1>6 DEF WriteSyncing, TablesTypeOK, TrackingRow, RowStatus
<1>7. CASE SyncCollect(e)
  <2>1. [status |-> "active", fresh |-> TRUE] \in TrackingRow
    BY DEF TrackingRow, RowStatus
  <2>2. exCur[e] \in Trackings /\ UNCHANGED <<jobs, stamp>>
    BY <1>0, <1>7 DEF SyncCollect
  <2>3. tracking' \in [Trackings -> TrackingRow]
    BY <1>0, <1>7, <2>1, <2>2 DEF SyncCollect, WriteSyncTime
  <2>4. QED
    BY <1>0, <2>2, <2>3 DEF TablesTypeOK
<1>8. CASE CompletionWrite(e)
  BY <1>0, <1>8 DEF CompletionWrite, WriteOutcome, TablesTypeOK, TrackingRow, RowStatus
<1>9. CASE UNCHANGED tables
  BY <1>0, <1>9 DEF tables, TablesTypeOK
<1>10. QED
  BY <1>1, <1>2, <1>4, <1>5, <1>6, <1>7, <1>8, <1>9
     DEF ExecutorStep, ExecutePending, ExecuteBatch, NextTask, CheckHeld, GetTracking, SyncCheck,
         CompletionRead, CompletionLatest

LEMMA HandlerTables ==
  ASSUME TablesTypeOK, TrackingHandlers
  PROVE  TablesTypeOK'
<1>1. \A s \in OperatorWords : s \in RowStatus
  BY ExecutionAssumption
<1>2. PICK t \in Trackings : \/ DeleteTracking(t) \/ BecomeDue(t)
                             \/ \E s \in OperatorWords : CreateTracking(t, s) \/ UpdateTracking(t, s)
  BY DEF TrackingHandlers
<1>3. CASE DeleteTracking(t)
  BY <1>3 DEF DeleteTracking, TablesTypeOK, TrackingRow, JobRow, NoRow
<1>4. QED
  BY <1>1, <1>2, <1>3 DEF CreateTracking, UpdateTracking, BecomeDue, TablesTypeOK, TrackingRow

LEMMA InitExecution == ExecutionInit => ExecutionTypeOK
BY TablesAssumption, ExecutionAssumption
   DEF ExecutionInit, TablesInit, ExecutionTypeOK, TablesTypeOK, TrackingRow, JobRow, NoRow,
       ExPhase, RowStatus

\* the same invariant, by its parts
LEMMA TypeParts ==
  ExecutionTypeOK <=> ExTypes /\ TablesTypeOK /\ exMishaps \in 0..MaxSyncMishaps
BY DEF ExecutionTypeOK, ExTypes

LEMMA MishapSteps ==
  ASSUME ExecutionTypeOK, NEW e \in Executors, SyncCallFails(e) \/ SyncCrash(e)
  PROVE  ExecutionTypeOK' /\ exMishaps' > 0
<1>1. exMishaps' \in 0..MaxSyncMishaps /\ exMishaps' > 0
  BY ExecutionAssumption DEF SyncCallFails, SyncCrash, SyncMishap, ExecutionTypeOK
<1>2. ExTypes'
  BY TypeParts, GiveUpTypes
     DEF SyncCallFails, SyncCrash, ExTypes, ForgetTask, ExGoto, ExPhase
<1>3. TablesTypeOK'
  BY DEF SyncCallFails, SyncCrash, ExecutionTypeOK, TablesTypeOK, tables
<1>4. QED
  BY <1>1, <1>2, <1>3 DEF ExecutionTypeOK, ExTypes

LEMMA TypesStep ==
  ASSUME ExecutionTypeOK, [ExecutionNext]_executionVars
  PROVE  ExecutionTypeOK'
<1>1. ASSUME NEW e \in Executors, ExecutorStep(e) PROVE ExecutionTypeOK'
  <2>1. exMishaps' = exMishaps
    BY <1>1 DEF ExecutorStep, ExecutePending, ExecuteBatch, NextTask, CheckHeld, EnsureJob,
                InsertTask, RunJob, WriteSyncing, GetTracking, SyncCheck, SyncCollect,
                CompletionRead, CompletionWrite, CompletionLatest, CompletionMark
  <2>2. ExTypes' /\ TablesTypeOK'
    BY <1>1, TypeParts, ExecutorTypes, ExecutorTables
  <2>3. QED
    BY <2>1, <2>2 DEF ExecutionTypeOK, ExTypes
<1>2. CASE TrackingHandlers /\ UNCHANGED <<exVars, exMishaps>>
  <2>1. TablesTypeOK'
    BY <1>2, HandlerTables DEF ExecutionTypeOK
  <2>2. QED
    BY <1>2, <2>1 DEF ExecutionTypeOK, exVars
<1>3. CASE UNCHANGED executionVars
  BY <1>3 DEF executionVars, exVars, tables, ExecutionTypeOK, TablesTypeOK
<1>4. QED
  BY <1>1, <1>2, <1>3, MishapSteps DEF ExecutionNext

(* Tables and executors have their types.                                   *)
THEOREM ExecutionTypeCorrect == ExecutionSpec => []ExecutionTypeOK
BY InitExecution, TypesStep, PTL DEF ExecutionSpec
-----------------------------------------------------------------------------
(* Which step of an executor writes a status, and where the executor is     *)
(* before and after it                                                      *)

\* e leaves the others alone, and rows but the one at hand
Local(e) ==
  /\ \A d \in Executors \ {e} : exAt'[d] = exAt[d] /\ exCur'[d] = exCur[d] /\ exKeep'[d] = exKeep[d]
  /\ \A t \in Trackings : t # exCur[e] => tracking'[t].status = tracking[t].status

Reads(e) == \A t \in Trackings : tracking'[t].status = tracking[t].status

LEMMA ExecutorIsLocal ==
  ASSUME ExecutionTypeOK, NEW e \in Executors, ExecutorStep(e)
  PROVE  Local(e)
<1>0. /\ exAt \in [Executors -> ExPhase] /\ exCur \in [Executors -> Trackings \cup {None}]
      /\ exKeep \in [Executors -> BOOLEAN] /\ tracking \in [Trackings -> TrackingRow]
      /\ exAt[e] \notin {"idle", "next"} => exCur[e] \in Trackings
  BY DEF ExecutionTypeOK, TablesTypeOK
<1>1. \A d \in Executors \ {e} : exAt'[d] = exAt[d] /\ exCur'[d] = exCur[d] /\ exKeep'[d] = exKeep[d]
  <2>1. CASE ExecutePending(e) \/ (\E ts \in SUBSET Trackings : ExecuteBatch(e, ts)) \/ NextTask(e)
             \/ CheckHeld(e) \/ EnsureJob(e) \/ InsertTask(e) \/ RunJob(e)
    BY <1>0, <2>1 DEF ExecutePending, ExecuteBatch, NextTask, CheckHeld, EnsureJob, InsertTask,
                      RunJob, GiveUp, ForgetTask, ExGoto
  <2>2. CASE WriteSyncing(e) \/ GetTracking(e) \/ SyncCheck(e) \/ SyncCollect(e)
    BY <1>0, <2>2 DEF WriteSyncing, GetTracking, SyncCheck, SyncCollect, Outcome, GiveUp,
                      ForgetTask, ExGoto
  <2>3. CASE CompletionRead(e) \/ CompletionWrite(e) \/ CompletionLatest(e) \/ CompletionMark(e)
    BY <1>0, <2>3 DEF CompletionRead, CompletionWrite, CompletionLatest, CompletionMark, GiveUp,
                      ForgetTask, ExGoto
  <2>4. QED
    BY <2>1, <2>2, <2>3 DEF ExecutorStep
<1>2. \A t \in Trackings : t # exCur[e] => tracking'[t].status = tracking[t].status
  <2>1. CASE UNCHANGED tracking
    BY <2>1
  <2>2. CASE WriteSyncing(e) \/ SyncCollect(e) \/ CompletionWrite(e)
    BY <1>0, <2>2 DEF WriteSyncing, SyncCollect, WriteSyncTime, CompletionWrite, WriteOutcome
  <2>3. QED
    BY <2>1, <2>2 DEF ExecutorStep, ExecutePending, ExecuteBatch, NextTask, CheckHeld, EnsureJob,
                      InsertTask, RunJob, GetTracking, SyncCheck, CompletionRead,
                      CompletionLatest, CompletionMark, tables
<1>3. QED
  BY <1>1, <1>2 DEF Local

\* what apply_completion makes of a status
LEMMA OutcomeStatus ==
  ASSUME TablesTypeOK, NEW t \in Trackings, NEW result, NEW keep \in BOOLEAN,
         WriteOutcome(t, result, keep)
  PROVE  /\ keep => tracking'[t].status = tracking[t].status
         /\ ~keep => tracking'[t].status \in {"active", "error"}
<1> DEFINE st == IF keep THEN tracking[t].status ELSE IF result = "Failed" THEN "error" ELSE "active"
<1>1. tracking[t] \in TrackingRow
  BY DEF TablesTypeOK
<1>2. tracking'[t] = [[tracking[t] EXCEPT !.status = st] EXCEPT !.fresh = @ \/ result = "Success"]
  BY DEF WriteOutcome, TablesTypeOK
<1>3. tracking'[t].status = st
  BY <1>1, <1>2 DEF TrackingRow
<1>4. QED
  BY <1>3

LEMMA HeldExists == \A t : Held(t) => Exists(t) /\ tracking[t].status # "syncing"
BY DEF Held, Exists, HeldStatus, RowStatus

\* a tracking that was not 'syncing' gets it from an executor that is to clear it
LEMMA SyncingStep ==
  ASSUME ExecutionTypeOK, NEW e \in Executors, ExecutorStep(e), NEW t \in Trackings,
         tracking'[t].status = "syncing",
         tracking[t].status = "syncing" => \E d \in Executors : Syncing(d, t)
  PROVE  \E d \in Executors : Syncing(d, t)'
<1>0. /\ exAt \in [Executors -> ExPhase] /\ exCur \in [Executors -> Trackings \cup {None}]
      /\ exKeep \in [Executors -> BOOLEAN] /\ tracking \in [Trackings -> TrackingRow]
      /\ exAt[e] \notin {"idle", "next"} => exCur[e] \in Trackings
  BY DEF ExecutionTypeOK, TablesTypeOK
<1>1. Local(e)
  BY ExecutorIsLocal
<1>2. ASSUME NEW d \in Executors \ {e}, Syncing(d, t) PROVE Syncing(d, t)'
  BY <1>1, <1>2 DEF Local, Syncing
<1>3. CASE tracking[t].status = "syncing" /\ Syncing(e, t) /\ UNCHANGED tracking
  <2>1. Exists(t) /\ ~Held(t) /\ exCur[e] = t
    BY <1>3 DEF Exists, Held, RowStatus, HeldStatus, Syncing
  <2>2. CASE GetTracking(e)
    BY <1>0, <1>3, <2>1, <2>2 DEF GetTracking, ExGoto, Syncing
  <2>3. CASE SyncCheck(e)
    BY <1>0, <1>3, <2>1, <2>3 DEF SyncCheck, ExGoto, Syncing
  <2>4. CASE SyncCollect(e)
    BY <1>0, <1>3, <2>1, <2>4 DEF SyncCollect, Outcome, ExGoto, Syncing
  <2>5. CASE CompletionRead(e)
    BY <1>0, <1>3, <2>1, <2>5 DEF CompletionRead, ExGoto, Syncing
  <2>6. CASE CompletionWrite(e)
    <3>1. exKeep[e] = FALSE
      BY <1>0, <1>3, <2>6 DEF CompletionWrite, Syncing
    <3>2. tracking'[t].status # "syncing"
      BY <1>0, <2>1, <2>6, <3>1, OutcomeStatus DEF CompletionWrite, ExecutionTypeOK
    <3>3. QED
      BY <3>2
  <2>7. exAt[e] \in {"load", "check", "collect", "complete", "write"}
    BY <1>3 DEF Syncing
  <2>8. QED
    BY <2>2, <2>3, <2>4, <2>5, <2>6, <2>7
       DEF ExecutorStep, ExecutePending, ExecuteBatch, NextTask, CheckHeld, EnsureJob, InsertTask,
           RunJob, WriteSyncing, CompletionLatest, CompletionMark
<1>4. CASE WriteSyncing(e)
  <2>1. CASE exCur[e] = t
    <3>1. Exists(t)
      BY <1>0, <1>4, <2>1 DEF WriteSyncing, GiveUp, ExGoto, Exists, RowStatus
    <3>2. exAt'[e] = "load" /\ exCur'[e] = t
      BY <1>0, <1>4, <2>1, <3>1 DEF WriteSyncing, ExGoto
    <3>3. QED
      BY <3>2 DEF Syncing
  <2>2. CASE exCur[e] # t
    <3>1. PICK d \in Executors : Syncing(d, t)
      BY <1>1, <2>2 DEF Local
    <3>2. d # e
      BY <2>2, <3>1 DEF Syncing
    <3>3. QED
      BY <1>2, <3>1, <3>2
  <2>3. QED
    BY <2>1, <2>2
<1>5. CASE (SyncCollect(e) \/ CompletionWrite(e)) /\ tracking' # tracking
  <2>1. tracking[t].status = "syncing" /\ ~(exCur[e] = t /\ Syncing(e, t))
    <3>1. CASE exCur[e] # t
      BY <1>1, <3>1 DEF Local
    <3>2. CASE exCur[e] = t /\ SyncCollect(e)
      BY <1>0, <1>5, <3>2 DEF SyncCollect, WriteSyncTime
    <3>3. CASE exCur[e] = t /\ CompletionWrite(e)
      BY <1>0, <1>5, <3>3, OutcomeStatus DEF CompletionWrite, ExecutionTypeOK, Syncing
    <3>4. QED
      BY <1>5, <3>1, <3>2, <3>3
  <2>2. PICK d \in Executors : Syncing(d, t)
    BY <2>1
  <2>3. d # e
    BY <2>1, <2>2 DEF Syncing
  <2>4. QED
    BY <1>2, <2>2, <2>3
<1>6. CASE UNCHANGED tracking
  BY <1>2, <1>3, <1>6
<1>7. QED
  BY <1>4, <1>5, <1>6
     DEF ExecutorStep, ExecutePending, ExecuteBatch, NextTask, CheckHeld, EnsureJob, InsertTask,
         RunJob, GetTracking, SyncCheck, CompletionRead, CompletionLatest, CompletionMark, tables

LEMMA HandlersDoNotSync ==
  ASSUME TablesTypeOK, TrackingHandlers, NEW t \in Trackings, tracking'[t].status = "syncing"
  PROVE  tracking[t].status = "syncing"
<1>1. \A s \in OperatorWords : s # "syncing"
  BY ExecutionAssumption
<1>2. QED
  BY <1>1 DEF TrackingHandlers, TablesTypeOK, TrackingRow, CreateTracking, UpdateTracking,
              DeleteTracking, BecomeDue

LEMMA SyncingInvStep ==
  ASSUME ExecutionTypeOK, SyncingHasExecutor, [ExecutionNext]_executionVars
  PROVE  SyncingHasExecutor'
<1>1. SUFFICES ASSUME exMishaps' = 0, NEW t \in Trackings, tracking'[t].status = "syncing"
               PROVE  \E d \in Executors : Syncing(d, t)'
  BY DEF SyncingHasExecutor
<1>2. ASSUME NEW e \in Executors, ExecutorStep(e) PROVE \E d \in Executors : Syncing(d, t)'
  <2>1. exMishaps' = exMishaps
    BY <1>2 DEF ExecutorStep, ExecutePending, ExecuteBatch, NextTask, CheckHeld, EnsureJob,
                InsertTask, RunJob, WriteSyncing, GetTracking, SyncCheck, SyncCollect,
                CompletionRead, CompletionWrite, CompletionLatest, CompletionMark
  <2>2. QED
    BY <1>1, <1>2, <2>1, SyncingStep DEF SyncingHasExecutor
<1>3. CASE TrackingHandlers /\ UNCHANGED <<exVars, exMishaps>>
  <2>1. tracking[t].status = "syncing"
    BY <1>1, <1>3, HandlersDoNotSync DEF ExecutionTypeOK
  <2>2. QED
    BY <1>1, <1>3, <2>1 DEF SyncingHasExecutor, Syncing, exVars
<1>4. CASE UNCHANGED executionVars
  BY <1>1, <1>4 DEF executionVars, exVars, tables, SyncingHasExecutor, Syncing
<1>5. ASSUME NEW e \in Executors, SyncCallFails(e) \/ SyncCrash(e) PROVE FALSE
  BY <1>1, <1>5, MishapSteps
<1>6. QED
  BY <1>2, <1>3, <1>4, <1>5 DEF ExecutionNext

LEMMA InitSyncing == ExecutionInit => SyncingHasExecutor
BY DEF ExecutionInit, TablesInit, SyncingHasExecutor

(* No tracking is left 'syncing' but by a crash or a failed call.           *)
THEOREM SyncingIsCleared == ExecutionSpec => []SyncingHasExecutor
BY InitSyncing, SyncingInvStep, ExecutionTypeCorrect, PTL DEF ExecutionSpec
-----------------------------------------------------------------------------
LEMMA SettledStep ==
  ASSUME ExecutionTypeOK, NEW e \in Executors, ExecutorStep(e), NEW t \in Trackings, Settled(t)
  PROVE  Settled(t)'
<1>0. /\ exAt \in [Executors -> ExPhase] /\ exCur \in [Executors -> Trackings \cup {None}]
      /\ exKeep \in [Executors -> BOOLEAN] /\ tracking \in [Trackings -> TrackingRow]
      /\ exAt[e] \notin {"idle", "next"} => exCur[e] \in Trackings
      /\ Held(t) /\ Exists(t) /\ \A d \in Executors : ~PastCheck(d, t)
  BY HeldExists DEF ExecutionTypeOK, TablesTypeOK, Settled
<1>1. Local(e)
  BY ExecutorIsLocal
<1>2. \A d \in Executors \ {e} : ~PastCheck(d, t)'
  BY <1>0, <1>1 DEF Local, PastCheck
<1>3. tracking'[t].status = tracking[t].status
  <2>1. CASE exCur[e] # t
    BY <1>1, <2>1 DEF Local
  <2>2. CASE exCur[e] = t
    <3>1. exAt[e] \notin {"sync", "collect"} /\ (exAt[e] = "write" => exKeep[e] = TRUE)
      BY <1>0, <2>2 DEF PastCheck
    <3>2. CASE CompletionWrite(e)
      BY <1>0, <2>2, <3>1, <3>2, OutcomeStatus DEF CompletionWrite, ExecutionTypeOK
    <3>3. QED
      BY <3>1, <3>2
         DEF ExecutorStep, ExecutePending, ExecuteBatch, NextTask, CheckHeld, EnsureJob,
             InsertTask, RunJob, WriteSyncing, GetTracking, SyncCheck, SyncCollect,
             CompletionRead, CompletionLatest, CompletionMark, tables
  <2>3. QED
    BY <2>1, <2>2
<1>4. ~PastCheck(e, t)'
  <2>1. CASE ExecutePending(e) \/ (\E ts \in SUBSET Trackings : ExecuteBatch(e, ts)) \/ NextTask(e)
    BY <1>0, <2>1 DEF ExecutePending, ExecuteBatch, NextTask, ExGoto, PastCheck
  <2>2. ASSUME GiveUp(e) PROVE ~PastCheck(e, t)'
    BY <1>0, <2>2 DEF GiveUp, ForgetTask, ExGoto, PastCheck
  <2>3. CASE CheckHeld(e)
    BY <1>0, <2>2, <2>3 DEF CheckHeld, ExGoto, PastCheck
  <2>4. CASE EnsureJob(e) \/ InsertTask(e) \/ RunJob(e) \/ WriteSyncing(e)
    <3>1. exCur[e] # t
      BY <1>0, <2>4 DEF EnsureJob, InsertTask, RunJob, WriteSyncing, PastCheck
    <3>2. exCur'[e] = exCur[e] \/ GiveUp(e)
      BY <2>4 DEF EnsureJob, InsertTask, RunJob, WriteSyncing
    <3>3. QED
      BY <2>2, <3>1, <3>2 DEF PastCheck
  <2>5. CASE GetTracking(e)
    BY <1>0, <2>2, <2>5 DEF GetTracking, ExGoto, PastCheck
  <2>6. CASE SyncCheck(e)
    BY <1>0, <2>6 DEF SyncCheck, Outcome, ExGoto, PastCheck
  <2>7. CASE SyncCollect(e)
    BY <1>0, <2>7 DEF SyncCollect, Outcome, ExGoto, PastCheck
  <2>8. CASE CompletionRead(e)
    BY <1>0, <2>2, <2>8 DEF CompletionRead, ExGoto, PastCheck
  <2>9. CASE CompletionWrite(e) \/ CompletionLatest(e) \/ CompletionMark(e)
    BY <1>0, <2>2, <2>9 DEF CompletionWrite, CompletionLatest, CompletionMark, ExGoto, PastCheck
  <2>10. QED
    BY <2>1, <2>3, <2>4, <2>5, <2>6, <2>7, <2>8, <2>9 DEF ExecutorStep
<1>5. QED
  BY <1>0, <1>2, <1>3, <1>4 DEF Settled, Held

LEMMA MishapsSettle ==
  ASSUME ExecutionTypeOK, NEW e \in Executors, SyncCallFails(e) \/ SyncCrash(e),
         NEW t \in Trackings, Settled(t)
  PROVE  Settled(t)'
BY DEF ExecutionTypeOK, SyncCallFails, SyncCrash, GiveUp, ForgetTask, ExGoto, tables, Settled,
       Held, PastCheck

(* A pause sticks, over any number of executors of the tracking.            *)
THEOREM ExecutorsLetPausesStick == ExecutionSpec => ExecutorPauseSticks
<1>1. ASSUME ExecutionTypeOK, [ExecutionNext]_executionVars
      PROVE  [\A t \in Trackings : Settled(t) => Settled(t)' \/ UNCHANGED exVars]_executionVars
  BY <1>1, SettledStep, MishapsSettle DEF ExecutionNext
<1>2. QED
  BY <1>1, ExecutionTypeCorrect, PTL DEF ExecutionSpec, ExecutorPauseSticks
-----------------------------------------------------------------------------
(* The composition *)

(* Every behaviour of the three machines together, each in its scope, is a  *)
(* behaviour of each of them.                                               *)
LEMMA WritersCompose == MCSpec => RecordsSpec /\ L0Spec /\ ExecutionSpec
<1>1. MCInit => RecordsInit /\ L0Init /\ ExecutionInit
  BY DEF MCInit
<1>2. [MCNext]_<<recordVars, l0Vars, executionVars, scope>> =>
        [RecordsNext]_recordVars /\ [L0Next]_l0Vars /\ [ExecutionNext]_executionVars
  BY DEF MCNext
<1>3. QED
  BY <1>1, <1>2, PTL DEF MCSpec, RecordsSpec, L0Spec, ExecutionSpec

(* The types of both machines hold in every behaviour of the composition.   *)
THEOREM WritersTypeCorrect == MCSpec => []WritersTypeOK
<1>1. L0TypeOK /\ ExecutionTypeOK => WritersTypeOK
  BY DEF WritersTypeOK
<1>2. QED
  BY <1>1, WritersCompose, L0TypeCorrect, ExecutionTypeCorrect, PTL
=============================================================================
