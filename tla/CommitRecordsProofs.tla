------------------------- MODULE CommitRecordsProofs -------------------------
(***************************************************************************)
(* CommitRecords for any number of programs, commits, jobs and mishaps.    *)
(* Six inductive invariants, one built on the other:                       *)
(*   Typed      types, and which program can be at which phase             *)
(*   JobsInv    a started job is never pending, and the stamp an importer  *)
(*              holds names no row yet                                     *)
(*   ListsInv   what a list holds has no verdict of the list's owner       *)
(*   StoreInv   a commit a store has dropped shares its release            *)
(*   CoverInv   an imported commit has a row, and is covered               *)
(*   OpenInv    whose every open job is                                    *)
(***************************************************************************)
EXTENDS CommitRecords, FiniteSetTheorems, TLAPS

(* What "ORDER BY ... ASC LIMIT 1" returns: a member, and none is earlier.  *)
LEMMA EarliestIsFirst ==
  ASSUME NEW S \in SUBSET Nat, S # {}, IsFiniteSet(S)
  PROVE  Earliest(S) \in S /\ \A k \in S : Earliest(S) <= k
<1> DEFINE Before(j) == {k \in S : k < j}
           T == {Before(j) : j \in S}
           R == StrictSubsetOrdering(S)
<1>0. \A k \in S : k \in Nat
  OBVIOUS
<1>1. T \subseteq FiniteSubsetsOf(S) /\ T # {}
  <2>1. ASSUME NEW j \in S PROVE IsFiniteSet(Before(j)) /\ Before(j) \in SUBSET S
    <3>1. Before(j) \in SUBSET S
      OBVIOUS
    <3>2. QED
      BY <3>1, FS_Subset
  <2>2. QED
    BY <2>1 DEF FiniteSubsetsOf
<1>2. PICK X \in T : \A Y \in T : ~(<<Y, X>> \in R)
  BY <1>1, WFMin, FS_StrictSubsetOrderingWellFounded
<1>3. PICK j \in S : X = Before(j)
  BY <1>2
<1>4. \A k \in S : j <= k
  <2>1. SUFFICES ASSUME NEW k \in S, k < j PROVE FALSE
    BY <1>0
  <2>2. Before(k) \subseteq Before(j) /\ k \in Before(j) /\ k \notin Before(k)
    <3>1. \A m \in S : m < k => m < j
      BY <1>0, <2>1
    <3>2. k \in Nat /\ ~(k < k)
      BY <1>0, <2>1
    <3>3. QED
      BY <2>1, <3>1, <3>2
  <2>3. <<Before(k), X>> \in R
    BY <1>3, <2>2 DEF StrictSubsetOrdering
  <2>4. QED
    BY <1>2, <2>3
<1>5. QED
  BY <1>4 DEF Earliest

LEMMA EarliestOfList ==
  ASSUME NEW S \in SUBSET Commits, S # {}
  PROVE  Earliest(S) \in S
<1>1. S \in SUBSET Nat /\ IsFiniteSet(S)
  BY RecordsAssumption, FS_Subset
<1>2. QED
  BY <1>1, EarliestIsFirst

LEMMA EarliestJob ==
  ASSUME PendingClassJobs # {}
  PROVE  Earliest(PendingClassJobs) \in PendingClassJobs
<1>1. IsFiniteSet(CJobs)
  <2>1. 1 \in Int /\ MaxClassJobs \in Int
    BY RecordsAssumption
  <2>2. QED
    BY <2>1, FS_Interval DEF CJobs
<1>2. PendingClassJobs \in SUBSET CJobs /\ PendingClassJobs \in SUBSET Nat
  BY DEF PendingClassJobs, CJobs
<1>3. QED
  BY <1>1, <1>2, FS_Subset, EarliestIsFirst
-----------------------------------------------------------------------------
(* Types *)

\* who can be at which phase
Places ==
  \A p \in Programs :
    /\ at[p] \in {"enqueue", "queue"} => p \in Importers
    /\ at[p] \in {"fetch", "mark"} => p \in Runners
    /\ at[p] \in {"look", "insert", "failed"} => p \in Writers
    /\ at[p] \in {"read", "classify"} => p \in Classifiers

Typed == RecordsTypeOK /\ Places

LEMMA InitTyped == RecordsInit => Typed
<1> SUFFICES ASSUME RecordsInit PROVE Typed
  OBVIOUS
<1>1. PICK crew \in SUBSET Programs :
        at = [p \in Programs |-> CASE p \notin crew -> "off"
                                   [] p \in Runners -> "fetch"
                                   [] p \in Stages -> "read"
                                   [] OTHER -> "look"]
  BY DEF RecordsInit
<1>2. at \in [Programs -> {"off", "fetch", "read", "look"}] /\ Places
  BY <1>1 DEF Places, Programs, Classifiers
<1>3. QED
  BY <1>2, RecordsAssumption DEF RecordsInit, Typed, RecordsTypeOK, Class, Phase, Writers

LEMMA MishapBound ==
  ASSUME mishaps \in 0..MaxMishaps, Mishap
  PROVE  mishaps' \in 0..MaxMishaps /\ mishaps' > 0
BY RecordsAssumption DEF Mishap

\* the steps on a row, a list and an item, of any writer
LEMMA LookTyped ==
  ASSUME Typed, NEW i \in Importers \cup Pushers, NEW c \in Commits, ImportLook(i, c)
  PROVE  Typed'
<1>1. i \in Programs
  BY DEF Programs, Writers
<1>2. QED
  BY <1>1 DEF Typed, RecordsTypeOK, Places, ImportLook, Drop, Goto, records, histories,
              Phase, Programs, Writers

LEMMA ImporterTyped ==
  ASSUME Typed, NEW i \in Importers, ImporterStep(i)
  PROVE  Typed'
<1>0. i \in Programs /\ i \in Writers
  BY DEF Programs, Writers
<1>1. ASSUME NEW c \in Commits, ImportLook(i, c) PROVE Typed'
  BY <1>1, LookTyped
<1>2. CASE ImportInsert(i)
  <2>1. item[i] \in Commits
    BY <1>0, <1>2 DEF ImportInsert, Typed, RecordsTypeOK
  <2>2. record' \in [Commits -> Class] /\ imported' \in SUBSET Commits
    BY <1>2, <2>1 DEF ImportInsert, InsertRecord, Typed, RecordsTypeOK, Class
  <2>3. at' \in [Programs -> Phase] /\ at'[i] \in {"enqueue", "failed"}
        /\ \A p \in Programs : p # i => at'[p] = at[p]
    BY <1>0, <1>2 DEF ImportInsert, Goto, Typed, RecordsTypeOK, Phase
  <2>4. QED
    BY <1>0, <1>2, <2>1, <2>2, <2>3 DEF ImportInsert, Typed, RecordsTypeOK, Places
<1>3. CASE EnqueueFind(i)
  <2>0. item[i] \in Commits
    BY <1>0, <1>3 DEF EnqueueFind, Typed, RecordsTypeOK
  <2>1. CASE JobsToReuse # {} /\ Drop(i, item[i]) /\ Goto(i, "look") /\ UNCHANGED <<cstamp, own>>
    <3>1. missed' \in SUBSET Commits
      BY <1>3, <2>0 DEF EnqueueFind, Typed, RecordsTypeOK
    <3>2. QED
      BY <1>0, <1>3, <2>1, <3>1
         DEF EnqueueFind, Typed, RecordsTypeOK, Places, Drop, Goto, Phase
  <2>2. CASE /\ cstamp < MaxClassJobs /\ cstamp' = cstamp + 1
             /\ own' = [own EXCEPT ![i] = cstamp']
             /\ Goto(i, "queue") /\ UNCHANGED <<todo, missed>>
    <3>1. cstamp' \in 0..MaxClassJobs /\ cstamp' \in CJobs
      BY <2>2, RecordsAssumption DEF Typed, RecordsTypeOK, CJobs
    <3>2. QED
      BY <1>0, <1>3, <2>0, <2>2, <3>1
         DEF EnqueueFind, Typed, RecordsTypeOK, Places, Goto, Phase
  <2>3. QED
    BY <1>3, <2>1, <2>2 DEF EnqueueFind
<1>4. CASE EnqueueInsert(i)
  BY <1>0, <1>4 DEF EnqueueInsert, Typed, RecordsTypeOK, Places, Drop, Goto, Phase, histories
<1>5. CASE ImportAgain(i)
  BY <1>0, <1>5, MishapBound
     DEF ImportAgain, Typed, RecordsTypeOK, Places, Goto, Phase, records
<1>6. QED
  BY <1>1, <1>2, <1>3, <1>4, <1>5 DEF ImporterStep

LEMMA PusherTyped ==
  ASSUME Typed, NEW p \in Pushers, PusherStep(p)
  PROVE  Typed'
<1>0. p \in Programs /\ p \in Writers
  BY DEF Programs, Writers
<1>1. ASSUME NEW c \in Commits, PushLook(p, c) PROVE Typed'
  BY <1>1, LookTyped DEF PushLook
<1>2. CASE PushInsert(p)
  <2>1. item[p] \in Commits
    BY <1>0, <1>2 DEF PushInsert, Typed, RecordsTypeOK
  <2>2. record' \in [Commits -> Class]
    BY <1>2, <2>1 DEF PushInsert, InsertRecord, Typed, RecordsTypeOK, Class
  <2>3. QED
    BY <1>0, <1>2, <2>2
       DEF PushInsert, Typed, RecordsTypeOK, Places, Drop, Goto, Phase, histories
<1>3. QED
  BY <1>1, <1>2 DEF PusherStep

LEMMA StoreTyped ==
  ASSUME Typed, NEW s \in Stores, StoreStep(s)
  PROVE  Typed'
<1>0. s \in Programs /\ s \in Writers
  BY DEF Programs, Writers
<1>1. CASE StoreLook(s)
  <2> DEFINE c == Earliest(todo[s])
  <2>1. c \in Commits
    BY <1>0, <1>1, EarliestOfList DEF StoreLook, Typed, RecordsTypeOK
  <2>2. ReleaseOf[c] \in Releases
    BY <2>1, RecordsAssumption
  <2>3. CASE Drop(s, c) /\ UNCHANGED <<at, item, seen>>
    BY <1>0, <1>1, <2>3 DEF StoreLook, Typed, RecordsTypeOK, Places, Drop, records, histories
  <2>4. ASSUME NEW known \in BOOLEAN,
               seen' = [seen EXCEPT ![s] = IF known THEN @ \cup {ReleaseOf[c]} ELSE @],
               Drop(s, c) /\ UNCHANGED <<at, item>>
        PROVE  Typed'
    BY <1>0, <1>1, <2>2, <2>4 DEF StoreLook, Typed, RecordsTypeOK, Places, Drop, records, histories
  <2>5. ASSUME NEW known \in BOOLEAN,
               seen' = [seen EXCEPT ![s] = IF known THEN @ \cup {ReleaseOf[c]} ELSE @],
               item' = [item EXCEPT ![s] = c], Goto(s, "insert"), UNCHANGED todo
        PROVE  Typed'
    BY <1>0, <1>1, <2>1, <2>2, <2>5
       DEF StoreLook, Typed, RecordsTypeOK, Places, Goto, Phase, records, histories
  <2>6. QED
    BY <1>1, <2>3, <2>4, <2>5 DEF StoreLook
<1>2. CASE StoreInsert(s)
  <2>1. item[s] \in Commits
    BY <1>0, <1>2 DEF StoreInsert, Typed, RecordsTypeOK
  <2>2. record' \in [Commits -> Class]
    BY <1>2, <2>1 DEF StoreInsert, InsertRecord, Typed, RecordsTypeOK, Class
  <2>3. QED
    BY <1>0, <1>2, <2>2
       DEF StoreInsert, Typed, RecordsTypeOK, Places, Drop, Goto, Phase, histories
<1>3. CASE StoreAgain(s)
  BY <1>0, <1>3, MishapBound DEF StoreAgain, Typed, RecordsTypeOK, Places, Goto, Phase, records
<1>4. QED
  BY <1>1, <1>2, <1>3 DEF StoreStep

\* a list is of pending commits
LEMMA ListIsPending == FirstOf(PendingCommits, Limit) \subseteq PendingCommits
BY DEF FirstOf

LEMMA RunnerTyped ==
  ASSUME Typed, NEW r \in Runners, RunnerStep(r)
  PROVE  Typed'
<1>0. r \in Programs /\ r \in Classifiers
  BY DEF Programs, Classifiers
<1>1. CASE Fetch(r)
  <2>1. Earliest(PendingClassJobs) \in CJobs
    BY <1>1, EarliestJob DEF Fetch, PendingClassJobs
  <2>2. QED
    BY <1>0, <1>1, <2>1 DEF Fetch, Typed, RecordsTypeOK, Places, Goto, Phase, records, histories
<1>2. CASE MarkStarted(r)
  <2>1. own[r] \in CJobs
    BY <1>0, <1>2 DEF MarkStarted, Typed, RecordsTypeOK
  <2>2. starts' \in [CJobs -> [Runners -> Nat]]
    BY <1>2, <2>1 DEF MarkStarted, Typed, RecordsTypeOK
  <2>3. QED
    BY <1>0, <1>2, <2>1, <2>2 DEF MarkStarted, Typed, RecordsTypeOK, Places, Goto, Phase
<1>3. CASE ReadList(r)
  <2>1. todo' = [todo EXCEPT ![r] = FirstOf(PendingCommits, Limit)]
        /\ FirstOf(PendingCommits, Limit) \in SUBSET Commits
    BY <1>3, ListIsPending DEF ReadList, PendingCommits
  <2>2. missed' \in SUBSET Commits
    BY <1>3 DEF ReadList, Typed, RecordsTypeOK
  <2>3. QED
    BY <1>0, <1>3, <2>1, <2>2 DEF ReadList, Typed, RecordsTypeOK, Places, Goto, Phase, records
<1>4. CASE ClassifyNext(r)
  <2> DEFINE c == Earliest(todo[r])
  <2>1. c \in Commits
    BY <1>0, <1>4, EarliestOfList DEF ClassifyNext, Typed, RecordsTypeOK
  <2>2. record' \in [Commits -> Class]
    BY <1>4, <2>1 DEF ClassifyNext, Typed, RecordsTypeOK, Class
  <2>3. verdicts' \in [Commits -> [Classifiers -> Nat]]
    BY <1>0, <1>4, <2>1 DEF ClassifyNext, Typed, RecordsTypeOK
  <2>4. QED
    BY <1>0, <1>4, <2>2, <2>3 DEF ClassifyNext, Typed, RecordsTypeOK, Places, Drop
<1>5. ASSUME NEW outcome \in {"succeeded", "failed"}, CloseJob(r, outcome),
             mishaps' \in 0..MaxMishaps
      PROVE  Typed'
  BY <1>0, <1>5 DEF CloseJob, Typed, RecordsTypeOK, Places, Goto, Phase
<1>6. CASE MarkSucceeded(r)
  BY <1>5, <1>6 DEF MarkSucceeded, Typed, RecordsTypeOK
<1>7. CASE MarkFailed(r)
  BY <1>5, <1>7, MishapBound DEF MarkFailed, Typed, RecordsTypeOK
<1>8. QED
  BY <1>1, <1>2, <1>3, <1>4, <1>6, <1>7 DEF RunnerStep

LEMMA StageTyped ==
  ASSUME Typed, NEW g \in Stages, StageStep(g)
  PROVE  Typed'
<1>0. g \in Programs /\ g \in Classifiers
  BY DEF Programs, Classifiers
<1>1. CASE StageRead(g)
  BY <1>0, <1>1
     DEF StageRead, PendingCommits, Typed, RecordsTypeOK, Places, Goto, Phase, records, histories
<1>2. ASSUME NEW c \in Commits, StageClassify(g, c) PROVE Typed'
  <2>1. record' \in [Commits -> Class]
    BY <1>2 DEF StageClassify, Typed, RecordsTypeOK, Class
  <2>2. verdicts' \in [Commits -> [Classifiers -> Nat]]
    <3>1. verdicts \in [Commits -> [Classifiers -> Nat]] /\ g \in Classifiers
      BY <1>0 DEF Typed, RecordsTypeOK
    <3>2. verdicts' = [verdicts EXCEPT ![c][g] = @ + 1] \/ verdicts' = verdicts
      BY <1>2 DEF StageClassify
    <3>3. QED
      BY <3>1, <3>2
  <2>3. QED
    BY <1>0, <1>2, <2>1, <2>2 DEF StageClassify, Typed, RecordsTypeOK, Places, Drop
<1>3. CASE StageAgain(g)
  BY <1>0, <1>3 DEF StageAgain, Typed, RecordsTypeOK, Places, Goto, Phase, records, histories
<1>4. QED
  BY <1>1, <1>2, <1>3 DEF StageStep

LEMMA CrashTyped ==
  ASSUME Typed, NEW p \in Programs, Crash(p)
  PROVE  Typed'
<1>1. PICK ph \in {"fetch", "read", "failed"} :
        /\ Goto(p, ph)
        /\ ph = "fetch" => p \in Runners
        /\ ph = "read" => p \in Stages
        /\ ph = "failed" => p \in Writers
  BY DEF Crash, Programs, Classifiers
<1>2. QED
  BY <1>1, MishapBound
     DEF Crash, Typed, RecordsTypeOK, Places, Goto, Phase, records, Classifiers

LEMMA TypedStep ==
  ASSUME Typed, [RecordsNext]_recordVars
  PROVE  Typed'
<1>1. CASE UNCHANGED recordVars
  BY <1>1 DEF recordVars, records, programs, histories, Typed, RecordsTypeOK, Places
<1>2. QED
  BY <1>1, ImporterTyped, PusherTyped, StoreTyped, RunnerTyped, StageTyped, CrashTyped
     DEF RecordsNext

LEMMA TypedAlways == RecordsSpec => []Typed
BY InitTyped, TypedStep, PTL DEF RecordsSpec

(* Rows, jobs and programs have their types.                                *)
THEOREM RecordsTypeCorrect == RecordsSpec => []RecordsTypeOK
<1>1. Typed => RecordsTypeOK
  BY DEF Typed
<1>2. QED
  BY <1>1, TypedAlways, PTL
-----------------------------------------------------------------------------
(* Jobs *)

JobsInv ==
  /\ \A j \in CJobs : cjob[j] \in {"absent", "pending"} => \A r \in Runners : starts[j][r] = 0
  /\ \A j \in CJobs : j > cstamp => cjob[j] = "absent"
  /\ \A i \in Programs : at[i] = "queue" => own[i] <= cstamp /\ cjob[own[i]] = "absent"
  /\ \A i, k \in Programs : at[i] = "queue" /\ at[k] = "queue" /\ i # k => own[i] # own[k]
  /\ \A r \in Runners : at[r] = "mark" => cjob[own[r]] # "absent" /\ starts[own[r]][r] = 0
  /\ \A r \in Runners : at[r] \in {"read", "classify"} => own[r] \in CJobs /\ starts[own[r]][r] > 0
  /\ StartsBounded

LEMMA InitJobs == RecordsInit => JobsInv
<1> SUFFICES ASSUME RecordsInit PROVE JobsInv
  OBVIOUS
<1>1. PICK crew \in SUBSET Programs :
        at = [p \in Programs |-> CASE p \notin crew -> "off"
                                   [] p \in Runners -> "fetch"
                                   [] p \in Stages -> "read"
                                   [] OTHER -> "look"]
  BY DEF RecordsInit
<1>2. \A p \in Programs : at[p] \in {"off", "fetch", "look", "read"}
  BY <1>1
<1>3. \A r \in Runners : r \in Programs /\ at[r] \in {"off", "fetch"}
  BY <1>1, RecordsAssumption DEF Programs, Classifiers
<1>4. \A j \in CJobs : cjob[j] = "absent" /\ \A r \in Runners : starts[j][r] = 0
  BY DEF RecordsInit
<1>5. QED
  BY <1>2, <1>3, <1>4 DEF JobsInv, StartsBounded

\* a step of p that neither writes a job nor brings p to one
Quiet(p) ==
  /\ UNCHANGED <<cjob, cstamp, own, starts>>
  /\ \A q \in Programs : q # p => at'[q] = at[q]
  /\ \/ at'[p] = at[p]
     \/ at'[p] \notin {"queue", "mark"} /\ (p \in Runners => at'[p] \notin {"read", "classify"})

LEMMA QuietKeepsJobs ==
  ASSUME JobsInv, NEW p \in Programs, Quiet(p)
  PROVE  JobsInv'
<1>1. \A q \in Programs : at'[q] \in {"queue", "mark"} => at'[q] = at[q]
  BY DEF Quiet
<1>2. \A r \in Runners : at'[r] \in {"mark", "read", "classify"} => at'[r] = at[r]
  BY DEF Quiet, Programs, Classifiers
<1>3. QED
  BY <1>1, <1>2 DEF Quiet, JobsInv, StartsBounded

LEMMA ImporterJobs ==
  ASSUME Typed, JobsInv, NEW i \in Importers, ImporterStep(i)
  PROVE  JobsInv'
<1>0. i \in Programs /\ i \notin Runners
  BY RecordsAssumption DEF Programs, Writers, Classifiers
<1>1. ASSUME NEW c \in Commits, ImportLook(i, c) PROVE Quiet(i)
  BY <1>0, <1>1 DEF ImportLook, Quiet, Drop, Goto, records, histories, Typed, RecordsTypeOK
<1>2. CASE ImportInsert(i)
  <2>1. Quiet(i)
    BY <1>0, <1>2 DEF ImportInsert, Quiet, Goto, Typed, RecordsTypeOK
  <2>2. QED
    BY <1>0, <2>1, QuietKeepsJobs
<1>3. CASE EnqueueFind(i)
  <2>1. CASE Drop(i, item[i]) /\ Goto(i, "look") /\ UNCHANGED <<cstamp, own>>
    <3>1. Quiet(i)
      BY <1>0, <1>3, <2>1 DEF EnqueueFind, Quiet, Goto, Typed, RecordsTypeOK
    <3>2. QED
      BY <1>0, <3>1, QuietKeepsJobs
  <2>2. CASE /\ cstamp < MaxClassJobs /\ cstamp' = cstamp + 1
             /\ own' = [own EXCEPT ![i] = cstamp']
             /\ Goto(i, "queue")
    <3>1. /\ cstamp \in Nat /\ cstamp' \in CJobs /\ cstamp' > cstamp
          /\ cjob' = cjob /\ starts' = starts
      BY <1>3, <2>2, RecordsAssumption DEF EnqueueFind, Typed, RecordsTypeOK, CJobs
    <3>2. /\ own'[i] = cstamp' /\ \A q \in Programs : q # i => own'[q] = own[q] /\ at'[q] = at[q]
          /\ at'[i] = "queue"
      BY <1>0, <2>2 DEF Goto, Typed, RecordsTypeOK
    <3>3. \A r \in Runners : r \in Programs /\ r # i
      BY <1>0 DEF Programs, Classifiers
    <3>4. \A q \in Programs : at[q] = "queue" => own[q] \in CJobs /\ own[q] <= cstamp
      BY DEF Typed, RecordsTypeOK, JobsInv
    <3>5. \A j \in CJobs : j \in Nat
      BY DEF CJobs
    <3>6. \A q \in Programs : q # i /\ at[q] = "queue" => own'[q] # own'[i] /\ own'[q] <= cstamp'
      BY <3>1, <3>2, <3>4, <3>5
    <3>7. \A j \in CJobs : j > cstamp' => j > cstamp
      BY <3>1, <3>5
    <3>8. cjob'[own'[i]] = "absent"
      BY <3>1, <3>2 DEF JobsInv
    <3>9. \A a, k \in Programs : at'[a] = "queue" /\ at'[k] = "queue" /\ a # k => own'[a] # own'[k]
      BY <3>2, <3>6 DEF JobsInv
    <3>10. \A a \in Programs : at'[a] = "queue" => own'[a] <= cstamp' /\ cjob'[own'[a]] = "absent"
      BY <3>1, <3>2, <3>5, <3>6, <3>8 DEF JobsInv
    <3>11. /\ \A r \in Runners : at'[r] = "mark" => cjob'[own'[r]] # "absent" /\ starts'[own'[r]][r] = 0
           /\ \A r \in Runners : at'[r] \in {"read", "classify"} =>
                own'[r] \in CJobs /\ starts'[own'[r]][r] > 0
      BY <3>1, <3>2, <3>3 DEF JobsInv
    <3>12. QED
      BY <3>1, <3>7, <3>9, <3>10, <3>11 DEF JobsInv, StartsBounded
  <2>3. QED
    BY <1>3, <2>1, <2>2 DEF EnqueueFind
<1>4. CASE EnqueueInsert(i)
  <2>1. own[i] \in CJobs /\ cjob[own[i]] = "absent" /\ own[i] <= cstamp
    BY <1>0, <1>4 DEF EnqueueInsert, Typed, RecordsTypeOK, JobsInv
  <2>2. /\ cjob'[own[i]] = "pending" /\ \A j \in CJobs : j # own[i] => cjob'[j] = cjob[j]
        /\ starts' = starts /\ cstamp' = cstamp /\ own' = own
    BY <1>4, <2>1 DEF EnqueueInsert, Typed, RecordsTypeOK, histories
  <2>3. at'[i] = "look" /\ \A q \in Programs : q # i => at'[q] = at[q]
    BY <1>0, <1>4 DEF EnqueueInsert, Goto, Typed, RecordsTypeOK
  <2>4. \A r \in Runners : r \in Programs /\ r # i
    BY <1>0 DEF Programs, Classifiers
  <2>5. \A j \in CJobs : j > cstamp => j # own[i]
    BY <2>1, RecordsAssumption DEF CJobs, Typed, RecordsTypeOK
  <2>6. \A a \in Programs : at'[a] = "queue" => own[a] \in CJobs /\ own[a] # own[i]
    BY <1>0, <1>4, <2>3 DEF EnqueueInsert, JobsInv, Typed, RecordsTypeOK
  <2>7. \A r \in Runners : at[r] = "mark" => own[r] \in CJobs
    BY <2>4 DEF Typed, RecordsTypeOK
  <2>8. QED
    BY <2>1, <2>2, <2>3, <2>4, <2>5, <2>6, <2>7 DEF JobsInv, StartsBounded
<1>5. CASE ImportAgain(i)
  <2>1. Quiet(i)
    BY <1>0, <1>5 DEF ImportAgain, Quiet, Goto, Typed, RecordsTypeOK, records
  <2>2. QED
    BY <1>0, <2>1, QuietKeepsJobs
<1>6. QED
  BY <1>0, <1>1, <1>2, <1>3, <1>4, <1>5, QuietKeepsJobs DEF ImporterStep

LEMMA RunnerJobs ==
  ASSUME Typed, JobsInv, NEW r \in Runners, RunnerStep(r)
  PROVE  JobsInv'
<1>0. r \in Programs /\ (\A q \in Runners : q \in Programs) /\ r \notin Importers
  BY RecordsAssumption DEF Programs, Classifiers
<1>1. CASE Fetch(r)
  <2>1. own'[r] \in CJobs /\ cjob[own'[r]] = "pending" /\ own'[r] = Earliest(PendingClassJobs)
    BY <1>0, <1>1, EarliestJob DEF Fetch, PendingClassJobs, Typed, RecordsTypeOK
  <2>2. /\ \A q \in Programs : q # r => at'[q] = at[q] /\ own'[q] = own[q]
        /\ at'[r] = "mark"
    BY <1>0, <1>1 DEF Fetch, Goto, Typed, RecordsTypeOK
  <2>3. cjob' = cjob /\ starts' = starts /\ cstamp' = cstamp
    BY <1>1 DEF Fetch, records, histories
  <2>4. QED
    BY <1>0, <2>1, <2>2, <2>3 DEF JobsInv, StartsBounded
<1>2. CASE MarkStarted(r)
  <2>1. own[r] \in CJobs /\ cjob[own[r]] # "absent" /\ starts[own[r]][r] = 0
    BY <1>0, <1>2 DEF MarkStarted, Typed, RecordsTypeOK, JobsInv
  <2>2. /\ cjob'[own[r]] = "running" /\ \A j \in CJobs : j # own[r] => cjob'[j] = cjob[j]
        /\ cstamp' = cstamp /\ own' = own
    BY <1>2, <2>1 DEF MarkStarted, Typed, RecordsTypeOK
  <2>3. \A j \in CJobs, q \in Runners :
          starts'[j][q] = IF j = own[r] /\ q = r THEN 1 ELSE starts[j][q]
    BY <1>2, <2>1 DEF MarkStarted, Typed, RecordsTypeOK
  <2>4. at'[r] = "read" /\ \A q \in Programs : q # r => at'[q] = at[q]
    BY <1>0, <1>2 DEF MarkStarted, Goto, Typed, RecordsTypeOK
  <2>5. \A a \in Programs : at[a] = "queue" => own[a] \in CJobs /\ own[a] # own[r]
    BY <2>1 DEF JobsInv, Typed, RecordsTypeOK
  <2>6. \A j \in CJobs : j > cstamp => j # own[r]
    BY <2>1 DEF JobsInv
  <2>7. \A j \in CJobs, q \in Runners : starts[j][q] \in Nat
    BY DEF Typed, RecordsTypeOK
  <2>8. \A q \in Runners : at[q] = "mark" => own[q] \in CJobs
    BY <1>0 DEF Typed, RecordsTypeOK
  <2>9. StartsBounded'
    BY <2>3 DEF JobsInv, StartsBounded
  <2>10. \A q \in Runners : at'[q] = "mark" => cjob'[own[q]] # "absent" /\ starts'[own[q]][q] = 0
    BY <1>0, <2>2, <2>3, <2>4, <2>8 DEF JobsInv
  <2>11. \A q \in Runners : at'[q] \in {"read", "classify"} => own[q] \in CJobs /\ starts'[own[q]][q] > 0
    BY <1>0, <2>1, <2>3, <2>4, <2>7 DEF JobsInv
  <2>12. \A j \in CJobs : cjob'[j] \in {"absent", "pending"} => \A q \in Runners : starts'[j][q] = 0
    BY <2>2, <2>3 DEF JobsInv
  <2>13. \A a \in Programs : at'[a] = "queue" => at[a] = "queue"
    BY <2>4
  <2>14. QED
    BY <2>2, <2>5, <2>6, <2>9, <2>10, <2>11, <2>12, <2>13 DEF JobsInv
<1>3. CASE ReadList(r)
  <2>1. /\ \A q \in Programs : q # r => at'[q] = at[q]
        /\ at[r] = "read" /\ at'[r] = "classify"
        /\ UNCHANGED <<cjob, cstamp, own, starts>>
    BY <1>0, <1>3 DEF ReadList, Goto, Typed, RecordsTypeOK, records
  <2>2. QED
    BY <1>0, <2>1 DEF JobsInv, StartsBounded
<1>4. CASE ClassifyNext(r)
  <2>1. Quiet(r)
    BY <1>4 DEF ClassifyNext, Quiet
  <2>2. QED
    BY <1>0, <2>1, QuietKeepsJobs
<1>5. ASSUME NEW outcome \in {"succeeded", "failed"}, CloseJob(r, outcome),
             at[r] \in {"read", "classify"}
      PROVE  JobsInv'
  <2>1. own[r] \in CJobs /\ starts[own[r]][r] > 0 /\ cjob[own[r]] \notin {"absent", "pending"}
    BY <1>5 DEF JobsInv, Typed, RecordsTypeOK
  <2>2. /\ cjob'[own[r]] = outcome /\ \A j \in CJobs : j # own[r] => cjob'[j] = cjob[j]
        /\ UNCHANGED <<cstamp, own, starts>>
    BY <1>5, <2>1 DEF CloseJob, Typed, RecordsTypeOK
  <2>3. at'[r] = "fetch" /\ \A q \in Programs : q # r => at'[q] = at[q]
    BY <1>0, <1>5 DEF CloseJob, Goto, Typed, RecordsTypeOK
  <2>4. \A a \in Programs : at[a] \in {"queue", "mark"} => own[a] \in CJobs
    BY DEF Typed, RecordsTypeOK
  <2>5. QED
    BY <1>0, <2>1, <2>2, <2>3, <2>4 DEF JobsInv, StartsBounded
<1>6. CASE MarkSucceeded(r)
  BY <1>5, <1>6 DEF MarkSucceeded
<1>7. CASE MarkFailed(r)
  BY <1>5, <1>7 DEF MarkFailed
<1>8. QED
  BY <1>1, <1>2, <1>3, <1>4, <1>6, <1>7 DEF RunnerStep

LEMMA OthersQuiet ==
  ASSUME Typed, NEW p \in Programs,
         \/ p \in Pushers /\ PusherStep(p)
         \/ p \in Stores /\ StoreStep(p)
         \/ p \in Stages /\ StageStep(p)
         \/ Crash(p)
  PROVE  Quiet(p)
<1>1. CASE p \in Pushers /\ PusherStep(p)
  BY <1>1 DEF PusherStep, PushLook, ImportLook, PushInsert, Quiet, Goto, Typed, RecordsTypeOK,
              records, histories
<1>2. CASE p \in Stores /\ StoreStep(p)
  <2>1. CASE StoreLook(p)
    BY <2>1 DEF StoreLook, Quiet, Goto, Typed, RecordsTypeOK, records, histories
  <2>2. CASE StoreInsert(p) \/ StoreAgain(p)
    BY <2>2 DEF StoreInsert, StoreAgain, Quiet, Goto, Typed, RecordsTypeOK, records, histories
  <2>3. QED
    BY <1>2, <2>1, <2>2 DEF StoreStep
<1>3. CASE p \in Stages /\ StageStep(p)
  <2>1. p \notin Runners
    BY <1>3, RecordsAssumption
  <2>2. QED
    BY <1>3, <2>1 DEF StageStep, StageRead, StageClassify, StageAgain, Quiet, Goto, Typed,
                      RecordsTypeOK, records, histories
<1>4. CASE Crash(p)
  <2>1. PICK ph \in {"fetch", "read", "failed"} : Goto(p, ph) /\ (ph = "read" => p \in Stages)
    BY <1>4 DEF Crash
  <2>2. p \in Stages => p \notin Runners
    BY RecordsAssumption
  <2>3. QED
    BY <1>4, <2>1, <2>2 DEF Crash, Quiet, Goto, Typed, RecordsTypeOK, records
<1>5. QED
  BY <1>1, <1>2, <1>3, <1>4

LEMMA JobsStep ==
  ASSUME Typed, JobsInv, [RecordsNext]_recordVars
  PROVE  JobsInv'
<1>1. CASE UNCHANGED recordVars
  BY <1>1 DEF recordVars, records, programs, histories, JobsInv, StartsBounded
<1>2. QED
  BY <1>1, ImporterJobs, RunnerJobs, OthersQuiet, QuietKeepsJobs
     DEF RecordsNext, Programs, Writers, Classifiers

LEMMA JobsAlways == RecordsSpec => []JobsInv
BY InitJobs, JobsStep, TypedAlways, PTL DEF RecordsSpec

(* dequeue in two calls: a runner never starts a job twice.                 *)
THEOREM StartsAreBounded == RecordsSpec => []StartsBounded
<1>1. JobsInv => StartsBounded
  BY DEF JobsInv
<1>2. QED
  BY <1>1, JobsAlways, PTL
-----------------------------------------------------------------------------
(* Rows and verdicts *)

Judged == {"done", "needs_review"}

\* a step that classifies nothing: rows are only added, lists of classifiers only
\* shrink
Gentle ==
  /\ verdicts' = verdicts
  /\ \A c \in Commits : record[c] # "absent" => record'[c] = record[c]
  /\ \A p \in Classifiers : todo'[p] \subseteq todo[p]

LEMMA InsertIsGentle ==
  ASSUME Typed, NEW c \in Commits, NEW class, InsertRecord(c, class)
  PROVE  \A d \in Commits : record[d] # "absent" => record'[d] = record[d]
BY DEF InsertRecord, Typed, RecordsTypeOK

LEMMA WritersGentle ==
  ASSUME Typed, NEW p \in Writers,
         \/ p \in Importers /\ ImporterStep(p)
         \/ p \in Pushers /\ PusherStep(p)
         \/ p \in Stores /\ StoreStep(p)
  PROVE  Gentle
<1>1. p \in Programs /\ p \notin Classifiers /\ \A q \in Classifiers : q \in Programs /\ q # p
  BY RecordsAssumption DEF Programs, Writers
<1>2. at[p] = "insert" => item[p] \in Commits
  BY <1>1 DEF Typed, RecordsTypeOK
<1>3. ASSUME NEW c, Drop(p, c) \/ UNCHANGED todo \/ todo' = [todo EXCEPT ![p] = Commits]
      PROVE  \A q \in Classifiers : todo'[q] \subseteq todo[q]
  BY <1>1, <1>3 DEF Drop, Typed, RecordsTypeOK
<1>4. ASSUME NEW c \in Commits, ImportLook(p, c) PROVE Gentle
  BY <1>3, <1>4 DEF ImportLook, Gentle, records, histories
<1>5. CASE ImportInsert(p)
  BY <1>2, <1>3, <1>5, InsertIsGentle DEF ImportInsert, Gentle
<1>6. CASE EnqueueFind(p) \/ EnqueueInsert(p) \/ ImportAgain(p)
  BY <1>3, <1>6 DEF EnqueueFind, EnqueueInsert, ImportAgain, Gentle, records, histories
<1>7. CASE PushInsert(p)
  BY <1>2, <1>3, <1>7, InsertIsGentle DEF PushInsert, Gentle, histories
<1>8. CASE StoreLook(p)
  BY <1>3, <1>8 DEF StoreLook, Gentle, records, histories
<1>9. CASE StoreInsert(p)
  BY <1>2, <1>3, <1>9, InsertIsGentle DEF StoreInsert, Gentle, histories
<1>10. CASE StoreAgain(p)
  BY <1>3, <1>10 DEF StoreAgain, Gentle, records
<1>11. QED
  BY <1>4, <1>5, <1>6, <1>7, <1>8, <1>9, <1>10
     DEF ImporterStep, PusherStep, PushLook, StoreStep

LEMMA CrashGentle ==
  ASSUME Typed, NEW p \in Programs, Crash(p)
  PROVE  Gentle
BY DEF Crash, Gentle, Typed, RecordsTypeOK, records, Programs

\* a classifier's step: a gentle one, a list read, or one commit judged
LEMMA ClassifierCases ==
  ASSUME Typed, NEW p \in Classifiers,
         (p \in Runners /\ RunnerStep(p)) \/ (p \in Stages /\ StageStep(p))
  PROVE  \/ Gentle
         \/ /\ verdicts' = verdicts /\ record' = record
            /\ todo'[p] \subseteq PendingCommits
            /\ \A q \in Programs : q # p => todo'[q] = todo[q]
         \/ \E c \in todo[p] :
              /\ c \in Commits
              /\ record'[c] \in Judged /\ \A d \in Commits : d # c => record'[d] = record[d]
              /\ verdicts' = [verdicts EXCEPT ![c][p] = @ + 1]
              /\ todo' = [todo EXCEPT ![p] = @ \ {c}]
<1>0. p \in Programs /\ todo \in [Programs -> SUBSET Commits] /\ record \in [Commits -> Class]
      /\ \A q \in Classifiers : q \in Programs
  BY DEF Typed, RecordsTypeOK, Programs
<1>1. CASE Fetch(p) \/ MarkStarted(p)
  BY <1>1 DEF Fetch, MarkStarted, Gentle, records, histories
<1>2. CASE ReadList(p)
  <2>1. todo'[p] \subseteq PendingCommits /\ \A q \in Programs : q # p => todo'[q] = todo[q]
    BY <1>0, <1>2, ListIsPending DEF ReadList
  <2>2. QED
    BY <1>2, <2>1 DEF ReadList, records
<1>3. CASE ClassifyNext(p)
  <2> DEFINE c == Earliest(todo[p])
  <2>1. c \in todo[p] /\ c \in Commits
    BY <1>0, <1>3, EarliestOfList DEF ClassifyNext
  <2>2. record'[c] \in Judged /\ \A d \in Commits : d # c => record'[d] = record[d]
    BY <1>0, <1>3, <2>1 DEF ClassifyNext, Judged
  <2>3. /\ verdicts' = [verdicts EXCEPT ![c][p] = @ + 1]
        /\ todo' = [todo EXCEPT ![p] = @ \ {c}]
    BY <1>3 DEF ClassifyNext, Drop
  <2>4. QED
    BY <2>1, <2>2, <2>3
<1>4. CASE MarkSucceeded(p) \/ MarkFailed(p)
  BY <1>0, <1>4 DEF MarkSucceeded, MarkFailed, CloseJob, Gentle
<1>5. CASE StageRead(p)
  BY <1>0, <1>5 DEF StageRead, records, histories
<1>6. ASSUME NEW c \in Commits, StageClassify(p, c)
      PROVE  \/ Gentle
             \/ /\ c \in todo[p]
                /\ record'[c] \in Judged /\ \A d \in Commits : d # c => record'[d] = record[d]
                /\ verdicts' = [verdicts EXCEPT ![c][p] = @ + 1]
                /\ todo' = [todo EXCEPT ![p] = @ \ {c}]
  BY <1>0, <1>6 DEF StageClassify, Drop, Gentle, Judged
<1>7. CASE StageAgain(p)
  BY <1>7 DEF StageAgain, Gentle, records, histories
<1>8. QED
  BY <1>1, <1>2, <1>3, <1>4, <1>5, <1>6, <1>7 DEF RunnerStep, StageStep

LEMMA NextCases ==
  ASSUME Typed, [RecordsNext]_recordVars
  PROVE  \/ Gentle
         \/ \E p \in Classifiers : (p \in Runners /\ RunnerStep(p)) \/ (p \in Stages /\ StageStep(p))
<1>1. CASE UNCHANGED recordVars
  BY <1>1 DEF recordVars, records, programs, histories, Gentle
<1>2. CASE \E r \in Runners : RunnerStep(r)
  BY <1>2 DEF Classifiers
<1>3. CASE \E g \in Stages : StageStep(g)
  BY <1>3 DEF Classifiers
<1>4. CASE \E p \in Writers : \/ p \in Importers /\ ImporterStep(p)
                              \/ p \in Pushers /\ PusherStep(p)
                              \/ p \in Stores /\ StoreStep(p)
  BY <1>4, WritersGentle
<1>5. QED
  BY <1>1, <1>2, <1>3, <1>4, CrashGentle DEF RecordsNext, Writers

ListsInv ==
  /\ \A c \in Commits, p \in Classifiers : verdicts[c][p] > 0 => record[c] \in Judged
  /\ \A p \in Classifiers : \A c \in todo[p] : verdicts[c][p] = 0
  /\ OneVerdictEach

LEMMA InitLists == RecordsInit => ListsInv
BY RecordsAssumption DEF RecordsInit, ListsInv, OneVerdictEach, Programs, Writers, Classifiers

LEMMA ListsStep ==
  ASSUME Typed, ListsInv, [RecordsNext]_recordVars
  PROVE  ListsInv'
<1>0. /\ \A p \in Classifiers : p \in Programs /\ todo[p] \subseteq Commits
      /\ todo \in [Programs -> SUBSET Commits]
      /\ verdicts \in [Commits -> [Classifiers -> Nat]]
  BY DEF Typed, RecordsTypeOK, Programs
<1>1. CASE Gentle
  BY <1>0, <1>1 DEF Gentle, ListsInv, OneVerdictEach, Judged
<1>2. ASSUME NEW p \in Classifiers, verdicts' = verdicts, record' = record,
             todo'[p] \subseteq PendingCommits, \A q \in Programs : q # p => todo'[q] = todo[q]
      PROVE  ListsInv'
  <2>1. \A c \in todo'[p] : verdicts[c][p] = 0
    BY <1>0, <1>2 DEF PendingCommits, ListsInv, Judged
  <2>2. QED
    BY <1>0, <1>2, <2>1 DEF ListsInv, OneVerdictEach
<1>3. ASSUME NEW p \in Classifiers, NEW c \in todo[p], c \in Commits,
             record'[c] \in Judged, \A d \in Commits : d # c => record'[d] = record[d],
             verdicts' = [verdicts EXCEPT ![c][p] = @ + 1],
             todo' = [todo EXCEPT ![p] = @ \ {c}]
      PROVE  ListsInv'
  <2>1. verdicts[c][p] = 0
    BY <1>3 DEF ListsInv
  <2>2. \A d \in Commits, q \in Classifiers :
          verdicts'[d][q] = IF d = c /\ q = p THEN 1 ELSE verdicts[d][q]
    BY <1>0, <1>3, <2>1
  <2>3. todo'[p] = todo[p] \ {c} /\ \A q \in Classifiers : q # p => todo'[q] = todo[q]
    BY <1>0, <1>3
  <2>4. OneVerdictEach'
    BY <2>2 DEF ListsInv, OneVerdictEach
  <2>5. QED
    BY <1>0, <1>3, <2>2, <2>3, <2>4 DEF ListsInv
<1>4. QED
  BY <1>1, <1>2, <1>3, NextCases, ClassifierCases

(* However many jobs and executions: one verdict of a commit each.          *)
THEOREM OneVerdictOfEach == RecordsSpec => []OneVerdictEach
<1>1. ListsInv => OneVerdictEach
  BY DEF ListsInv
<1>2. QED
  BY <1>1, InitLists, ListsStep, TypedAlways, PTL DEF RecordsSpec
-----------------------------------------------------------------------------
(* No step removes a row                                                    *)

LEMMA RowsStay ==
  ASSUME Typed, [RecordsNext]_recordVars
  PROVE  \A c \in Commits : record[c] # "absent" => record'[c] # "absent"
<1>1. CASE Gentle
  BY <1>1 DEF Gentle
<1>2. QED
  BY <1>1, NextCases, ClassifierCases DEF Judged

HasRelease(v) == \E d \in Commits : record[d] # "absent" /\ ReleaseOf[d] = v

\* what a store knows: the releases it has met have a row, or wait for its insert
Met(s) ==
  /\ at[s] \in {"look", "insert"} =>
       \A c \in Commits \ todo[s] : record[c] = "absent" => HasRelease(ReleaseOf[c])
  /\ at[s] = "look" => \A v \in seen[s] : HasRelease(v)
  /\ at[s] = "insert" =>
       \A v \in seen[s] : HasRelease(v) \/ v = ReleaseOf[item[s]]

StoreInv == \A s \in Stores : Met(s)

LEMMA InitStores == RecordsInit => StoreInv
BY DEF RecordsInit, StoreInv, Met, Programs, Writers

LEMMA OwnStoreStep ==
  ASSUME Typed, NEW s \in Stores, Met(s), StoreStep(s), 
         \A v : HasRelease(v) => HasRelease(v)'
  PROVE  Met(s)'
<1>0. /\ s \in Programs /\ todo[s] \subseteq Commits
      /\ todo \in [Programs -> SUBSET Commits] /\ at \in [Programs -> Phase]
      /\ item \in [Programs -> Commits \cup {NoCommit}] /\ seen \in [Stores -> SUBSET Releases]
      /\ record \in [Commits -> Class]
  BY DEF Typed, RecordsTypeOK, Programs, Writers
<1>1. CASE StoreLook(s)
  <2> DEFINE c == Earliest(todo[s])
  <2>1. c \in todo[s] /\ c \in Commits
    BY <1>0, <1>1, EarliestOfList DEF StoreLook
  <2>2. record' = record /\ at[s] = "look"
    BY <1>1 DEF StoreLook, records
  <2>3. CASE record[c] # "absent" /\ Drop(s, c) /\ UNCHANGED <<at, item, seen>>
    BY <1>0, <2>1, <2>2, <2>3 DEF Drop, Met, HasRelease
  <2>4. ASSUME NEW known \in BOOLEAN, record[c] = "absent", Bump(s, c, known),
               seen' = [seen EXCEPT ![s] = IF known THEN @ \cup {ReleaseOf[c]} ELSE @],
               Drop(s, c) /\ UNCHANGED <<at, item>>
        PROVE  Met(s)'
    <3>1. HasRelease(ReleaseOf[c]) /\ seen'[s] = seen[s]
      BY <1>0, <2>2, <2>4 DEF Bump, Met
    <3>2. todo'[s] = todo[s] \ {c}
      BY <1>0, <2>4 DEF Drop
    <3>3. QED
      BY <2>2, <2>4, <3>1, <3>2 DEF Met, HasRelease
  <2>5. ASSUME NEW known \in BOOLEAN,
               seen' = [seen EXCEPT ![s] = IF known THEN @ \cup {ReleaseOf[c]} ELSE @],
               item' = [item EXCEPT ![s] = c], Goto(s, "insert"), UNCHANGED todo
        PROVE  Met(s)'
    <3>1. item'[s] = c /\ at'[s] = "insert" /\ seen'[s] \subseteq seen[s] \cup {ReleaseOf[c]}
      BY <1>0, <2>5 DEF Goto
    <3>2. QED
      BY <2>2, <2>5, <3>1 DEF Met, HasRelease
  <2>6. QED
    BY <1>1, <2>3, <2>4, <2>5 DEF StoreLook
<1>2. CASE StoreInsert(s)
  <2>0. item[s] \in Commits /\ at[s] = "insert"
    BY <1>0, <1>2 DEF StoreInsert, Typed, RecordsTypeOK
  <2>1. CASE InsertRecord(item[s], "pending") /\ Drop(s, item[s]) /\ Goto(s, "look")
    <3>1. record'[item[s]] = "pending"
      BY <1>0, <2>0, <2>1 DEF InsertRecord
    <3>2. \E d \in Commits : record'[d] # "absent" /\ ReleaseOf[d] = ReleaseOf[item[s]]
      BY <2>0, <3>1
    <3>3. todo'[s] = todo[s] \ {item[s]} /\ at'[s] = "look" /\ seen'[s] = seen[s]
      BY <1>0, <1>2, <2>1 DEF StoreInsert, Drop, Goto
    <3>4. \A c \in Commits : record'[c] = "absent" => record[c] = "absent" /\ c # item[s]
      BY <1>0, <2>0, <2>1, <3>1 DEF InsertRecord
    <3>5. \A v : HasRelease(v) => \E d \in Commits : record'[d] # "absent" /\ ReleaseOf[d] = v
      BY DEF HasRelease
    <3>6. QED
      BY <2>0, <3>2, <3>3, <3>4, <3>5 DEF Met, HasRelease
  <2>2. CASE Goto(s, "failed")
    <3>1. at'[s] = "failed"
      BY <1>0, <2>2 DEF Goto
    <3>2. QED
      BY <3>1 DEF Met
  <2>3. QED
    BY <1>2, <2>1, <2>2 DEF StoreInsert
<1>3. CASE StoreAgain(s)
  BY <1>0, <1>3 DEF StoreAgain, Goto, Met
<1>4. QED
  BY <1>1, <1>2, <1>3 DEF StoreStep

LEMMA StoresStep ==
  ASSUME Typed, StoreInv, [RecordsNext]_recordVars
  PROVE  StoreInv'
<1>0. \A v : HasRelease(v) => HasRelease(v)'
  BY RowsStay DEF HasRelease
<1>1. SUFFICES ASSUME NEW s \in Stores PROVE Met(s)'
  BY DEF StoreInv
<1>2. Met(s) /\ s \in Programs
  BY DEF StoreInv, Programs, Writers
<1>3. CASE StoreStep(s)
  BY <1>0, <1>2, <1>3, OwnStoreStep
<1>4. CASE Crash(s)
  <2>1. at'[s] = "failed"
    BY <1>2, <1>4, RecordsAssumption DEF Crash, Goto, Typed, RecordsTypeOK, Classifiers
  <2>2. QED
    BY <2>1 DEF Met
<1>5. ASSUME at'[s] = at[s], todo'[s] = todo[s], item'[s] = item[s], seen'[s] = seen[s]
      PROVE  Met(s)'
  BY <1>0, <1>2, <1>5, RowsStay DEF Met
<1>6. ASSUME NEW p \in Programs, p # s,
             \/ p \in Importers /\ ImporterStep(p)
             \/ p \in Pushers /\ PusherStep(p)
             \/ p \in Stores /\ StoreStep(p)
             \/ p \in Runners /\ RunnerStep(p)
             \/ p \in Stages /\ StageStep(p)
             \/ Crash(p)
      PROVE  at'[s] = at[s] /\ todo'[s] = todo[s] /\ item'[s] = item[s] /\ seen'[s] = seen[s]
  <2>0. at \in [Programs -> Phase] /\ todo \in [Programs -> SUBSET Commits]
        /\ item \in [Programs -> Commits \cup {NoCommit}] /\ seen \in [Stores -> SUBSET Releases]
    BY DEF Typed, RecordsTypeOK
  <2>1. CASE p \in Importers /\ ImporterStep(p)
    BY <1>2, <1>6, <2>0, <2>1
       DEF ImporterStep, ImportLook, ImportInsert, EnqueueFind, EnqueueInsert, ImportAgain, Goto, Drop
  <2>2. CASE p \in Pushers /\ PusherStep(p)
    BY <1>2, <1>6, <2>0, <2>2 DEF PusherStep, PushLook, ImportLook, PushInsert, Goto, Drop
  <2>3. CASE p \in Stores /\ StoreStep(p)
    BY <1>2, <1>6, <2>0, <2>3 DEF StoreStep, StoreLook, StoreInsert, StoreAgain, Goto, Drop
  <2>4. CASE p \in Runners /\ RunnerStep(p)
    BY <1>2, <1>6, <2>0, <2>4
       DEF RunnerStep, Fetch, MarkStarted, ReadList, ClassifyNext, MarkSucceeded, MarkFailed,
           CloseJob, Goto, Drop
  <2>5. CASE p \in Stages /\ StageStep(p)
    BY <1>2, <1>6, <2>0, <2>5 DEF StageStep, StageRead, StageClassify, StageAgain, Goto, Drop
  <2>6. CASE Crash(p)
    BY <1>2, <1>6, <2>0, <2>6 DEF Crash, Goto
  <2>7. QED
    BY <1>6, <2>1, <2>2, <2>3, <2>4, <2>5, <2>6
<1>7. CASE UNCHANGED recordVars
  BY <1>5, <1>7 DEF recordVars, programs
<1>8. s \notin Importers \cup Pushers \cup Runners \cup Stages
  BY RecordsAssumption DEF Classifiers
<1>9. QED
  BY <1>2, <1>3, <1>4, <1>5, <1>6, <1>7, <1>8 DEF RecordsNext, Programs, Writers, Classifiers

(* The bot filter loses no release.                                         *)
THEOREM ReleasesAreKept == RecordsSpec => []ReleasesKept
<1>1. StoreInv => ReleasesKept
  BY DEF StoreInv, Met, ReleasesKept, HasRelease
<1>2. QED
  BY <1>1, InitStores, StoresStep, TypedAlways, PTL DEF RecordsSpec
-----------------------------------------------------------------------------
(* Imported commits                                                         *)

\* what ImportedIsCovered asks for one commit
Covered(c) ==
  \/ record[c] # "pending"
  \/ c \in missed
  \/ PendingClassJobs # {}
  \/ \E r \in Runners : at[r] \in {"mark", "read"} \/ c \in todo[r]
  \/ \E i \in Importers : at[i] \in {"enqueue", "queue"} /\ item[i] = c

CoverInv ==
  mishaps = 0 => \A c \in imported : record[c] # "absent" /\ Covered(c)

LEMMA InitCover == RecordsInit => CoverInv
BY DEF RecordsInit, CoverInv

\* a step that moves no runner and no importer between its insert and its job
Distant ==
  /\ UNCHANGED <<cjob, missed>>
  /\ \A c \in imported : record'[c] = "pending" => record[c] = "pending"
  /\ \A r \in Runners : at'[r] = at[r] /\ todo'[r] = todo[r]
  /\ \A k \in Importers :
       at[k] \in {"enqueue", "queue"} => at'[k] = at[k] /\ item'[k] = item[k]

LEMMA DistantCovers ==
  ASSUME Distant, NEW c \in imported, Covered(c)
  PROVE  Covered(c)'
BY DEF Distant, Covered, PendingClassJobs

LEMMA ProgramSets ==
  /\ \A i \in Importers : i \in Programs /\ i \notin Runners \cup Stages \cup Stores \cup Pushers
  /\ \A r \in Runners : r \in Programs /\ r \notin Importers \cup Pushers \cup Stores \cup Stages
BY RecordsAssumption DEF Programs, Writers, Classifiers

LEMMA ImporterCovers ==
  ASSUME Typed, CoverInv, mishaps = 0, NEW i \in Importers, ImporterStep(i), mishaps' = 0
  PROVE  \A c \in imported' : Covered(c)'
<1>0. /\ at \in [Programs -> Phase] /\ todo \in [Programs -> SUBSET Commits]
      /\ item \in [Programs -> Commits \cup {NoCommit}] /\ record \in [Commits -> Class]
      /\ imported \in SUBSET Commits /\ i \in Programs
      /\ \A c \in imported : record[c] # "absent" /\ Covered(c)
  BY ProgramSets DEF Typed, RecordsTypeOK, CoverInv
<1>1. ASSUME NEW c \in Commits, ImportLook(i, c) PROVE Distant /\ imported' = imported
  BY <1>0, <1>1, ProgramSets DEF ImportLook, Distant, Drop, Goto, records, histories
<1>2. CASE ImportInsert(i)
  <2>1. /\ item[i] \in Commits /\ item' = item /\ todo' = todo /\ at[i] = "insert"
        /\ \A p \in Programs : p # i => at'[p] = at[p]
        /\ UNCHANGED <<cjob, missed>>
    BY <1>0, <1>2 DEF ImportInsert, Goto, Typed, RecordsTypeOK
  <2>2. \A c \in imported : record'[c] = record[c]
    BY <1>0, <1>2 DEF ImportInsert, InsertRecord
  <2>3. ASSUME NEW c \in imported PROVE Covered(c)'
    <3>1. Distant
      <4>1. \A r \in Runners : at'[r] = at[r] /\ todo'[r] = todo[r]
        BY <2>1, ProgramSets
      <4>2. \A k \in Importers : at[k] \in {"enqueue", "queue"} => at'[k] = at[k] /\ item'[k] = item[k]
        BY <2>1, ProgramSets
      <4>3. QED
        BY <2>1, <2>2, <4>1, <4>2 DEF Distant
    <3>2. QED
      BY <1>0, <2>3, <3>1, DistantCovers
  <2>4. CASE imported' = imported \cup {item[i]} /\ Goto(i, "enqueue")
    <3>1. at'[i] = "enqueue"
      BY <1>0, <2>4 DEF Goto
    <3>2. \A c : c = item'[i] => Covered(c)'
      BY <3>1 DEF Covered
    <3>3. QED
      BY <2>1, <2>3, <2>4, <3>2
  <2>5. QED
    BY <1>2, <2>3, <2>4 DEF ImportInsert
<1>3. CASE EnqueueFind(i)
  <2>1. /\ UNCHANGED <<record, cjob, item, imported>>
        /\ \A p \in Programs : p # i => at'[p] = at[p] /\ todo'[p] = todo[p]
    BY <1>0, <1>3 DEF EnqueueFind, Goto, Drop
  <2>2. CASE /\ JobsToReuse # {}
             /\ missed' = IF TooLate THEN missed \cup {item[i]} ELSE missed
    <3>1. TooLate \/ PendingClassJobs # {} \/ \E r \in Runners : at[r] \in {"mark", "read"}
      BY <2>2 DEF TooLate, JobsToReuse, OpenClassJobs, PendingClassJobs
    <3>2. ASSUME NEW c \in imported PROVE Covered(c)'
      BY <1>0, <2>1, <2>2, <3>1, <3>2, ProgramSets DEF Covered, PendingClassJobs
    <3>3. QED
      BY <2>1, <3>2
  <2>3. CASE Goto(i, "queue") /\ UNCHANGED <<todo, missed>>
    <3>1. at'[i] = "queue"
      BY <1>0, <2>3 DEF Goto
    <3>2. ASSUME NEW c \in imported PROVE Covered(c)'
      BY <1>0, <2>1, <2>3, <3>1, <3>2, ProgramSets DEF Covered, PendingClassJobs
    <3>3. QED
      BY <2>1, <3>2
  <2>4. QED
    BY <1>3, <2>2, <2>3 DEF EnqueueFind
<1>4. CASE EnqueueInsert(i)
  <2>1. own[i] \in CJobs /\ cjob' = [cjob EXCEPT ![own[i]] = "pending"]
    BY <1>0, <1>4 DEF EnqueueInsert, Typed, RecordsTypeOK
  <2>2. PendingClassJobs' # {}
    BY <2>1 DEF PendingClassJobs, Typed, RecordsTypeOK
  <2>3. QED
    BY <2>2 DEF Covered
<1>5. CASE ImportAgain(i)
  BY <1>5, MishapBound DEF ImportAgain, Typed, RecordsTypeOK
<1>6. imported' = imported \/ ImportInsert(i)
  BY DEF ImporterStep, ImportLook, EnqueueFind, EnqueueInsert, ImportAgain, histories
<1>7. QED
  BY <1>0, <1>1, <1>2, <1>3, <1>4, <1>5, <1>6, DistantCovers DEF ImporterStep

LEMMA RunnerCovers ==
  ASSUME Typed, JobsInv, CoverInv, mishaps = 0, NEW r \in Runners, RunnerStep(r), mishaps' = 0
  PROVE  \A c \in imported' : Covered(c)'
<1>0. /\ at \in [Programs -> Phase] /\ todo \in [Programs -> SUBSET Commits]
      /\ record \in [Commits -> Class] /\ imported \in SUBSET Commits /\ r \in Programs
      /\ \A c \in imported : record[c] # "absent" /\ Covered(c)
  BY ProgramSets DEF Typed, RecordsTypeOK, CoverInv
<1>1. imported' = imported /\ item' = item
  BY DEF RunnerStep, Fetch, MarkStarted, ReadList, ClassifyNext, MarkSucceeded, MarkFailed,
         CloseJob, histories
<1>2. CASE Fetch(r) \/ MarkStarted(r)
  <2>1. at'[r] \in {"mark", "read"}
    BY <1>0, <1>2 DEF Fetch, MarkStarted, Goto
  <2>2. QED
    BY <2>1 DEF Covered
<1>3. CASE ReadList(r)
  <2>1. /\ record' = record /\ cjob' = cjob
        /\ missed' = missed \cup (imported \cap (PendingCommits \ todo'[r]))
        /\ \A p \in Programs : p # r => at'[p] = at[p] /\ todo'[p] = todo[p]
    BY <1>0, <1>3 DEF ReadList, Goto, records
  <2>2. ASSUME NEW c \in imported PROVE Covered(c)'
    <3>1. record[c] # "pending" \/ c \in todo'[r] \/ c \in missed'
      BY <1>0, <2>1, <2>2 DEF PendingCommits
    <3>2. QED
      BY <2>1, <3>1 DEF Covered
  <2>3. QED
    BY <1>1, <2>2
<1>4. CASE ClassifyNext(r)
  <2> DEFINE e == Earliest(todo[r])
  <2>1. e \in Commits
    BY <1>0, <1>4, EarliestOfList DEF ClassifyNext
  <2>2. record'[e] # "pending" /\ \A c \in Commits : c # e => record'[c] = record[c]
    BY <1>0, <1>4, <2>1 DEF ClassifyNext
  <2>3. /\ todo'[r] = todo[r] \ {e} /\ \A p \in Programs : p # r => todo'[p] = todo[p]
        /\ UNCHANGED <<cjob, at, missed>>
    BY <1>0, <1>4 DEF ClassifyNext, Drop
  <2>4. ASSUME NEW c \in imported PROVE Covered(c)'
    BY <1>0, <1>1, <2>2, <2>3, <2>4, ProgramSets DEF Covered, PendingClassJobs
  <2>5. QED
    BY <1>1, <2>4
<1>5. CASE MarkSucceeded(r)
  <2>1. own[r] \in CJobs /\ cjob[own[r]] # "pending" /\ at[r] = "classify" /\ todo[r] = {}
    BY <1>5 DEF MarkSucceeded, JobsInv
  <2>2. /\ cjob' = [cjob EXCEPT ![own[r]] = "succeeded"]
        /\ todo' = [todo EXCEPT ![r] = {}]
        /\ \A p \in Programs : p # r => at'[p] = at[p]
        /\ UNCHANGED <<record, missed>>
    BY <1>0, <1>5 DEF MarkSucceeded, CloseJob, Goto
  <2>3. \A p \in Programs : todo'[p] = todo[p]
    BY <1>0, <2>1, <2>2
  <2>4. PendingClassJobs' = PendingClassJobs
    BY <2>1, <2>2 DEF PendingClassJobs, Typed, RecordsTypeOK
  <2>5. ASSUME NEW c \in imported PROVE Covered(c)'
    BY <1>0, <1>1, <2>1, <2>2, <2>3, <2>4, <2>5, ProgramSets DEF Covered
  <2>6. QED
    BY <1>1, <2>5
<1>6. CASE MarkFailed(r)
  BY <1>6, MishapBound DEF MarkFailed, Typed, RecordsTypeOK
<1>7. QED
  BY <1>2, <1>3, <1>4, <1>5, <1>6 DEF RunnerStep

LEMMA OthersDistant ==
  ASSUME Typed, CoverInv, mishaps = 0, NEW p \in Programs, mishaps' = 0,
         \/ p \in Pushers /\ PusherStep(p)
         \/ p \in Stores /\ StoreStep(p)
         \/ p \in Stages /\ StageStep(p)
         \/ Crash(p)
  PROVE  Distant /\ imported' = imported
<1>0. /\ at \in [Programs -> Phase] /\ todo \in [Programs -> SUBSET Commits]
      /\ item \in [Programs -> Commits \cup {NoCommit}]
      /\ record \in [Commits -> Class] /\ imported \in SUBSET Commits
      /\ \A c \in imported : record[c] # "absent"
  BY DEF Typed, RecordsTypeOK, CoverInv
<1>1. CASE p \in Pushers /\ PusherStep(p)
  <2>1. \A q \in Programs : q \in Runners \cup Importers => q # p
    BY <1>1, ProgramSets
  <2>2. QED
    BY <1>0, <1>1, <2>1, ProgramSets
       DEF PusherStep, PushLook, ImportLook, PushInsert, InsertRecord, Distant, Goto, Drop,
           records, histories
<1>2. CASE p \in Stores /\ StoreStep(p)
  <2>1. \A q \in Programs : q \in Runners \cup Importers => q # p
    BY <1>2, ProgramSets
  <2>2. CASE StoreLook(p)
    BY <1>0, <2>1, <2>2, ProgramSets DEF StoreLook, Distant, Goto, Drop, records, histories
  <2>3. CASE StoreInsert(p)
    BY <1>0, <2>1, <2>3, ProgramSets DEF StoreInsert, InsertRecord, Distant, Goto, Drop, histories
  <2>4. CASE StoreAgain(p)
    BY <2>4, MishapBound DEF StoreAgain, Typed, RecordsTypeOK
  <2>5. QED
    BY <1>2, <2>2, <2>3, <2>4 DEF StoreStep
<1>3. CASE p \in Stages /\ StageStep(p)
  <2>1. \A q \in Programs : q \in Runners \cup Importers => q # p
    BY <1>3, ProgramSets
  <2>2. QED
    BY <1>0, <1>3, <2>1, ProgramSets
       DEF StageStep, StageRead, StageClassify, StageAgain, Distant, Goto, Drop, records, histories
<1>4. CASE Crash(p)
  BY <1>4, MishapBound DEF Crash, Typed, RecordsTypeOK
<1>5. QED
  BY <1>1, <1>2, <1>3, <1>4

LEMMA MishapsOnlyGrow ==
  ASSUME Typed, [RecordsNext]_recordVars, mishaps' = 0
  PROVE  mishaps = 0
<1>1. mishaps \in Nat
  BY DEF Typed, RecordsTypeOK
<1>2. CASE UNCHANGED recordVars
  BY <1>2 DEF recordVars, histories
<1>3. CASE \E i \in Importers : ImporterStep(i)
  BY <1>1, <1>3
     DEF ImporterStep, ImportLook, ImportInsert, EnqueueFind, EnqueueInsert, ImportAgain, Mishap,
         histories
<1>4. CASE (\E p \in Pushers : PusherStep(p)) \/ (\E s \in Stores : StoreStep(s))
  BY <1>1, <1>4
     DEF PusherStep, PushLook, ImportLook, PushInsert, StoreStep, StoreLook, StoreInsert,
         StoreAgain, Mishap, histories
<1>5. ASSUME NEW r \in Runners, RunnerStep(r) PROVE mishaps = 0
  <2>1. CASE Fetch(r) \/ MarkStarted(r) \/ ReadList(r) \/ ClassifyNext(r)
    BY <2>1 DEF Fetch, MarkStarted, ReadList, ClassifyNext, histories
  <2>2. CASE MarkSucceeded(r) \/ MarkFailed(r)
    BY <1>1, <2>2 DEF MarkSucceeded, MarkFailed, Mishap
  <2>3. QED
    BY <1>5, <2>1, <2>2 DEF RunnerStep
<1>6. CASE \E g \in Stages : StageStep(g)
  BY <1>1, <1>6 DEF StageStep, StageRead, StageClassify, StageAgain, histories
<1>7. CASE \E p \in Programs : Crash(p)
  BY <1>1, <1>7 DEF Crash, Mishap
<1>8. QED
  BY <1>2, <1>3, <1>4, <1>5, <1>6, <1>7 DEF RecordsNext

LEMMA CoverStep ==
  ASSUME Typed, JobsInv, CoverInv, [RecordsNext]_recordVars
  PROVE  CoverInv'
<1>1. SUFFICES ASSUME mishaps' = 0
               PROVE  \A c \in imported' : record'[c] # "absent" /\ Covered(c)'
  BY DEF CoverInv
<1>2. mishaps = 0 /\ \A c \in imported : record[c] # "absent" /\ Covered(c)
  BY <1>1, MishapsOnlyGrow DEF CoverInv
<1>3. CASE \E i \in Importers : ImporterStep(i)
  <2>1. PICK i \in Importers : ImporterStep(i)
    BY <1>3
  <2>2. \A c \in imported' : c \in imported \/ record'[c] = "pending"
    BY <1>1, <2>1, ProgramSets
       DEF ImporterStep, ImportLook, ImportInsert, EnqueueFind, EnqueueInsert, ImportAgain,
           InsertRecord, histories, Typed, RecordsTypeOK
  <2>3. QED
    BY <1>1, <1>2, <2>1, <2>2, RowsStay, ImporterCovers DEF Typed, RecordsTypeOK
<1>4. CASE \E r \in Runners : RunnerStep(r)
  <2>1. imported' = imported
    BY <1>4 DEF RunnerStep, Fetch, MarkStarted, ReadList, ClassifyNext, MarkSucceeded, MarkFailed,
                CloseJob, histories
  <2>2. QED
    BY <1>1, <1>2, <1>4, <2>1, RowsStay, RunnerCovers DEF Typed, RecordsTypeOK
<1>5. CASE Distant /\ imported' = imported
  BY <1>2, <1>5, RowsStay, DistantCovers DEF Distant, Typed, RecordsTypeOK
<1>6. CASE UNCHANGED recordVars
  BY <1>5, <1>6 DEF recordVars, records, programs, histories, Distant
<1>7. QED
  BY <1>1, <1>2, <1>3, <1>4, <1>5, <1>6, OthersDistant
     DEF RecordsNext, Programs, Writers, Classifiers

(* An imported commit is never forgotten (enqueue, dequeue, one list).      *)
THEOREM ImportsAreCovered == RecordsSpec => []ImportedIsCovered
<1>1. CoverInv => ImportedIsCovered
  BY DEF CoverInv, Covered, ImportedIsCovered
<1>2. QED
  BY <1>1, InitCover, CoverStep, TypedAlways, JobsAlways, PTL DEF RecordsSpec
-----------------------------------------------------------------------------
(* Open jobs                                                                *)

\* the stamps importers hold, each its latest
Issued == {own[i] : i \in Importers}

\* While no call fails: a pending job is some importer's latest, and so is a
\* running one unless a runner has reopened it; and one runner at work is free, or
\* busy with an importer's latest.
OpenInv ==
  mishaps = 0 =>
    /\ PendingClassJobs \subseteq Issued
    /\ \A j \in CJobs : cjob[j] = "running" =>
         j \in Issued \/ \E r \in Runners : at[r] \in {"read", "classify"} /\ own[r] = j
    /\ \A i \in Importers : own[i] \in CJobs => at[i] # "off"
    /\ (\E r \in Runners : at[r] # "off") =>
         \E r \in Runners : \/ at[r] = "fetch"
                            \/ at[r] # "off" /\ OpenClassJobs # {} /\ own[r] \in Issued

LEMMA InitOpen == RecordsInit => OpenInv
<1> SUFFICES ASSUME RecordsInit PROVE OpenInv
  OBVIOUS
<1>1. PICK crew \in SUBSET Programs :
        at = [p \in Programs |-> CASE p \notin crew -> "off"
                                   [] p \in Runners -> "fetch"
                                   [] p \in Stages -> "read"
                                   [] OTHER -> "look"]
  BY DEF RecordsInit
<1>2. \A r \in Runners : at[r] \in {"off", "fetch"}
  BY <1>1, ProgramSets
<1>3. \A i \in Importers : own[i] \notin CJobs
  BY ProgramSets, RecordsAssumption DEF RecordsInit
<1>4. \A j \in CJobs : cjob[j] = "absent"
  BY DEF RecordsInit
<1>5. QED
  BY <1>2, <1>3, <1>4 DEF OpenInv, PendingClassJobs

\* a step that writes no job and takes no stamp; a runner may read its list
Aside ==
  /\ UNCHANGED <<cjob, own>>
  /\ \A i \in Importers : at[i] # "off" => at'[i] # "off"
  /\ \A r \in Runners : at'[r] = at[r] \/ (at[r] = "read" /\ at'[r] = "classify")

LEMMA AsideKeepsOpen ==
  ASSUME OpenInv, mishaps = 0, Aside
  PROVE  OpenInv'
<1>1. Issued' = Issued /\ PendingClassJobs' = PendingClassJobs /\ OpenClassJobs' = OpenClassJobs
  BY DEF Aside, Issued, PendingClassJobs, OpenClassJobs
<1>2. \A r \in Runners : /\ at[r] \in {"read", "classify"} => at'[r] \in {"read", "classify"}
                         /\ at[r] = "fetch" => at'[r] = "fetch"
                         /\ at[r] # "off" <=> at'[r] # "off"
  BY DEF Aside
<1>3. QED
  BY <1>1, <1>2 DEF OpenInv, Aside

LEMMA ImporterOpens ==
  ASSUME Typed, OpenInv, mishaps = 0, mishaps' = 0, NEW i \in Importers, ImporterStep(i)
  PROVE  OpenInv'
<1>0. /\ at \in [Programs -> Phase] /\ own \in [Programs -> CJobs \cup {NoJob}]
      /\ \A r \in Runners : r \in Programs /\ r # i
      /\ \A k \in Importers : k \in Programs
  BY ProgramSets DEF Typed, RecordsTypeOK
<1>1. ASSUME NEW c \in Commits, ImportLook(i, c) PROVE Aside
  BY <1>0, <1>1 DEF ImportLook, Aside, Goto, records
<1>2. CASE ImportInsert(i)
  <2>1. Aside
    BY <1>0, <1>2 DEF ImportInsert, Aside, Goto
  <2>2. QED
    BY <2>1, AsideKeepsOpen
<1>3. CASE EnqueueFind(i)
  <2>1. cjob' = cjob
    BY <1>3 DEF EnqueueFind
  <2>2. CASE Goto(i, "look") /\ own' = own
    <3>1. Aside
      BY <1>0, <2>1, <2>2 DEF Aside, Goto
    <3>2. QED
      BY <3>1, AsideKeepsOpen
  <2>3. CASE /\ JobsToReuse = {} /\ own' = [own EXCEPT ![i] = cstamp'] /\ Goto(i, "queue")
    <3>1. /\ at'[i] = "queue" /\ \A k \in Importers : k # i => at'[k] = at[k] /\ own'[k] = own[k]
          /\ \A r \in Runners : at'[r] = at[r] /\ own'[r] = own[r]
      BY <1>0, <2>3 DEF Goto
    <3>2. OpenClassJobs' = {} /\ PendingClassJobs' = {} /\ \A j \in CJobs : cjob'[j] # "running"
      BY <2>1, <2>3 DEF JobsToReuse, OpenClassJobs, PendingClassJobs
    <3>3. (\E r \in Runners : at[r] # "off") => \E r \in Runners : at[r] = "fetch"
      BY <2>3 DEF JobsToReuse, OpenInv
    <3>4. QED
      BY <3>1, <3>2, <3>3 DEF OpenInv
  <2>4. QED
    BY <1>3, <2>2, <2>3 DEF EnqueueFind
<1>4. CASE EnqueueInsert(i)
  <2>1. /\ own[i] \in CJobs /\ own' = own /\ cjob' = [cjob EXCEPT ![own[i]] = "pending"]
        /\ at'[i] = "look" /\ \A k \in Importers : k # i => at'[k] = at[k]
        /\ \A r \in Runners : at'[r] = at[r]
    BY <1>0, <1>4 DEF EnqueueInsert, Goto, Typed, RecordsTypeOK
  <2>2. /\ cjob'[own[i]] = "pending"
        /\ \A j \in CJobs : j # own[i] => cjob'[j] = cjob[j]
    BY <2>1 DEF Typed, RecordsTypeOK
  <2>3. Issued' = Issued /\ own[i] \in Issued /\ OpenClassJobs' # {}
    BY <2>1, <2>2 DEF Issued, OpenClassJobs
  <2>4. PendingClassJobs' \subseteq Issued'
    BY <2>2, <2>3 DEF PendingClassJobs, OpenInv
  <2>5. \A j \in CJobs : cjob'[j] = "running" => cjob[j] = "running"
    BY <2>2
  <2>6. QED
    BY <2>1, <2>3, <2>4, <2>5 DEF OpenInv
<1>5. CASE ImportAgain(i)
  BY <1>5, MishapBound DEF ImportAgain, Typed, RecordsTypeOK
<1>6. QED
  BY <1>1, <1>2, <1>3, <1>4, <1>5, AsideKeepsOpen DEF ImporterStep

LEMMA RunnerOpens ==
  ASSUME Typed, JobsInv, OpenInv, mishaps = 0, mishaps' = 0, NEW r \in Runners, RunnerStep(r)
  PROVE  OpenInv'
<1>0. /\ at \in [Programs -> Phase] /\ own \in [Programs -> CJobs \cup {NoJob}] /\ r \in Programs
      /\ \A q \in Runners : q \in Programs
      /\ \A k \in Importers : k \in Programs /\ k # r
  BY ProgramSets DEF Typed, RecordsTypeOK
<1>1. CASE Fetch(r)
  <2>1. own'[r] \in PendingClassJobs
    BY <1>0, <1>1, EarliestJob DEF Fetch
  <2>2. /\ \A q \in Programs : q # r => at'[q] = at[q] /\ own'[q] = own[q]
        /\ at[r] = "fetch" /\ at'[r] = "mark" /\ cjob' = cjob
    BY <1>0, <1>1 DEF Fetch, Goto, records
  <2>3. /\ Issued' = Issued /\ PendingClassJobs' = PendingClassJobs
        /\ OpenClassJobs' = OpenClassJobs
    BY <1>0, <2>2 DEF Issued, PendingClassJobs, OpenClassJobs
  <2>4. own'[r] \in Issued' /\ OpenClassJobs' # {} /\ at'[r] # "off"
    BY <2>1, <2>2, <2>3 DEF OpenInv, OpenClassJobs, PendingClassJobs
  <2>5. \A j \in CJobs : cjob'[j] = "running" =>
          j \in Issued' \/ \E q \in Runners : at'[q] \in {"read", "classify"} /\ own'[q] = j
    BY <1>0, <2>2, <2>3 DEF OpenInv
  <2>6. QED
    BY <1>0, <2>2, <2>3, <2>4, <2>5 DEF OpenInv
<1>2. CASE MarkStarted(r)
  <2>1. /\ own[r] \in CJobs /\ own' = own /\ cjob' = [cjob EXCEPT ![own[r]] = "running"]
        /\ at[r] = "mark" /\ at'[r] = "read" /\ \A q \in Programs : q # r => at'[q] = at[q]
    BY <1>0, <1>2 DEF MarkStarted, Goto, Typed, RecordsTypeOK
  <2>2. cjob'[own[r]] = "running" /\ \A j \in CJobs : j # own[r] => cjob'[j] = cjob[j]
    BY <2>1 DEF Typed, RecordsTypeOK
  <2>3. /\ Issued' = Issued /\ OpenClassJobs' # {} /\ PendingClassJobs' \subseteq PendingClassJobs
    BY <2>1, <2>2 DEF Issued, OpenClassJobs, PendingClassJobs
  <2>4. \A j \in CJobs : cjob'[j] = "running" =>
          j \in Issued' \/ \E q \in Runners : at'[q] \in {"read", "classify"} /\ own'[q] = j
    <3>1. SUFFICES ASSUME NEW j \in CJobs, cjob'[j] = "running", j \notin Issued, j # own[r]
                   PROVE  \E q \in Runners : at'[q] \in {"read", "classify"} /\ own'[q] = j
      BY <2>1, <2>3
    <3>2. PICK q \in Runners : at[q] \in {"read", "classify"} /\ own[q] = j
      BY <2>2, <3>1 DEF OpenInv
    <3>3. QED
      BY <1>0, <2>1, <3>2
  <2>5. \E q \in Runners : \/ at'[q] = "fetch"
                           \/ at'[q] # "off" /\ OpenClassJobs' # {} /\ own'[q] \in Issued'
    <3>1. PICK q \in Runners : at[q] = "fetch" \/ (at[q] # "off" /\ own[q] \in Issued)
      BY <2>1 DEF OpenInv
    <3>2. QED
      BY <1>0, <2>1, <2>3, <3>1
  <2>6. QED
    BY <1>0, <2>1, <2>3, <2>4, <2>5 DEF OpenInv
<1>3. CASE ReadList(r) \/ ClassifyNext(r)
  <2>1. Aside
    BY <1>0, <1>3 DEF ReadList, ClassifyNext, Aside, Goto, records
  <2>2. QED
    BY <2>1, AsideKeepsOpen
<1>4. CASE MarkSucceeded(r)
  <2>1. /\ own[r] \in CJobs /\ own' = own /\ cjob' = [cjob EXCEPT ![own[r]] = "succeeded"]
        /\ at'[r] = "fetch" /\ \A q \in Programs : q # r => at'[q] = at[q]
    BY <1>0, <1>4 DEF MarkSucceeded, CloseJob, Goto, JobsInv
  <2>2. cjob'[own[r]] = "succeeded" /\ \A j \in CJobs : j # own[r] => cjob'[j] = cjob[j]
    BY <2>1 DEF Typed, RecordsTypeOK
  <2>3. Issued' = Issued /\ PendingClassJobs' \subseteq PendingClassJobs
    BY <2>1, <2>2 DEF Issued, PendingClassJobs
  <2>4. \A j \in CJobs : cjob'[j] = "running" =>
          j \in Issued' \/ \E q \in Runners : at'[q] \in {"read", "classify"} /\ own'[q] = j
    <3>1. SUFFICES ASSUME NEW j \in CJobs, cjob'[j] = "running", j \notin Issued
                   PROVE  \E q \in Runners : at'[q] \in {"read", "classify"} /\ own'[q] = j
      BY <2>3
    <3>2. j # own[r] /\ cjob[j] = "running"
      BY <2>2, <3>1
    <3>3. PICK q \in Runners : at[q] \in {"read", "classify"} /\ own[q] = j
      BY <3>1, <3>2 DEF OpenInv
    <3>4. QED
      BY <1>0, <2>1, <3>2, <3>3
  <2>5. QED
    BY <1>0, <2>1, <2>3, <2>4 DEF OpenInv
<1>5. CASE MarkFailed(r)
  BY <1>5, MishapBound DEF MarkFailed, Typed, RecordsTypeOK
<1>6. QED
  BY <1>1, <1>2, <1>3, <1>4, <1>5 DEF RunnerStep

LEMMA OpenStep ==
  ASSUME Typed, JobsInv, CoverInv, OpenInv, [RecordsNext]_recordVars
  PROVE  OpenInv'
<1>1. SUFFICES ASSUME mishaps' = 0 PROVE OpenInv'
  BY DEF OpenInv
<1>2. mishaps = 0
  BY <1>1, MishapsOnlyGrow
<1>3. CASE UNCHANGED recordVars
  <2>1. Aside
    BY <1>3 DEF recordVars, records, programs, Aside
  <2>2. QED
    BY <1>2, <2>1, AsideKeepsOpen
<1>4. ASSUME NEW p \in Programs,
             \/ p \in Pushers /\ PusherStep(p)
             \/ p \in Stores /\ StoreStep(p)
             \/ p \in Stages /\ StageStep(p)
             \/ Crash(p)
      PROVE  OpenInv'
  <2>1. ~Crash(p)
    BY <1>1, <1>2, MishapBound DEF Crash, Typed, RecordsTypeOK
  <2>2. \A q \in Importers : q \in Programs /\ q # p
    BY <1>4, <2>1, ProgramSets
  <2>3. Quiet(p) /\ Distant
    BY <1>1, <1>2, <1>4, OthersQuiet, OthersDistant
  <2>4. Aside
    BY <2>2, <2>3 DEF Quiet, Distant, Aside
  <2>5. QED
    BY <1>2, <2>4, AsideKeepsOpen
<1>5. QED
  BY <1>1, <1>2, <1>3, <1>4, ImporterOpens, RunnerOpens
     DEF RecordsNext, Programs, Writers, Classifiers

\* the programs at work
Working(S) == {p \in S : at[p] # "off"}

(* What OpenInv makes of the count: an open job is the latest of an importer at *)
(* work, or held by a runner at work that is not the spare one.              *)
LEMMA OpenCount ==
  ASSUME Typed, JobsInv, OpenInv
  PROVE  OpenJobsBounded
<1> SUFFICES ASSUME mishaps = 0
             PROVE  Cardinality(OpenClassJobs) <=
                      Cardinality(Working(Importers))
                      + IF Working(Runners) = {} THEN 0 ELSE Cardinality(Working(Runners)) - 1
  BY DEF OpenJobsBounded, Working
<1> DEFINE I == Working(Importers)
           R == Working(Runners)
           Of(S) == {own[p] : p \in S}
<1>1. IsFiniteSet(I) /\ IsFiniteSet(R)
  <2>1. I \subseteq Programs /\ R \subseteq Programs
    BY ProgramSets DEF Working
  <2>2. QED
    BY <2>1, RecordsAssumption, FS_Subset
<1>2. ASSUME NEW S, IsFiniteSet(S)
      PROVE  IsFiniteSet(Of(S)) /\ Cardinality(Of(S)) <= Cardinality(S)
  <2> DEFINE f == [p \in S |-> own[p]]
  <2>1. f \in Surjection(S, Of(S))
    BY DEF Surjection
  <2>2. QED
    BY <1>2, <2>1, FS_Surjection
<1>3. ASSUME NEW j \in OpenClassJobs, j \in Issued PROVE j \in Of(I)
  BY <1>3 DEF OpenInv, Issued, OpenClassJobs, Working
<1>4. ASSUME NEW j \in OpenClassJobs, j \notin Issued
      PROVE  \E r \in R : at[r] \in {"read", "classify"} /\ own[r] = j
  <2>1. cjob[j] = "running" /\ j \in CJobs
    BY <1>4 DEF OpenClassJobs, PendingClassJobs, OpenInv
  <2>2. QED
    BY <1>4, <2>1 DEF OpenInv, Working
<1>5. CASE R = {}
  <2>1. OpenClassJobs \subseteq Of(I)
    BY <1>3, <1>4, <1>5
  <2>2. /\ Cardinality(OpenClassJobs) <= Cardinality(Of(I))
        /\ Cardinality(Of(I)) <= Cardinality(I)
        /\ IsFiniteSet(OpenClassJobs) /\ IsFiniteSet(Of(I))
    BY <1>1, <1>2, <2>1, FS_Subset
  <2>3. Cardinality(OpenClassJobs) \in Nat /\ Cardinality(Of(I)) \in Nat /\ Cardinality(I) \in Nat
    BY <1>1, <2>2, FS_CardinalityType
  <2>4. QED
    BY <1>5, <2>2, <2>3
<1>6. CASE R # {}
  <2>1. PICK r \in R : at[r] = "fetch" \/ own[r] \in Issued
    BY <1>6 DEF OpenInv, Working
  <2> DEFINE Q == R \ {r}
  <2>2. OpenClassJobs \subseteq Of(I) \cup Of(Q)
    <3>1. ASSUME NEW j \in OpenClassJobs, j \notin Issued PROVE j \in Of(Q)
      BY <1>4, <2>1, <3>1
    <3>2. QED
      BY <1>3, <3>1
  <2>3. IsFiniteSet(Q) /\ Cardinality(Q) = Cardinality(R) - 1
    BY <1>1, FS_RemoveElement
  <2>4. /\ IsFiniteSet(Of(I)) /\ IsFiniteSet(Of(Q))
        /\ Cardinality(Of(I)) <= Cardinality(I) /\ Cardinality(Of(Q)) <= Cardinality(Q)
    BY <1>1, <1>2, <2>3
  <2>5. /\ IsFiniteSet(Of(I) \cup Of(Q)) /\ IsFiniteSet(Of(I) \cap Of(Q))
        /\ Cardinality(Of(I) \cup Of(Q)) =
             Cardinality(Of(I)) + Cardinality(Of(Q)) - Cardinality(Of(I) \cap Of(Q))
    BY <2>4, FS_Union, FS_Intersection
  <2>6. /\ IsFiniteSet(OpenClassJobs)
        /\ Cardinality(OpenClassJobs) <= Cardinality(Of(I) \cup Of(Q))
    BY <2>2, <2>5, FS_Subset
  <2>7. /\ Cardinality(OpenClassJobs) \in Nat /\ Cardinality(I) \in Nat /\ Cardinality(R) \in Nat
        /\ Cardinality(Of(I)) \in Nat /\ Cardinality(Of(Q)) \in Nat
        /\ Cardinality(Of(I) \cap Of(Q)) \in Nat
    BY <1>1, <2>4, <2>5, <2>6, FS_CardinalityType
  <2>8. QED
    BY <1>6, <2>3, <2>4, <2>5, <2>6, <2>7
<1>7. QED
  BY <1>5, <1>6

(* However often runners overtake each other and importers race: no more jobs *)
(* open than importers at work, and runners at work but one (enqueue's look and *)
(* insert, dequeue's fetch and mark_started).                                *)
THEOREM OpenJobsAreBounded == RecordsSpec => []OpenJobsBounded
<1>1. Typed /\ JobsInv /\ CoverInv /\ OpenInv /\ [RecordsNext]_recordVars => OpenInv' /\ CoverInv'
  BY OpenStep, CoverStep
<1>2. QED
  BY <1>1, OpenCount, InitOpen, InitCover, TypedAlways, JobsAlways, PTL DEF RecordsSpec
=============================================================================
