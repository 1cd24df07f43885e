------------------------- MODULE WorkflowEngineProofs -------------------------
(***************************************************************************)
(* WorkflowEngine for any number of tasks, dependency lists and failures.  *)
(* The sequential policy: the loop takes each task at most once and a      *)
(* status it wrote is final; what is left of its list is ascending and     *)
(* still Pending (SeqInv).                                                 *)
(* The topological sort: a call is made with a longer path or a shorter    *)
(* list than its caller's, which gives an induction over calls             *)
(* (CallInduction), that the recursion has a result (SortRecursion), and   *)
(* what that result is (SortOrders).                                       *)
(* The DAG policy: what is left of the sorted list is Pending, each task   *)
(* once and after what it waits for (DagInv).                              *)
(***************************************************************************)
EXTENDS WorkflowEngine, FiniteSetTheorems, TLAPS

TaskStatus == {"Pending", "Running", "Success", "Failed", "Skipped"}

Ahead ==
  /\ \A i \in 1..Len(todo) : status[todo[i]] = "Pending"
  /\ \A i, j \in 1..Len(todo) : i < j => todo[i] < todo[j]

SeqInv ==
  policy = "Sequential" =>
    /\ status \in [Tasks -> TaskStatus]
    /\ \A t \in Tasks : DepsOf(t) \subseteq Tasks
    /\ todo \in Seq(Tasks)
    /\ current \in 0..TaskCount
    /\ current # 0 => status[current] = "Running"
    /\ Ahead
    /\ ret = "new" => todo = <<>> /\ current = 0 /\ \A t \in Tasks : status[t] = "Pending"
    /\ \A t \in Tasks : Started(t) => \A d \in DepsOf(t) : status[d] = "Success"

LEMMA InitSeqInv == Init => SeqInv
<1> SUFFICES ASSUME Init PROVE SeqInv
  OBVIOUS
<1>1. \A t \in Tasks : DepsOf(t) \subseteq Tasks
  <2>1. \A t \in Tasks : deps[t] \in Seq(Tasks)
    BY WorkflowAssumption DEF Init, Tasks
  <2>2. QED
    BY <2>1 DEF DepsOf
<1>2. QED
  BY <1>1, WorkflowAssumption DEF Init, SeqInv, Ahead, Started, TaskStatus, Tasks

\* which tasks a task depends on is fixed
LEMMA ConfigFixed == [Next]_vars => UNCHANGED config
BY DEF Next, Engine, Execute, TakeSequential, TakeDag, TakeParallel, Take, TaskEnds, Join,
       AllDone, FutureEnds, vars, config

LEMMA SeqInvStep ==
  ASSUME SeqInv, [Next]_vars
  PROVE  SeqInv'
<1> SUFFICES ASSUME policy = "Sequential" PROVE SeqInv'
  BY ConfigFixed DEF SeqInv, config
<1>0. /\ UNCHANGED config
      /\ \A t : DepsOf(t)' = DepsOf(t)
  BY ConfigFixed DEF config, DepsOf
<1>1. CASE UNCHANGED vars
  BY <1>0, <1>1 DEF vars, SeqInv, Ahead, Started
<1>2. CASE Execute
  <2>1. InOrder \in Seq(Tasks) /\ Len(InOrder) = TaskCount /\ \A i \in Tasks : InOrder[i] = i
    BY WorkflowAssumption DEF InOrder, Tasks
  <2>2. todo' = InOrder /\ status' = status /\ current' = current /\ ret' = "running"
    BY <1>2 DEF Execute, Return
  <2>3. Ahead'
    BY <1>2, <2>1, <2>2, WorkflowAssumption DEF Ahead, SeqInv, Execute, Tasks
  <2>4. QED
    BY <1>0, <2>1, <2>2, <2>3 DEF SeqInv, Started
<1>3. CASE TakeSequential
  <2>0. PICK t \in Tasks : t = Head(todo)
    BY <1>3 DEF TakeSequential, Take, SeqInv
  <2>1. /\ t = todo[1] /\ status[t] = "Pending" /\ current = 0
        /\ todo' = Tail(todo) /\ todo' \in Seq(Tasks) /\ Len(todo') = Len(todo) - 1
        /\ Len(todo) \in Nat
        /\ \A i \in 1..Len(todo') : todo'[i] = todo[i + 1]
    BY <1>3, <2>0 DEF TakeSequential, Take, SeqInv, Ahead
  <2>2. \A i \in 1..Len(todo') : todo'[i] # t /\ i + 1 \in 1..Len(todo) /\ todo'[i] \in Tasks
    BY <2>1, WorkflowAssumption DEF SeqInv, Ahead, Tasks
  <2>3. status' \in [Tasks -> TaskStatus] /\ \A u \in Tasks : u # t => status'[u] = status[u]
    BY <1>3, <2>0 DEF TakeSequential, SetStatus, SeqInv, TaskStatus
  <2>4. Ahead'
    <3>1. \A i \in 1..Len(todo') : status'[todo'[i]] = "Pending"
      BY <2>1, <2>2, <2>3 DEF SeqInv, Ahead
    <3>2. \A i, j \in 1..Len(todo') : i < j => todo'[i] < todo'[j]
      BY <2>1, <2>2 DEF SeqInv, Ahead
    <3>3. QED
      BY <3>1, <3>2 DEF Ahead
  <2>5. \A u \in Tasks : Started(u)' => \A d \in DepsOf(u) : status'[d] = "Success"
    <3>1. \A d \in Tasks : status[d] = "Success" => status'[d] = "Success"
      BY <2>1, <2>3
    <3>2. ASSUME Started(t)' PROVE \A d \in DepsOf(t) : status[d] = "Success"
      <4>1. CASE \A d \in DepsOf(t) : status[d] = "Success"
        BY <4>1
      <4>2. CASE ~\A d \in DepsOf(t) : status[d] = "Success"
        <5>1. status' = [status EXCEPT ![t] = "Skipped"]
          BY <1>3, <2>0, <4>2 DEF TakeSequential, SetStatus
        <5>2. status'[t] = "Skipped"
          BY <2>1, <5>1 DEF SeqInv
        <5>3. QED
          BY <3>2, <5>2 DEF Started
      <4>3. QED
        BY <4>1, <4>2
    <3>3. \A u \in Tasks : u # t => (Started(u)' <=> Started(u))
      BY <2>3 DEF Started
    <3>4. QED
      BY <3>1, <3>2, <3>3 DEF SeqInv
  <2>6. ret' # "new" /\ current' \in {0, t} /\ (current' # 0 => status'[current'] = "Running")
    BY <1>3, <2>0, <2>1, <2>3 DEF TakeSequential, Take, SetStatus, Return, SeqInv
  <2>7. QED
    BY <1>0, <2>1, <2>3, <2>4, <2>5, <2>6, WorkflowAssumption DEF SeqInv, Tasks
<1>4. CASE TaskEnds
  <2>1. /\ current \in Tasks /\ status[current] = "Running" /\ current' = 0 /\ todo' = todo
        /\ ret # "new"
    BY <1>4, WorkflowAssumption DEF TaskEnds, SeqInv, Tasks
  <2>2. /\ status' \in [Tasks -> TaskStatus]
        /\ \A u \in Tasks : u # current => status'[u] = status[u]
    BY <1>4 DEF TaskEnds, SetStatus, SeqInv, TaskStatus
  <2>3. Ahead'
    BY <2>1, <2>2 DEF Ahead, SeqInv
  <2>4. \A u \in Tasks : Started(u)' => Started(u)
    BY <2>1, <2>2 DEF Started
  <2>5. \A d \in Tasks : status[d] = "Success" => status'[d] = "Success"
    BY <2>1, <2>2
  <2>6. ret' # "new"
    BY <1>4, <2>1 DEF TaskEnds, Return
  <2>7. QED
    BY <1>0, <2>1, <2>2, <2>3, <2>4, <2>5, <2>6, WorkflowAssumption DEF SeqInv, Tasks
<1>5. CASE AllDone
  BY <1>0, <1>5 DEF AllDone, Return, SeqInv, Ahead, Started
<1>6. ASSUME NEW t \in Tasks, FutureEnds(t) PROVE SeqInv'
  BY <1>0, <1>6 DEF FutureEnds, SeqInv, Ahead, Started
<1>7. QED
  BY <1>1, <1>2, <1>3, <1>4, <1>5, <1>6
     DEF Next, Engine, TakeDag, TakeParallel, Join

(* execute_sequential starts a task only when all it depends on succeeded,   *)
(* for every list of tasks and every set of failures.                        *)
THEOREM SequentialDependencies == Spec => []SequentialNeedsSuccess
<1>1. SeqInv => SequentialNeedsSuccess
  BY DEF SeqInv, SequentialNeedsSuccess
<1>2. QED
  BY <1>1, InitSeqInv, SeqInvStep, PTL DEF Spec
-----------------------------------------------------------------------------
(* topological_sort: the recursion ends, for every list of dependencies.    *)
(* A call either lengthens the path, which no task is on twice, or keeps    *)
(* the path and shortens the list.                                          *)

Rest(v, below) == Call(Tail(v.list), v.temp, Visit(v, below))
Skips(v) == Head(v.list) \in v.state.visited \cup v.temp
Listed == deps \in [Tasks -> Seq(Tasks)]

LEMMA CallParts ==
  ASSUME Listed, NEW v \in Calls, ~Over(v)
  PROVE  /\ Head(v.list) \in Tasks /\ Below(v) \in Calls
         /\ Len(v.list) \in Nat /\ Len(Tail(v.list)) = Len(v.list) - 1
         /\ \A b \in SortState : Visit(v, b) \in SortState /\ Rest(v, b) \in Calls
         /\ Skips(v) => \A b, c : Rest(v, b) = Rest(v, c)
<1>1. /\ v.list \in Seq(Tasks) /\ v.list # <<>> /\ v.temp \in SUBSET Tasks
      /\ v.state \in SortState
  BY DEF Calls, Over
<1>2. Head(v.list) \in Tasks /\ Tail(v.list) \in Seq(Tasks) /\ Len(v.list) \in Nat
      /\ Len(Tail(v.list)) = Len(v.list) - 1
  BY <1>1
<1>3. Below(v) \in Calls
  BY <1>1, <1>2 DEF Below, Call, Calls, Listed
<1>4. ASSUME NEW b \in SortState PROVE Visit(v, b) \in SortState
  <2>1. b.sorted \in Seq(Tasks) /\ Append(b.sorted, Head(v.list)) \in Seq(Tasks)
    BY <1>2 DEF SortState
  <2>2. [v.state EXCEPT !.ok = FALSE] \in SortState
    BY <1>1 DEF SortState
  <2>3. [b EXCEPT !.sorted = Append(@, Head(v.list)), !.visited = @ \cup {Head(v.list)}] \in SortState
    BY <1>2, <2>1 DEF SortState
  <2>4. QED
    BY <1>1, <2>2, <2>3 DEF Visit
<1>5. ASSUME NEW b \in SortState PROVE Rest(v, b) \in Calls
  BY <1>1, <1>2, <1>4 DEF Rest, Call, Calls
<1>6. Skips(v) => \A b, c : Rest(v, b) = Rest(v, c)
  BY DEF Skips, Rest, Visit
<1>7. QED
  BY <1>2, <1>3, <1>4, <1>5, <1>6

LEMMA LeastNumber ==
  ASSUME NEW S \in SUBSET Nat, S # {}
  PROVE  \E n \in S : \A m \in S : n <= m
<1>1. PICK n \in S : \A m \in S : ~(<<m, n>> \in OpToRel(<, Nat))
  BY WFMin, NatLessThanWellFounded
<1>2. \A m \in S : ~(m < n)
  BY <1>1 DEF OpToRel
<1>3. QED
  BY <1>2

\* tasks not on the path
Room(v) == Cardinality(Tasks \ v.temp)

LEMMA RoomOf ==
  ASSUME NEW v \in Calls
  PROVE  /\ Room(v) \in Nat
         /\ \A b : Room(Rest(v, b)) = Room(v)
         /\ Head(v.list) \in Tasks \ v.temp => Room(Below(v)) = Room(v) - 1
<1>1. IsFiniteSet(Tasks)
  <2>1. 1 \in Int /\ TaskCount \in Int
    BY WorkflowAssumption
  <2>2. QED
    BY <2>1, FS_Interval DEF Tasks
<1>2. IsFiniteSet(Tasks \ v.temp)
  BY <1>1, FS_Subset
<1>3. Room(v) \in Nat
  BY <1>2, FS_CardinalityType DEF Room
<1>4. \A b : Room(Rest(v, b)) = Room(v)
  BY DEF Room, Rest, Call
<1>5. ASSUME Head(v.list) \in Tasks \ v.temp PROVE Room(Below(v)) = Room(v) - 1
  <2>1. Below(v).temp = v.temp \cup {Head(v.list)}
    BY DEF Below, Call
  <2>2. Tasks \ Below(v).temp = (Tasks \ v.temp) \ {Head(v.list)}
    BY <2>1
  <2>3. QED
    BY <1>2, <1>5, <2>2, FS_RemoveElement DEF Room
<1>6. QED
  BY <1>3, <1>4, <1>5

(* What holds of every call if it holds of a call whenever it holds of the  *)
(* calls that this one makes.                                               *)
LEMMA CallInduction ==
  ASSUME Listed, NEW Good \in SUBSET Calls,
         \A v \in Calls :
           \/ Over(v)
           \/ (Skips(v) \/ Below(v) \in Good) /\ \A b \in SortState : Rest(v, b) \in Good
           => v \in Good
  PROVE  Good = Calls
<1> SUFFICES ASSUME Calls \ Good # {} PROVE FALSE
  OBVIOUS
<1> DEFINE Rooms == {Room(v) : v \in Calls \ Good}
<1>1. PICK n \in Rooms : \A m \in Rooms : n <= m
  <2>1. Rooms \in SUBSET Nat /\ Rooms # {}
    BY RoomOf
  <2>2. QED
    BY <2>1, LeastNumber
<1> DEFINE Tight == {v \in Calls \ Good : Room(v) = n}
           Lengths == {Len(v.list) : v \in Tight}
<1>2. PICK k \in Lengths : \A m \in Lengths : k <= m
  <2>1. Lengths \in SUBSET Nat /\ Lengths # {}
    <3>1. \A v \in Calls : v.list \in Seq(Tasks) /\ Len(v.list) \in Nat
      BY DEF Calls
    <3>2. QED
      BY <1>1, <3>1
  <2>2. QED
    BY <2>1, LeastNumber
<1>3. PICK v \in Calls \ Good : Room(v) = n /\ Len(v.list) = k
  BY <1>2
<1>4. ~Over(v)
  BY <1>3
<1>5. Skips(v) \/ Below(v) \in Good
  <2>1. SUFFICES ASSUME ~Skips(v), Below(v) \notin Good PROVE FALSE
    OBVIOUS
  <2>2. Head(v.list) \in Tasks \ v.temp /\ Below(v) \in Calls
    BY <1>3, <1>4, <2>1, CallParts DEF Skips
  <2>3. Room(Below(v)) \in Rooms /\ Room(Below(v)) = n - 1 /\ n \in Nat
    BY <1>3, <2>1, <2>2, RoomOf
  <2>4. QED
    BY <1>1, <2>3
<1>6. ASSUME NEW b \in SortState PROVE Rest(v, b) \in Good
  <2>1. SUFFICES ASSUME Rest(v, b) \notin Good PROVE FALSE
    OBVIOUS
  <2>2. Rest(v, b) \in Calls /\ Rest(v, b).list = Tail(v.list)
        /\ Len(Tail(v.list)) = k - 1 /\ k \in Nat
    BY <1>3, <1>4, CallParts DEF Rest, Call
  <2>3. Rest(v, b) \in Tight
    BY <1>3, <2>1, <2>2, RoomOf
  <2>4. k - 1 \in Lengths
    BY <2>2, <2>3
  <2>5. QED
    BY <1>2, <2>2, <2>4
<1>7. QED
  BY <1>3, <1>5, <1>6

(* What calls return, as the least set of results closed under the step of  *)
(* the recursion.                                                           *)
Leads(R, v, b, y) ==
  IF Over(v) THEN y = v.state
  ELSE (Skips(v) \/ <<Below(v), b>> \in R) /\ <<Rest(v, b), y>> \in R

ResultSets == SUBSET (Calls \X SortState)
ClosedSet(R) ==
  \A v \in Calls, b \in SortState, y \in SortState : Leads(R, v, b, y) => <<v, y>> \in R
Results == {p \in Calls \X SortState : \A R \in ResultSets : ClosedSet(R) => p \in R}

LEMMA LeadsGrows ==
  ASSUME NEW Q, NEW R, Q \subseteq R, NEW v, NEW b, NEW y, Leads(Q, v, b, y)
  PROVE  Leads(R, v, b, y)
BY DEF Leads

LEMMA ResultsClosed == ClosedSet(Results)
<1> SUFFICES ASSUME NEW v \in Calls, NEW b \in SortState, NEW y \in SortState,
                    Leads(Results, v, b, y)
             PROVE  <<v, y>> \in Results
  BY DEF ClosedSet
<1>1. ASSUME NEW R \in ResultSets, ClosedSet(R) PROVE <<v, y>> \in R
  <2>1. Results \subseteq R
    BY <1>1 DEF Results
  <2>2. Leads(R, v, b, y)
    BY <2>1, LeadsGrows
  <2>3. QED
    BY <1>1, <2>2 DEF ClosedSet
<1>2. QED
  BY <1>1 DEF Results

LEMMA ResultsLead ==
  ASSUME NEW v, NEW y, <<v, y>> \in Results
  PROVE  /\ v \in Calls /\ y \in SortState
         /\ \E b \in SortState : Leads(Results, v, b, y)
<1>1. v \in Calls /\ y \in SortState
  BY DEF Results
<1>2. SUFFICES ASSUME \A b \in SortState : ~Leads(Results, v, b, y) PROVE FALSE
  BY <1>1
<1> DEFINE R == Results \ {<<v, y>>}
<1>3. R \in ResultSets
  BY DEF Results, ResultSets
<1>4. ASSUME NEW w \in Calls, NEW c \in SortState, NEW z \in SortState, Leads(R, w, c, z)
      PROVE  <<w, z>> \in R
  <2>1. Leads(Results, w, c, z)
    BY <1>4, LeadsGrows
  <2>2. <<w, z>> \in Results
    BY <2>1, ResultsClosed DEF ClosedSet
  <2>3. <<w, z>> # <<v, y>>
    BY <1>2, <2>1
  <2>4. QED
    BY <2>2, <2>3
<1>5. ClosedSet(R)
  BY <1>4 DEF ClosedSet
<1>6. QED
  BY <1>3, <1>5 DEF Results

Settled == {v \in Calls : \E y \in SortState : \A z : <<v, z>> \in Results <=> z = y}

LEMMA OneResult == Listed => Settled = Calls
<1> SUFFICES ASSUME Listed PROVE Settled = Calls
  OBVIOUS
<1>1. ASSUME NEW v \in Calls, Over(v) PROVE v \in Settled
  <2>1. v.state \in SortState
    BY DEF Calls
  <2>2. <<v, v.state>> \in Results
    BY <1>1, <2>1, ResultsClosed DEF ClosedSet, Leads
  <2>3. ASSUME NEW z, <<v, z>> \in Results PROVE z = v.state
    BY <1>1, <2>3, ResultsLead DEF Leads
  <2>4. QED
    BY <2>1, <2>2, <2>3 DEF Settled
<1>2. ASSUME NEW v \in Calls, ~Over(v), Skips(v) \/ Below(v) \in Settled,
             \A b \in SortState : Rest(v, b) \in Settled
      PROVE  v \in Settled
  <2>1. \E b \in SortState :
          \A c \in SortState : Skips(v) \/ <<Below(v), c>> \in Results => Rest(v, c) = Rest(v, b)
    <3>1. CASE Skips(v)
      <4>1. v.state \in SortState
        BY DEF Calls
      <4>2. \A c : Rest(v, c) = Rest(v, v.state)
        BY <1>2, <3>1, CallParts
      <4>3. QED
        BY <4>1, <4>2
    <3>2. CASE ~Skips(v)
      BY <1>2, <3>2 DEF Settled
    <3>3. QED
      BY <3>1, <3>2
  <2>2. PICK b \in SortState :
          /\ Skips(v) \/ <<Below(v), b>> \in Results
          /\ \A c \in SortState : Skips(v) \/ <<Below(v), c>> \in Results => Rest(v, c) = Rest(v, b)
    BY <1>2, <2>1 DEF Settled
  <2>3. PICK y \in SortState : \A z : <<Rest(v, b), z>> \in Results <=> z = y
    BY <1>2 DEF Settled
  <2>4. <<v, y>> \in Results
    BY <1>2, <2>2, <2>3, ResultsClosed DEF ClosedSet, Leads
  <2>5. ASSUME NEW z, <<v, z>> \in Results PROVE z = y
    <3>1. PICK c \in SortState : Leads(Results, v, c, z)
      BY <2>5, ResultsLead
    <3>2. Rest(v, c) = Rest(v, b) /\ <<Rest(v, c), z>> \in Results
      BY <1>2, <2>2, <3>1 DEF Leads
    <3>3. QED
      BY <2>3, <3>2
  <2>6. QED
    BY <2>4, <2>5 DEF Settled
<1>3. QED
  BY <1>1, <1>2, CallInduction DEF Settled

Returns(f, v) == IF Over(v) THEN v.state ELSE f[Rest(v, f[Below(v)])]
IsVisitAll(f) == f = [v \in Calls |-> Returns(f, v)]

(* VisitAll is what its definition says, and its values are sort states.     *)
LEMMA SortRecursion ==
  ASSUME Listed, NEW v \in Calls
  PROVE  VisitAll[v] \in SortState /\ VisitAll[v] = Returns(VisitAll, v)
<1> DEFINE g == [w \in Calls |-> CHOOSE y \in SortState : <<w, y>> \in Results]
<1>1. ASSUME NEW w \in Calls
      PROVE  g[w] \in SortState /\ \A z : <<w, z>> \in Results <=> z = g[w]
  BY OneResult DEF Settled
<1>2. ASSUME NEW w \in Calls PROVE g[w] = Returns(g, w)
  <2>1. PICK b \in SortState : Leads(Results, w, b, g[w])
    BY <1>1, ResultsLead
  <2>2. CASE Over(w)
    BY <2>1, <2>2 DEF Leads, Returns
  <2>3. CASE ~Over(w)
    <3>1. Rest(w, b) = Rest(w, g[Below(w)])
      <4>1. CASE Skips(w)
        BY <2>3, <4>1, CallParts
      <4>2. CASE ~Skips(w)
        BY <1>1, <2>1, <2>3, <4>2, CallParts DEF Leads
      <4>3. QED
        BY <4>1, <4>2
    <3>2. g[w] = g[Rest(w, b)]
      BY <1>1, <2>1, <2>3, CallParts DEF Leads
    <3>3. QED
      BY <2>3, <3>1, <3>2 DEF Returns
  <2>4. QED
    BY <2>2, <2>3
<1>3. IsVisitAll(g)
  BY <1>2 DEF IsVisitAll
<1>4. VisitAll = CHOOSE f : IsVisitAll(f)
  BY Zenon DEF VisitAll, IsVisitAll, Returns, Rest
<1>5. IsVisitAll(CHOOSE f : IsVisitAll(f))
  BY <1>3, Zenon
<1>6. IsVisitAll(VisitAll)
  BY <1>4, <1>5
<1>7. \A w \in Calls : VisitAll[w] = Returns(VisitAll, w)
  BY <1>6 DEF IsVisitAll
<1> DEFINE Good == {w \in Calls : VisitAll[w] \in SortState}
<1>8. ASSUME NEW w \in Calls, Over(w) PROVE w \in Good
  BY <1>7, <1>8 DEF Returns, Calls
<1>9. ASSUME NEW w \in Calls, ~Over(w), Skips(w) \/ Below(w) \in Good,
             \A b \in SortState : Rest(w, b) \in Good
      PROVE  w \in Good
  <2>1. \E b \in SortState : Rest(w, VisitAll[Below(w)]) = Rest(w, b)
    <3>1. w.state \in SortState
      BY DEF Calls
    <3>2. QED
      BY <1>9, <3>1, CallParts
  <2>2. QED
    BY <1>7, <1>9, <2>1 DEF Returns
<1>10. Good = Calls
  BY <1>8, <1>9, CallInduction
<1>11. QED
  BY <1>7, <1>10
-----------------------------------------------------------------------------
(* topological_sort: what it returns                                        *)

\* every task is listed once, and after all it depends on
Ordered(s) ==
  /\ s.visited = {s.sorted[i] : i \in DOMAIN s.sorted}
  /\ \A i, j \in DOMAIN s.sorted : i # j => s.sorted[i] # s.sorted[j]
  /\ \A i \in DOMAIN s.sorted : \A d \in DepsOf(s.sorted[i]) :
       \E j \in DOMAIN s.sorted : j < i /\ s.sorted[j] = d

\* r lists all of v's list; it lists no task that is on the path and was not listed
Sorts(v, r) ==
  r.ok =>
    /\ v.state.ok /\ Ordered(r)
    /\ v.state.visited \subseteq r.visited
    /\ r.visited \cap v.temp \subseteq v.state.visited
    /\ \A i \in DOMAIN v.list : v.list[i] \in r.visited

LEMMA AppendOrdered ==
  ASSUME NEW s \in SortState, Ordered(s), NEW t \in Tasks \ s.visited, DepsOf(t) \subseteq s.visited
  PROVE  Ordered([s EXCEPT !.sorted = Append(@, t), !.visited = @ \cup {t}])
<1> DEFINE n == Len(s.sorted) + 1
           a == Append(s.sorted, t)
           r == [s EXCEPT !.sorted = Append(@, t), !.visited = @ \cup {t}]
<1>1. r.sorted = a /\ r.visited = s.visited \cup {t} /\ s.sorted \in Seq(Tasks)
  BY DEF SortState
<1>2. /\ Len(s.sorted) \in Nat /\ DOMAIN s.sorted = 1..Len(s.sorted) /\ DOMAIN a = 1..n
      /\ a[n] = t /\ \A i \in 1..Len(s.sorted) : a[i] = s.sorted[i]
  BY <1>1
<1>3. DOMAIN a = DOMAIN s.sorted \cup {n} /\ n \notin DOMAIN s.sorted
      /\ \A j \in DOMAIN s.sorted : j < n
  BY <1>2
<1>4. r.visited = {a[i] : i \in DOMAIN a}
  BY <1>1, <1>2, <1>3 DEF Ordered
<1>5. \A i, j \in DOMAIN a : i # j => a[i] # a[j]
  <2>1. \A i \in DOMAIN s.sorted : a[i] = s.sorted[i] /\ s.sorted[i] # t
    BY <1>2 DEF Ordered
  <2>2. QED
    BY <1>2, <1>3, <2>1 DEF Ordered
<1>6. ASSUME NEW i \in DOMAIN a, NEW d \in DepsOf(a[i])
      PROVE  \E j \in DOMAIN a : j < i /\ a[j] = d
  <2>1. CASE i = n
    <3>1. PICK j \in DOMAIN s.sorted : s.sorted[j] = d
      BY <1>2, <1>6, <2>1 DEF Ordered
    <3>2. QED
      BY <1>2, <1>3, <2>1, <3>1
  <2>2. CASE i # n
    <3>1. PICK j \in DOMAIN s.sorted : j < i /\ s.sorted[j] = d
      BY <1>2, <1>3, <1>6, <2>2 DEF Ordered
    <3>2. QED
      BY <1>2, <1>3, <3>1
  <2>3. QED
    BY <2>1, <2>2
<1>7. ASSUME NEW q, q.sorted = a, q.visited = r.visited PROVE Ordered(q)
  <2> HIDE DEF a, r
  <2>1. QED
    BY <1>4, <1>5, <1>6, <1>7 DEF Ordered
<1>8. QED
  BY <1>1, <1>7

LEMMA VisitSorts ==
  ASSUME Listed, NEW v \in Calls, ~Over(v), Ordered(v.state), NEW b \in SortState,
         Skips(v) \/ Sorts(Below(v), b)
  PROVE  Visit(v, b).ok =>
           /\ Ordered(Visit(v, b))
           /\ v.state.visited \cup {Head(v.list)} \subseteq Visit(v, b).visited
           /\ Visit(v, b).visited \cap v.temp \subseteq v.state.visited
<1> DEFINE t == Head(v.list)
<1>1. t \in Tasks /\ v.state \in SortState
  BY CallParts DEF Calls
<1>2. CASE t \in v.state.visited
  BY <1>2 DEF Visit
<1>3. CASE t \notin v.state.visited /\ t \in v.temp
  BY <1>1, <1>3 DEF Visit, SortState
<1>4. CASE t \notin v.state.visited \cup v.temp /\ ~b.ok
  BY <1>4 DEF Visit
<1>5. CASE t \notin v.state.visited \cup v.temp /\ b.ok
  <2>1. /\ Ordered(b) /\ v.state.visited \subseteq b.visited
        /\ b.visited \cap (v.temp \cup {t}) \subseteq v.state.visited
        /\ \A i \in DOMAIN deps[t] : deps[t][i] \in b.visited
    BY <1>5 DEF Skips, Sorts, Below, Call
  <2>2. t \notin b.visited /\ DepsOf(t) \subseteq b.visited
    BY <1>5, <2>1 DEF DepsOf
  <2>3. Visit(v, b) = [b EXCEPT !.sorted = Append(@, t), !.visited = @ \cup {t}]
    BY <1>5 DEF Visit
  <2>4. Visit(v, b).visited = b.visited \cup {t}
    BY <2>3 DEF SortState
  <2>5. Ordered(Visit(v, b))
    BY <1>1, <2>1, <2>2, <2>3, AppendOrdered
  <2>6. QED
    BY <1>5, <2>1, <2>4, <2>5
<1>6. QED
  BY <1>2, <1>3, <1>4, <1>5

LEMMA CallsSort ==
  ASSUME Listed
  PROVE  \A v \in Calls : (v.state.ok => Ordered(v.state)) => Sorts(v, VisitAll[v])
<1> DEFINE Good == {v \in Calls : (v.state.ok => Ordered(v.state)) => Sorts(v, VisitAll[v])}
<1>1. ASSUME NEW v \in Calls, Over(v) PROVE v \in Good
  <2>1. VisitAll[v] = v.state
    BY <1>1, SortRecursion DEF Returns
  <2>2. v.state.ok => v.list = <<>>
    BY <1>1 DEF Over
  <2>3. QED
    BY <2>1, <2>2 DEF Sorts
<1>2. ASSUME NEW v \in Calls, ~Over(v), Skips(v) \/ Below(v) \in Good,
             \A b \in SortState : Rest(v, b) \in Good
      PROVE  v \in Good
  <2> DEFINE t == Head(v.list)
             b == VisitAll[Below(v)]
             h == Visit(v, b)
             r == VisitAll[v]
  <2>1. SUFFICES ASSUME Ordered(v.state), r.ok PROVE Sorts(v, r)
    BY <1>2 DEF Sorts, Over
  <2>2. b \in SortState /\ t \in Tasks /\ h \in SortState /\ Rest(v, b) \in Calls
    BY <1>2, CallParts, SortRecursion
  <2>3. r = VisitAll[Rest(v, b)]
    BY <1>2, SortRecursion DEF Returns
  <2>4. Rest(v, b).state = h /\ Rest(v, b).temp = v.temp /\ Rest(v, b).list = Tail(v.list)
    BY DEF Rest, Call
  <2>5. h.ok =>
          /\ Ordered(h) /\ v.state.visited \cup {t} \subseteq h.visited
          /\ h.visited \cap v.temp \subseteq v.state.visited
    <3>1. Below(v).state = v.state
      BY DEF Below, Call
    <3>2. Skips(v) \/ Sorts(Below(v), b)
      BY <1>2, <2>1, <3>1
    <3>3. QED
      BY <1>2, <2>1, <2>2, <3>2, VisitSorts
  <2>6. /\ h.ok /\ Ordered(r) /\ h.visited \subseteq r.visited
        /\ r.visited \cap v.temp \subseteq h.visited
        /\ \A i \in DOMAIN Tail(v.list) : Tail(v.list)[i] \in r.visited
    BY <1>2, <2>1, <2>2, <2>3, <2>4, <2>5 DEF Sorts
  <2>7. ASSUME NEW i \in DOMAIN v.list PROVE v.list[i] \in r.visited
    <3>1. v.list \in Seq(Tasks) /\ v.list # <<>>
      BY <1>2 DEF Calls, Over
    <3>2. CASE i = 1
      BY <2>5, <2>6, <3>1, <3>2
    <3>3. CASE i # 1
      <4>1. i - 1 \in DOMAIN Tail(v.list) /\ Tail(v.list)[i - 1] = v.list[i]
        BY <2>7, <3>1, <3>3
      <4>2. QED
        BY <2>6, <4>1
    <3>4. QED
      BY <3>2, <3>3
  <2>8. QED
    BY <1>2, <2>5, <2>6, <2>7 DEF Sorts, Over
<1>3. Good = Calls
  BY <1>1, <1>2, CallInduction
<1>4. QED
  BY <1>3

(* A sort that does not fail lists every task, once and after all that it   *)
(* depends on.                                                              *)
LEMMA SortOrders ==
  ASSUME Listed
  PROVE  /\ TopologicalSort \in SortState
         /\ TopologicalSort.ok => Ordered(TopologicalSort) /\ TopologicalSort.visited = Tasks
<1>1. InOrder \in Seq(Tasks) /\ DOMAIN InOrder = Tasks /\ \A t \in Tasks : InOrder[t] = t
  BY WorkflowAssumption DEF InOrder, Tasks
<1>2. FirstCall \in Calls
  BY <1>1 DEF FirstCall, Call, Calls, SortState
<1>3. FirstCall.list = InOrder /\ Ordered(FirstCall.state)
  BY DEF FirstCall, Call, Ordered
<1>4. TopologicalSort \in SortState /\ Sorts(FirstCall, TopologicalSort)
  BY <1>2, <1>3, SortRecursion, CallsSort DEF TopologicalSort
<1>5. TopologicalSort.visited \in SUBSET Tasks
  BY <1>4 DEF SortState
<1>6. ASSUME TopologicalSort.ok
      PROVE  Ordered(TopologicalSort) /\ \A i \in DOMAIN InOrder : InOrder[i] \in TopologicalSort.visited
  BY <1>3, <1>4, <1>6 DEF Sorts
<1>7. QED
  BY <1>1, <1>4, <1>5, <1>6

(* So a sort that does not fail shows that there is no cycle.               *)
LEMMA SortedIsAcyclic ==
  ASSUME Listed, TopologicalSort.ok
  PROVE  Acyclic
<1> DEFINE s == TopologicalSort.sorted
           n == Len(s)
           f == [t \in Tasks |-> CHOOSE i \in 1..n : s[i] = t]
<1>1. /\ s \in Seq(Tasks) /\ n \in Nat /\ DOMAIN s = 1..n
      /\ Ordered(TopologicalSort) /\ TopologicalSort.visited = Tasks
  BY SortOrders DEF SortState
<1>2. \A t \in Tasks : f[t] \in 1..n /\ s[f[t]] = t
  BY <1>1 DEF Ordered
<1>3. n <= TaskCount
  <2>1. /\ IsFiniteSet(1..n) /\ Cardinality(1..n) = n
        /\ IsFiniteSet(1..TaskCount) /\ Cardinality(1..TaskCount) = TaskCount
    <3>1. 1 \in Int /\ n \in Int /\ TaskCount \in Nat
      BY <1>1, WorkflowAssumption
    <3>2. ASSUME NEW m \in Nat PROVE IsFiniteSet(1..m) /\ Cardinality(1..m) = m
      <4>1. m \in Int /\ 1 \in Int
        OBVIOUS
      <4>2. IsFiniteSet(1..m) /\ Cardinality(1..m) = IF 1 > m THEN 0 ELSE m - 1 + 1
        BY <4>1, FS_Interval
      <4>3. QED
        BY <4>2
    <3>3. QED
      BY <1>1, <3>1, <3>2
  <2>2. s \in Injection(1..n, Tasks)
    <3>1. s \in [1..n -> Tasks]
      BY <1>1
    <3>2. \A i, j \in 1..n : s[i] = s[j] => i = j
      BY <1>1 DEF Ordered
    <3>3. QED
      BY <1>1, <3>1, <3>2 DEF Injection, IsInjective
  <2>3. QED
    BY <2>1, <2>2, FS_Injection DEF Tasks
<1>4. f \in [Tasks -> Tasks]
  <2>1. 1..n \subseteq Tasks
    BY <1>1, <1>3, WorkflowAssumption DEF Tasks
  <2>2. QED
    BY <1>2, <2>1
<1>5. ASSUME NEW t \in Tasks, NEW d \in DepsOf(t) PROVE f[d] < f[t]
  <2>1. PICK j \in 1..n : j < f[t] /\ s[j] = d
    <3>1. \A i \in 1..n : \A e \in DepsOf(s[i]) : \E j \in 1..n : j < i /\ s[j] = e
      BY <1>1 DEF Ordered
    <3>2. f[t] \in 1..n /\ s[f[t]] = t
      BY <1>2
    <3> HIDE DEF f
    <3>3. QED
      BY <1>5, <3>1, <3>2
  <2>2. d \in Tasks /\ f[d] = j
    BY <1>1, <1>2, <2>1 DEF Ordered
  <2>3. QED
    BY <2>1, <2>2
<1>6. QED
  BY <1>4, <1>5 DEF Acyclic
-----------------------------------------------------------------------------
(* Types                                                                    *)

LEMMA TypeListed == TypeOK => Listed
BY WorkflowAssumption DEF TypeOK, Listed, Tasks

LEMMA InOrderList == InOrder \in Seq(Tasks)
BY WorkflowAssumption DEF InOrder, Tasks

LEMMA TypeStep ==
  ASSUME TypeOK, [Next]_vars
  PROVE  TypeOK'
<1>0. /\ UNCHANGED config /\ 0 \notin Tasks /\ \A t \in Tasks : t \in 0..TaskCount
      /\ \A n \in 0..TaskCount : n # 0 => n \in Tasks
  BY ConfigFixed, WorkflowAssumption DEF Tasks
<1>1. CASE UNCHANGED vars
  BY <1>1 DEF vars, config, TypeOK
<1>2. CASE Execute
  <2>1. TopologicalSort.sorted \in Seq(Tasks)
    BY TypeListed, SortOrders DEF SortState
  <2>2. /\ todo' \in Seq(Tasks) /\ ret' \in {"running", "err"} /\ UNCHANGED <<status, current>>
        /\ future' \in [Tasks -> {"none", "spawned", "ok", "err"}]
    BY <1>2, <2>1, InOrderList DEF Execute, Return, TypeOK
  <2>3. QED
    BY <1>0, <2>2 DEF TypeOK, config
<1>3. CASE TakeSequential \/ TakeDag \/ TakeParallel
  <2>1. /\ Head(todo) \in Tasks /\ todo' \in Seq(Tasks) /\ current = 0 /\ future' = future
        /\ \A t \in Tasks : status[t] # "Running"
    <3>1. todo # <<>> /\ todo' = Tail(todo) /\ current = 0 /\ future' = future
      BY <1>3 DEF TakeSequential, TakeDag, TakeParallel, Take
    <3>2. todo \in Seq(Tasks) /\ \A t \in Tasks : status[t] = "Running" => t = current
      BY DEF TypeOK
    <3>3. QED
      BY <1>0, <3>1, <3>2
  <2>2. \/ /\ policy # "Parallel" /\ current' = Head(todo) /\ ret' = ret
           /\ status' = [status EXCEPT ![Head(todo)] = "Running"]
        \/ /\ policy # "Parallel" /\ current' = current /\ ret' = "ok"
           /\ status' = [status EXCEPT ![Head(todo)] = "Skipped"]
        \/ policy = "Parallel" /\ current' = Head(todo) /\ ret' = ret /\ status' = status
    BY <1>3, <2>1 DEF TakeSequential, TakeDag, TakeParallel, SetStatus, Return
  <2>3. /\ current' \in 0..TaskCount /\ ret' \in {"new", "running", "ok", "err"}
        /\ status' \in [Tasks -> {"Pending", "Running", "Success", "Failed", "Skipped"}]
    BY <1>0, <2>1, <2>2 DEF TypeOK
  <2>4. \A t \in Tasks : status'[t] = "Running" <=> t = current' /\ policy # "Parallel"
    BY <1>0, <2>1, <2>2 DEF TypeOK
  <2>5. QED
    BY <1>0, <2>1, <2>3, <2>4 DEF TypeOK, config
<1>4. CASE TaskEnds \/ Join
  <2>1. /\ current \in Tasks /\ current' = 0 /\ todo' = todo /\ future' = future
        /\ ret' \in {ret, "err"}
        /\ \E s \in {"Success", "Failed"} : status' = [status EXCEPT ![current] = s]
    BY <1>0, <1>4 DEF TaskEnds, Join, SetStatus, Return, TypeOK
  <2>2. \A t \in Tasks : status'[t] # "Running"
    BY <2>1 DEF TypeOK
  <2>3. /\ status' \in [Tasks -> {"Pending", "Running", "Success", "Failed", "Skipped"}]
        /\ ret' \in {"new", "running", "ok", "err"} /\ current' \in 0..TaskCount
    BY <2>1, WorkflowAssumption DEF TypeOK
  <2>4. \A t \in Tasks : status'[t] = "Running" <=> t = current' /\ policy # "Parallel"
    BY <1>0, <2>1, <2>2
  <2>5. QED
    BY <1>0, <2>1, <2>3, <2>4 DEF TypeOK, config
<1>5. CASE AllDone
  BY <1>0, <1>5 DEF AllDone, Return, TypeOK, config
<1>6. ASSUME NEW t \in Tasks, FutureEnds(t) PROVE TypeOK'
  BY <1>0, <1>6 DEF FutureEnds, TypeOK, config
<1>7. QED
  BY <1>1, <1>2, <1>3, <1>4, <1>5, <1>6 DEF Next, Engine

(* Whatever the policy, the configuration and the failures, the state has   *)
(* its type and no task is marked Running but the one being executed.       *)
THEOREM TypeCorrect == Spec => []TypeOK
<1>1. Init => TypeOK
  <2>1. 0 \notin Tasks
    BY WorkflowAssumption DEF Tasks
  <2>2. QED
    BY <2>1, WorkflowAssumption DEF Init, TypeOK
<1>2. QED
  BY <1>1, TypeStep, PTL DEF Spec
-----------------------------------------------------------------------------
(* The order of execute_dag                                                 *)

Ended == {"Success", "Failed"}

\* what is left of the list is Pending, each task once and after what it waits for
InTurn ==
  /\ \A i \in 1..Len(todo) : status[todo[i]] = "Pending"
  /\ \A i, j \in 1..Len(todo) : i # j => todo[i] # todo[j]
  /\ \A i \in 1..Len(todo) : \A d \in DepsOf(todo[i]) :
       status[d] \in Ended \/ d = current \/ \E j \in 1..Len(todo) : j < i /\ todo[j] = d

(* The inductive form of DagOrder.                                          *)
DagInv ==
  policy = "DAG" =>
    /\ InTurn
    /\ ret = "new" => todo = <<>> /\ \A t \in Tasks : status[t] = "Pending"
    /\ todo # <<>> => Acyclic
    /\ DagOrder

LEMMA InitDagInv == Init => DagInv
BY DEF Init, DagInv, InTurn, DagOrder, Started

LEMMA DagInvStep ==
  ASSUME TypeOK, DagInv, [Next]_vars
  PROVE  DagInv'
<1> SUFFICES ASSUME policy = "DAG" PROVE DagInv'
  BY ConfigFixed DEF DagInv, config
<1>0. /\ UNCHANGED config /\ (Acyclic' <=> Acyclic) /\ 0 \notin Tasks
      /\ \A t : DepsOf(t)' = DepsOf(t)
      /\ \A t \in Tasks : DepsOf(t) \subseteq Tasks
      /\ \A n \in 0..TaskCount : n # 0 => n \in Tasks
  <2>1. UNCHANGED config /\ \A t : DepsOf(t)' = DepsOf(t)
    BY ConfigFixed DEF config, DepsOf
  <2>2. Acyclic' <=> Acyclic
    BY <2>1 DEF Acyclic
  <2>3. \A t \in Tasks : DepsOf(t) \subseteq Tasks
    BY TypeListed DEF Listed, DepsOf
  <2>4. QED
    BY <2>1, <2>2, <2>3, WorkflowAssumption DEF Tasks
<1>1. CASE UNCHANGED <<status, todo, current>> /\ (ret' = "new" => ret = "new")
  BY <1>0, <1>1 DEF DagInv, InTurn, DagOrder, Started, config
<1>2. CASE Execute /\ TopologicalSort.ok
  <2> DEFINE s == TopologicalSort.sorted
  <2>1. /\ todo' = s /\ ret' = "running" /\ UNCHANGED <<status, current>> /\ ret = "new"
    BY <1>2 DEF Execute, Return
  <2>2. /\ s \in Seq(Tasks) /\ DOMAIN s = 1..Len(s) /\ Acyclic /\ Ordered(TopologicalSort)
    BY <1>2, TypeListed, SortOrders, SortedIsAcyclic DEF SortState
  <2>3. \A t \in Tasks : ~Started(t) /\ ~Started(t)'
    BY <2>1 DEF DagInv, Started
  <2>4. \A i \in 1..Len(s) : status[s[i]] = "Pending"
    <3>1. \A i \in 1..Len(s) : s[i] \in Tasks
      BY <2>2
    <3>2. \A t \in Tasks : status[t] = "Pending"
      BY <2>1 DEF DagInv
    <3>3. QED
      BY <3>1, <3>2
  <2>5. InTurn'
    BY <1>0, <2>1, <2>2, <2>4 DEF InTurn, Ordered
  <2>6. QED
    BY <1>0, <2>1, <2>2, <2>3, <2>5 DEF DagInv, DagOrder
<1>3. CASE TakeDag
  <2> DEFINE t == todo[1]
  <2>1. /\ t \in Tasks /\ todo' = Tail(todo) /\ current = 0 /\ current' = t /\ ret' # "new"
        /\ status' = [status EXCEPT ![t] = "Running"]
        /\ todo # <<>> /\ Len(todo) \in Nat /\ Len(todo') = Len(todo) - 1
        /\ \A i \in 1..Len(todo') : todo'[i] = todo[i + 1] /\ i + 1 \in 1..Len(todo)
        /\ \A i \in 1..Len(todo) : todo[i] \in Tasks
    BY <1>3 DEF TakeDag, Take, SetStatus, TypeOK
  <2>2. status[t] = "Pending" /\ \A d \in DepsOf(t) : d \in Tasks /\ status[d] \in Ended
    BY <1>0, <2>1 DEF DagInv, InTurn, TypeOK
  <2>3. /\ status'[t] = "Running" /\ \A u \in Tasks : u # t => status'[u] = status[u]
        /\ \A u \in Tasks : status[u] \in Ended => status'[u] \in Ended
    BY <2>1, <2>2 DEF TypeOK, Ended
  <2>4. InTurn'
    <3>1. \A i \in 1..Len(todo') : todo'[i] # t /\ status'[todo'[i]] = "Pending"
      BY <2>1, <2>3 DEF DagInv, InTurn
    <3>2. \A i, j \in 1..Len(todo') : i # j => todo'[i] # todo'[j]
      BY <2>1 DEF DagInv, InTurn
    <3>3. ASSUME NEW i \in 1..Len(todo'), NEW d \in DepsOf(todo'[i])
          PROVE  \/ status'[d] \in Ended \/ d = current'
                 \/ \E j \in 1..Len(todo') : j < i /\ todo'[j] = d
      <4>1. d \in Tasks
        BY <1>0, <2>1, <3>3
      <4>2. CASE status[d] \in Ended
        BY <2>3, <4>1, <4>2
      <4>3. ASSUME NEW j \in 1..Len(todo), j < i + 1, todo[j] = d PROVE
                 d = current' \/ \E k \in 1..Len(todo') : k < i /\ todo'[k] = d
        <5>1. CASE j = 1
          BY <2>1, <4>3, <5>1
        <5>2. CASE j # 1
          <6>1. j - 1 \in 1..Len(todo') /\ j - 1 < i /\ todo'[j - 1] = d
            BY <2>1, <4>3, <5>2
          <6>2. QED
            BY <6>1
        <5>3. QED
          BY <5>1, <5>2
      <4>4. d # current
        BY <1>0, <2>1, <4>1
      <4>5. QED
        BY <2>1, <3>3, <4>2, <4>3, <4>4 DEF DagInv, InTurn
    <3>4. QED
      BY <1>0, <3>1, <3>2, <3>3 DEF InTurn
  <2>5. DagOrder'
    <3>1. \A u \in Tasks : u # t => (Started(u)' <=> Started(u))
      BY <2>3 DEF Started
    <3>2. \A u \in Tasks : Started(u)' => Acyclic /\ \A d \in DepsOf(u) : status'[d] \in Ended
      BY <1>0, <2>1, <2>2, <2>3, <3>1 DEF DagInv, DagOrder, Ended
    <3>3. QED
      BY <1>0, <3>2 DEF DagOrder, Ended
  <2>6. QED
    BY <1>0, <2>1, <2>4, <2>5 DEF DagInv
<1>4. CASE TaskEnds
  <2>1. /\ current \in Tasks /\ current' = 0 /\ todo' = todo /\ ret' = ret
        /\ \E s \in Ended : status' = [status EXCEPT ![current] = s]
        /\ status[current] = "Running"
    BY <1>0, <1>4 DEF TaskEnds, SetStatus, TypeOK, Ended
  <2>2. /\ status'[current] \in Ended /\ \A u \in Tasks : u # current => status'[u] = status[u]
    BY <2>1 DEF TypeOK
  <2>3. \A u \in Tasks : Started(u)' <=> Started(u)
    BY <2>1, <2>2 DEF Started, Ended
  <2>4. \A u \in Tasks : status[u] \in Ended => status'[u] \in Ended
    BY <2>2
  <2>5. todo \in Seq(Tasks) /\ \A i \in 1..Len(todo) : todo[i] \in Tasks
    BY DEF TypeOK
  <2>6. InTurn'
    <3>1. \A i \in 1..Len(todo) : status'[todo[i]] = "Pending"
      BY <2>1, <2>2, <2>5 DEF DagInv, InTurn
    <3>2. \A i \in 1..Len(todo) : \A d \in DepsOf(todo[i]) :
            status'[d] \in Ended \/ \E j \in 1..Len(todo) : j < i /\ todo[j] = d
      BY <1>0, <2>2, <2>4, <2>5 DEF DagInv, InTurn
    <3>3. QED
      BY <1>0, <2>1, <3>1, <3>2 DEF DagInv, InTurn
  <2>7. DagOrder'
    <3>1. \A u \in Tasks : Started(u)' => Acyclic /\ \A d \in DepsOf(u) : status'[d] \in Ended
      BY <1>0, <2>3, <2>4 DEF DagInv, DagOrder, Ended
    <3>2. QED
      BY <1>0, <3>1 DEF DagOrder, Ended
  <2>8. QED
    BY <1>0, <2>1, <2>3, <2>6, <2>7 DEF DagInv
<1>5. CASE Execute /\ ~TopologicalSort.ok
  BY <1>1, <1>5 DEF Execute, Return
<1>6. CASE AllDone \/ (\E t \in Tasks : FutureEnds(t)) \/ UNCHANGED vars
  BY <1>1, <1>6 DEF AllDone, Return, FutureEnds, vars
<1>7. QED
  BY <1>2, <1>3, <1>4, <1>5, <1>6 DEF Next, Engine, TakeSequential, TakeParallel, Join

(* execute_dag runs nothing of a configuration with a cycle, and of any      *)
(* other no task before everything it depends on is over: for every number  *)
(* of tasks, every list of dependencies and every set of failures.          *)
THEOREM DagKeepsOrder == Spec => []DagOrder
<1>1. DagInv => DagOrder
  BY DEF DagInv, DagOrder
<1>2. QED
  BY <1>1, InitDagInv, DagInvStep, TypeCorrect, PTL DEF Spec
=============================================================================
