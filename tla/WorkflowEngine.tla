--------------------------- MODULE WorkflowEngine ---------------------------
(***************************************************************************)
(* The workflow engine (workflow/engine.rs) on a parsed configuration      *)
(* (workflow/parser.rs): a list of tasks with the tasks each depends on,   *)
(* executed in sequence, all at once, or in dependency order.              *)
(*                                                                         *)
(* A task is named by its place in the list.  What execute_task does is    *)
(* left to the environment but for one thing: a task of an unknown type or *)
(* without a required parameter fails, every other succeeds.               *)
(***************************************************************************)
EXTENDS Naturals, Sequences, FiniteSets

CONSTANTS
  TaskCount,    \* tasks in the configuration
  DepLists      \* bound: the depends_on lists tried

ASSUME WorkflowAssumption ==
  /\ TaskCount \in Nat
  /\ DepLists \subseteq Seq(1..TaskCount)

VARIABLES
  policy,     \* execution_policy
  deps,       \* depends_on of each task
  bad,        \* the tasks whose execution fails
  status,     \* task_status
  todo,       \* tasks the loop has yet to take, in order
  current,    \* the task executed or awaited, or 0
  future,     \* what tokio::spawn made of each task
  ret         \* whether execute was called, and what it returned

config == <<policy, deps, bad>>
vars == <<config, status, todo, current, future, ret>>

Tasks == 1..TaskCount
InOrder == [i \in Tasks |-> i]
DepsOf(t) == {deps[t][i] : i \in DOMAIN deps[t]}

(* Types, and that the only task marked Running is the one being executed:    *)
(* none is left so when execute returns.                                     *)
TypeOK ==
  /\ policy \in {"Sequential", "Parallel", "DAG"}
  /\ deps \in [Tasks -> DepLists]
  /\ bad \subseteq Tasks
  /\ status \in [Tasks -> {"Pending", "Running", "Success", "Failed", "Skipped"}]
  /\ todo \in Seq(Tasks)
  /\ current \in 0..TaskCount
  /\ future \in [Tasks -> {"none", "spawned", "ok", "err"}]
  /\ ret \in {"new", "running", "ok", "err"}
  /\ \A t \in Tasks : status[t] = "Running" <=> t = current /\ policy # "Parallel"

\* WorkflowEngine::new on a valid configuration: names differ, dependencies exist
Init ==
  /\ policy \in {"Sequential", "Parallel", "DAG"}
  /\ deps \in [Tasks -> DepLists]
  /\ bad \in SUBSET Tasks
  /\ status = [t \in Tasks |-> "Pending"]
  /\ todo = <<>>
  /\ current = 0
  /\ future = [t \in Tasks |-> "none"]
  /\ ret = "new"
-----------------------------------------------------------------------------
(* topological_sort *)

\* a call of visit on every task of `list` in turn; temp_visited is the path above
SortState == [sorted : Seq(Tasks), visited : SUBSET Tasks, ok : BOOLEAN]
Calls == [list : Seq(Tasks), temp : SUBSET Tasks, state : SortState]
Call(list, temp, state) == [list |-> list, temp |-> temp, state |-> state]

Over(v) == v.list = <<>> \/ ~v.state.ok

\* the call for the dependencies of the first task
Below(v) == Call(deps[Head(v.list)], v.temp \cup {Head(v.list)}, v.state)

\* visit of the first task, below being what its dependencies' call returns
Visit(v, below) ==
  LET t == Head(v.list) IN
  IF t \in v.state.visited THEN v.state
  ELSE IF t \in v.temp THEN [v.state EXCEPT !.ok = FALSE]
  ELSE IF ~below.ok THEN below
  ELSE [below EXCEPT !.sorted = Append(@, t), !.visited = @ \cup {t}]

VisitAll[v \in Calls] ==
  IF Over(v) THEN v.state
  ELSE VisitAll[Call(Tail(v.list), v.temp, Visit(v, VisitAll[Below(v)]))]

FirstCall == Call(InOrder, {}, [sorted |-> <<>>, visited |-> {}, ok |-> TRUE])

\* seeded fault: a task is listed before the tasks it depends on
VisitAllPre[v \in Calls] ==
  IF Over(v) \/ Head(v.list) \in v.temp THEN v.state
  ELSE LET t == Head(v.list)
           here == [v.state EXCEPT !.sorted = Append(@, t), !.visited = @ \cup {t}]
       IN VisitAllPre[Call(Tail(v.list), v.temp,
                           IF t \in v.state.visited THEN v.state
                           ELSE VisitAllPre[Call(deps[t], v.temp \cup {t}, here)])]

TopologicalSortPre == VisitAllPre[FirstCall]

TopologicalSort == VisitAll[FirstCall]
-----------------------------------------------------------------------------
SetStatus(t, s) == status' = [status EXCEPT ![t] = s]
Return(r) == ret' = r

\* execute: the loops start; execute_parallel spawns every task, without an await
Execute ==
  /\ ret = "new"
  /\ IF policy = "DAG" /\ ~TopologicalSort.ok
     THEN Return("err") /\ UNCHANGED todo
     ELSE /\ Return("running")
          /\ todo' = IF policy = "DAG" THEN TopologicalSort.sorted ELSE InOrder
  /\ future' = IF policy = "Parallel" THEN [t \in Tasks |-> "spawned"] ELSE future
  /\ UNCHANGED <<config, status, current>>

Take ==
  /\ ret = "running" /\ current = 0 /\ todo # <<>>
  /\ todo' = Tail(todo)
  /\ UNCHANGED <<config, future>>

\* seeded fault: the `return` of a skipped task is a `continue` of the inner loop
TakeSequentialContinue ==
  /\ policy = "Sequential" /\ Take
  /\ SetStatus(Head(todo), "Running")
  /\ current' = Head(todo)
  /\ UNCHANGED ret

\* execute_sequential: the first task that cannot run ends the workflow
TakeSequential ==
  LET t == Head(todo) IN
  /\ policy = "Sequential" /\ Take
  /\ IF \A d \in DepsOf(t) : status[d] = "Success"
     THEN SetStatus(t, "Running") /\ current' = t /\ UNCHANGED ret
     ELSE SetStatus(t, "Skipped") /\ Return("ok") /\ UNCHANGED current

\* execute_dag: Skipped is set when a dependency did not succeed, but the inner
\* `continue` goes on with the next dependency and then with the task itself
TakeDag ==
  /\ policy = "DAG" /\ Take
  /\ SetStatus(Head(todo), "Running")
  /\ current' = Head(todo)
  /\ UNCHANGED ret

\* execute_parallel: the next handle is awaited; the status stays Pending
TakeParallel ==
  /\ policy = "Parallel" /\ Take
  /\ current' = Head(todo)
  /\ UNCHANGED <<status, ret>>

\* seeded fault: execute_dag gives up at the first failed task
TaskEndsStop ==
  /\ current # 0 /\ policy # "Parallel"
  /\ SetStatus(current, IF current \in bad THEN "Failed" ELSE "Success")
  /\ current' = 0
  /\ IF current \in bad THEN Return("err") ELSE UNCHANGED ret
  /\ UNCHANGED <<config, todo, future>>

\* seeded fault: `?` on the result of the task, before its status is written
TaskEndsEarly ==
  /\ current # 0 /\ policy # "Parallel"
  /\ IF current \in bad THEN Return("err") /\ UNCHANGED status
     ELSE SetStatus(current, "Success") /\ UNCHANGED ret
  /\ current' = 0
  /\ UNCHANGED <<config, todo, future>>

\* execute_task returns; a failure ends execute_sequential, not execute_dag
TaskEnds ==
  /\ current # 0 /\ policy # "Parallel"
  /\ SetStatus(current, IF current \in bad THEN "Failed" ELSE "Success")
  /\ current' = 0
  /\ IF policy = "Sequential" /\ current \in bad THEN Return("err") ELSE UNCHANGED ret
  /\ UNCHANGED <<config, todo, future>>

\* a spawned task ends, whether anyone waits for it or not
FutureEnds(t) ==
  /\ future[t] = "spawned"
  /\ future' = [future EXCEPT ![t] = IF t \in bad THEN "err" ELSE "ok"]
  /\ UNCHANGED <<config, status, todo, current, ret>>

\* the awaited handle is ready; the first failure ends execute_parallel
Join ==
  /\ current # 0 /\ policy = "Parallel"
  /\ future[current] \in {"ok", "err"}
  /\ SetStatus(current, IF future[current] = "err" THEN "Failed" ELSE "Success")
  /\ current' = 0
  /\ IF future[current] = "err" THEN Return("err") ELSE UNCHANGED ret
  /\ UNCHANGED <<config, todo, future>>

AllDone ==
  /\ ret = "running" /\ current = 0 /\ todo = <<>>
  /\ Return("ok")
  /\ UNCHANGED <<config, status, todo, current, future>>

Engine ==
  \/ Execute \/ TakeSequential \/ TakeDag \/ TakeParallel \/ TaskEnds \/ Join \/ AllDone

Next == Engine \/ \E t \in Tasks : FutureEnds(t)

Spec == Init /\ [][Next]_vars

\* the caller polls execute, the runtime polls every spawned task
Fairness == WF_vars(Engine) /\ \A t \in Tasks : WF_vars(FutureEnds(t))

LiveSpec == Spec /\ Fairness
-----------------------------------------------------------------------------
(* Properties *)

Started(t) == status[t] \in {"Running", "Success", "Failed"}

(* execute_sequential: a task is only started once everything it depends on  *)
(* has succeeded, whatever the order of the list.                            *)
SequentialNeedsSuccess ==
  policy = "Sequential" =>
    \A t \in Tasks : Started(t) => \A d \in DepsOf(t) : status[d] = "Success"

\* the dependency graph has no cycle: some order puts every task after its dependencies
Acyclic ==
  \E f \in [Tasks -> Tasks] : \A t \in Tasks : \A d \in DepsOf(t) : f[d] < f[t]

(* execute_dag: nothing runs when the dependencies are cyclic, and otherwise  *)
(* no task starts before every task it depends on is over.                   *)
DagOrder ==
  policy = "DAG" =>
    \A t \in Tasks :
      Started(t) => /\ Acyclic
                    /\ \A d \in DepsOf(t) : status[d] \in {"Success", "Failed"}

(* execute_dag on an acyclic configuration gets to the end of every task,    *)
(* over any failures on the way; the other policies return.                  *)
Completes ==
  ret = "running" ~>
    /\ ret \in {"ok", "err"}
    /\ policy = "DAG" => \A t \in Tasks : status[t] \in {"Success", "Failed"}

(* "跳过任务，依赖 {} 失败": execute_dag skips a task when a dependency of it  *)
(* failed.                                                                   *)
DagSkipsAfterFailure ==
  policy = "DAG" =>
    \A t \in Tasks : Started(t) => \A d \in DepsOf(t) : status[d] # "Failed"

(* "等待所有任务完成": execute_parallel returns when every task it spawned is  *)
(* over.                                                                     *)
ParallelWaitsForAll ==
  policy = "Parallel" /\ ret \in {"ok", "err"} =>
    \A t \in Tasks : future[t] # "spawned"
=============================================================================
