-------------------------- MODULE MCWorkflowEngine --------------------------
(***************************************************************************)
(* Instances of WorkflowEngine for TLC: every depends_on list of at most   *)
(* two different tasks, in both orders, a task itself included.            *)
(***************************************************************************)
EXTENDS WorkflowEngine

MCDepLists ==
  {s \in UNION {[1..n -> Tasks] : n \in 0..2} : Len(s) = 2 => s[1] # s[2]}
=============================================================================
