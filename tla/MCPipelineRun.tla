---------------------------- MODULE MCPipelineRun ----------------------------
(***************************************************************************)
(* Instances of PipelineRun for TLC: a person's commit, then the bot's of  *)
(* the same release.                                                       *)
(***************************************************************************)
EXTENDS PipelineRun, TLC

MCSymmetry == Permutations(Executors)
MCRelease == [c \in Commits |-> "1.0-1"]
=============================================================================
