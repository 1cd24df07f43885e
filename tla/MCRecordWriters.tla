--------------------------- MODULE MCRecordWriters ---------------------------
(***************************************************************************)
(* Three machines that share no table: the commit records and their        *)
(* classification jobs, the upstream commits and the backport candidates,  *)
(* and the sync executor.  `scope` is the one a behaviour follows; the     *)
(* others stay in their initial states, so that a run explores each by     *)
(* itself and not their product.                                           *)
(***************************************************************************)
EXTENDS CommitRecords, L0Candidates, SyncExecution, TLC

VARIABLE scope

\* two commits of one release
MCReleaseOf == [c \in Commits |-> "1.0-1"]

MCInit ==
  /\ scope \in {"records", "l0", "execution"}
  /\ RecordsInit /\ L0Init /\ ExecutionInit
  /\ scope # "records" => \A p \in Programs : at[p] = "off"
  /\ scope # "l0" => /\ \A w \in L0Writers : l0at[w] = "off"
                     /\ \A a \in Advisors : adAt[a] = "off"

MCNext ==
  /\ UNCHANGED scope
  /\ \/ scope = "records" /\ RecordsNext /\ UNCHANGED <<l0Vars, executionVars>>
     \/ scope = "l0" /\ L0Next /\ UNCHANGED <<recordVars, executionVars>>
     \/ scope = "execution" /\ ExecutionNext /\ UNCHANGED <<recordVars, l0Vars>>

MCSpec == MCInit /\ [][MCNext]_<<recordVars, l0Vars, executionVars, scope>>

MCSymmetry == Permutations(Importers) \cup Permutations(Runners)
              \cup Permutations(Advisors) \cup Permutations(Executors)

\* Type invariant of the L0 rows and of the executor together.
WritersTypeOK == L0TypeOK /\ ExecutionTypeOK
=============================================================================
