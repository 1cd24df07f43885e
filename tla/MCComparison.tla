---------------------------- MODULE MCComparison ----------------------------
(***************************************************************************)
(* The pipelines' reports, the comparison they are made with, the order of *)
(* versions, the times of syncs and the mirrors of upstream repositories.  *)
(* They share no variable: `part` is the one a behaviour follows, the      *)
(* others stay in an initial state.                                        *)
(***************************************************************************)
EXTENDS LayerReports, LayerDiff, VersionOrder, SyncTiming, MirrorCache, TLC

VARIABLE part

MCPrimaryLine == <<<<1, 1>>, <<1, 2>>>>
MCFallbackLine == <<<<2, 1>>, <<3, 1>>, <<3, 2>>>>
MCL2Line == <<<<1, 2>>, <<3, 1>>>>

MCWords == [p \in Patches |->
  CASE p = "CVE-2024-1.patch" -> {"cve-", "patch"}
    [] p = "feature-x.diff" -> {"feature"}
    [] OTHER -> {"exploit", "fix", "patch"}]

Word(kind, number, text) == [kind |-> kind, number |-> number, text |-> text]
\* text order: alpha, rc.3, rc.a, rc10, rc2
MCTags ==
  {[parts |-> <<1, 2>>, pre |-> Stable], [parts |-> <<1, 2, 0, 1>>, pre |-> Stable],
   [parts |-> <<1, 10>>, pre |-> Stable], [parts |-> <<2>>, pre |-> Stable],
   [parts |-> <<2024, 1>>, pre |-> Stable]}
  \cup {[parts |-> <<2, 0>>, pre |-> w] :
          w \in {Word("alpha", -1, 1), Word("rc", 3, 2), Word("rc", -1, 3),
                 Word("rc", 10, 4), Word("rc", 2, 5)}}

MCIntervals == -1..3

MCInit ==
  /\ part \in {"reports", "diff", "versions", "timing", "mirror"}
  /\ LayersInit /\ DiffInit /\ TagsInit /\ TimingInit /\ MirrorInit
  /\ part # "reports" => checkout
  /\ part # "diff" => viaApi /\ \A f \in Names : l1[f] = Absent
  /\ part # "versions" => component = [parts |-> <<2>>, pre |-> Stable]
  /\ part # "timing" => interval = 1
  /\ part = "mirror" => remote.head = InitBranch \/ remote.tips[InitBranch] = 0
  /\ part # "mirror" => /\ disk = Gone /\ symref /\ ~retain
                        /\ remote = [head |-> InitBranch, tips |-> [b \in Branches |-> 1]]
                        /\ \A u \in Users : peers[u] = Users

MCNext ==
  /\ UNCHANGED part
  /\ \/ part = "reports" /\ LayersNext /\ UNCHANGED <<diffVars, tagVars, timingVars, mirrorVars>>
     \/ part = "diff" /\ DiffNext /\ UNCHANGED <<layerVars, tagVars, timingVars, mirrorVars>>
     \/ part = "versions" /\ TagsNext /\ UNCHANGED <<layerVars, diffVars, timingVars, mirrorVars>>
     \/ part = "mirror" /\ MirrorNext /\ UNCHANGED <<layerVars, diffVars, tagVars, timingVars>>
     \/ part = "timing" /\ TimingNext /\ UNCHANGED <<layerVars, diffVars, tagVars, mirrorVars>>

MCSpec == MCInit /\ [][MCNext]_<<layerVars, diffVars, tagVars, timingVars, mirrorVars, part>>

MCSymmetry == Permutations(Pipelines) \cup Permutations(Users)

\* Type invariant of the snapshot tables and of the mirror together.
ReportsTypeOK == LayersTypeOK /\ MirrorTypeOK
=============================================================================
