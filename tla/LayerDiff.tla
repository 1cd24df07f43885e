----------------------------- MODULE LayerDiff -----------------------------
(***************************************************************************)
(* The comparison of an L2 snapshot with an L1 snapshot and the advice it  *)
(* gives (diff/l2_vs_l1/mod.rs), with the content hashes the snapshots     *)
(* carry (metadata_bridge/mod.rs).                                         *)
(*                                                                         *)
(* A file is its name and its content; of a patch's name only the words    *)
(* the advice looks for matter.                                            *)
(***************************************************************************)
EXTENDS Naturals, Sequences, FiniteSets, SequencesExt

CONSTANTS
  Patches, Sources,   \* names of patch files and of other files
  Words,              \* Words[p]: the words the advice looks for that p's name contains
  Contents,
  MaxEdits,           \* bound: edits of the two repositories
  Absent

Names == Patches \cup Sources
Placeholder == "hash of the path"
SpecParts == {"buildRequires", "configure", "requires"}

ASSUME FilesAssumption ==
  /\ Patches \cap Sources = {}
  \* extract_patches, extract_source_files: no patch or source ends in .spec
  /\ "*.spec" \notin Patches \cup Sources
  /\ Words \in [Patches -> SUBSET {"cve-", "security", "vulnerability", "exploit",
                                    "fix", "bug", "patch", "feature"}]
  /\ Absent \notin Contents /\ Placeholder \notin Contents
  /\ MaxEdits \in Nat

VARIABLES
  l1, l2,       \* content of each file
  spec,         \* the parts of the spec file that differ
  ahead,        \* the side whose version is higher: "l1", "l2" or "same"
  custom,       \* what analyze_customizations found in L2: "none", "some", "security"
  viaApi,       \* the L1 snapshot was exported without a repository
  edits

diffVars == <<l1, l2, spec, ahead, custom, viaApi, edits>>
-----------------------------------------------------------------------------
(* The two file lists *)

\* collect_files: files of a repository are hashed; from the platform only the
\* names in the spec file are known
L1Hash(f) == IF viaApi THEN Placeholder ELSE l1[f]
L2Hash(f) == l2[f]

InL1 == {f \in Names : l1[f] # Absent}
InL2 == {f \in Names : l2[f] # Absent}

\* compare_patches, compare_source_files
Added(kind) == kind \cap (InL2 \ InL1)
Removed(kind) == kind \cap (InL1 \ InL2)
Modified(kind) == {f \in kind \cap InL1 \cap InL2 : L1Hash(f) # L2Hash(f)}
-----------------------------------------------------------------------------
(* The advice.  Priorities are 1 (Critical) to 4 (Low). *)

Advice(priority, type, files, about) ==
  [priority |-> priority, type |-> type, files |-> files, about |-> about]
When(cond, a) == IF cond THEN <<a>> ELSE <<>>
Has(p, words) == Words[p] \cap words # {}

\* generate_security_recommendations
SecurityPatches ==
  {p \in Removed(Patches) : Has(p, {"cve-", "security", "vulnerability", "exploit"})}
SecurityAdvice ==
  When(SecurityPatches # {}, Advice(1, "SecurityPatch", SecurityPatches, "missing"))

\* generate_version_recommendations
VersionAdvice ==
  When(ahead = "l1", Advice(2, "VersionUpgrade", {"*.spec"}, "upgrade"))
  \o When(ahead = "l2", Advice(4, "VersionUpgrade", {"*.spec"}, "contribute"))

\* generate_bugfix_recommendations; a name ending in .patch contains "patch"
BugfixPatches ==
  {p \in Removed(Patches) :
     Has(p, {"fix", "bug", "patch"}) /\ ~Has(p, {"cve-", "security", "vulnerability"})}
BugfixAdvice ==
  When(BugfixPatches # {}, Advice(3, "BugFix", BugfixPatches, "missing"))
  \o When(Modified(Patches) # {}, Advice(3, "BugFix", Modified(Patches), "modified"))

\* generate_feature_recommendations; "feature" stands for its five words
FeaturePatches ==
  {p \in Removed(Patches) : Has(p, {"feature"}) /\ ~Has(p, {"cve-", "security", "fix"})}
FeatureAdvice ==
  When(FeaturePatches # {}, Advice(3, "NewFeature", FeaturePatches, "missing"))

\* generate_config_recommendations, generate_dependency_recommendations
SpecAdvice(part) ==
  When(part \in spec, Advice(3, "ConfigUpdate", {"*.spec"}, part))

\* generate_source_recommendations: "new in L1" lists the files only L2 has
SourceAdvice ==
  When(Added(Sources) # {}, Advice(4, "NewFeature", Added(Sources), "source"))
  \o When(Modified(Sources) # {}, Advice(4, "ConfigUpdate", Modified(Sources), "source"))

\* generate_customization_recommendations
CustomAdvice ==
  When(custom # "none",
       Advice(IF custom = "security" THEN 2 ELSE 4, "ConfigUpdate", {}, "custom"))

Generated ==
  SecurityAdvice \o VersionAdvice \o BugfixAdvice \o FeatureAdvice
  \o SpecAdvice("buildRequires") \o SpecAdvice("configure")
  \o SourceAdvice \o CustomAdvice \o SpecAdvice("requires")

\* a stable sort
OfPriority(list, n) ==
  FoldLeft(LAMBDA out, a : IF a.priority = n THEN Append(out, a) ELSE out, <<>>, list)
ByPriority(list) ==
  OfPriority(list, 1) \o OfPriority(list, 2) \o OfPriority(list, 3) \o OfPriority(list, 4)

\* seeded fault: the type is not part of the key
SameFiles(a, b) == a.files = b.files

SameKey(a, b) == a.type = b.type /\ a.files = b.files

\* deduplicate_recommendations: the first of each type and list of files
Deduplicated(list) ==
  FoldLeft(LAMBDA kept, a : IF \E i \in DOMAIN kept : SameKey(kept[i], a)
                            THEN kept ELSE Append(kept, a), <<>>, list)

\* generate_sync_recommendations
Recommendations == ByPriority(Deduplicated(ByPriority(Generated)))
-----------------------------------------------------------------------------
DiffInit ==
  /\ l1 \in [Names -> {Absent} \cup Contents]
  /\ \A f, g \in Names : l1[f] = l1[g]
  /\ l2 = l1
  /\ spec = {} /\ ahead = "same" /\ custom = "none"
  /\ viaApi \in BOOLEAN /\ edits = 0

Edit == edits < MaxEdits /\ edits' = edits + 1 /\ UNCHANGED viaApi

\* the upstream distribution and the maintainers of L2 change their repositories
EditL1(f, c) ==
  /\ Edit /\ l1[f] # c
  /\ l1' = [l1 EXCEPT ![f] = c]
  /\ UNCHANGED <<l2, spec, ahead, custom>>

EditL2(f, c) ==
  /\ Edit /\ l2[f] # c
  /\ l2' = [l2 EXCEPT ![f] = c]
  /\ UNCHANGED <<l1, spec, ahead, custom>>

EditSpec(parts, side) ==
  /\ Edit
  /\ spec' = parts /\ ahead' = side
  /\ UNCHANGED <<l1, l2, custom>>

Customize(what) ==
  /\ Edit
  /\ custom' = what
  /\ UNCHANGED <<l1, l2, spec, ahead>>

DiffNext ==
  \/ \E f \in Names, c \in {Absent} \cup Contents : EditL1(f, c) \/ EditL2(f, c)
  \/ \E parts \in SUBSET SpecParts, side \in {"l1", "l2", "same"} : EditSpec(parts, side)
  \/ \E what \in {"some", "security"} : Customize(what)

DiffSpec == DiffInit /\ [][DiffNext]_diffVars
-----------------------------------------------------------------------------
\* generate_sync_recommendations ("of the same type and files the one of the highest
\* priority is kept"): whatever is generated stays represented at its priority or a
\* higher one; only advice about the one spec file is ever dropped; the list ends up
\* ordered, and security patches L2 lacks lead it.
AdviceKept ==
  LET given == Generated
      kept == Recommendations
  IN given # <<>> =>
     /\ \A i \in DOMAIN given : \E j \in DOMAIN kept :
          /\ kept[j].type = given[i].type /\ kept[j].files = given[i].files
          /\ kept[j].priority <= given[i].priority
     /\ \A i \in DOMAIN given :
          given[i].about \notin SpecParts => \E j \in DOMAIN kept : kept[j] = given[i]
     /\ \A i, j \in DOMAIN kept : i < j => kept[i].priority <= kept[j].priority
     /\ \A p \in SecurityPatches : p \in kept[1].files
=============================================================================
