---------------------------- MODULE VersionOrder ----------------------------
(***************************************************************************)
(* The order of versions (utils/version.rs) and what a report derives from *)
(* the versions it knows: the latest of L1, whether the component is       *)
(* outdated and how many stable versions it is behind, and the versions of *)
(* L0 that L1 could be upgraded to (diff/l1_vs_l0/mod.rs).                 *)
(*                                                                         *)
(* A tag is its number parts and its pre-release word.  Of the word the    *)
(* order looks at its kind, at its digits read as one number, and at its   *)
(* place among all words in text order.                                    *)
(***************************************************************************)
EXTENDS Integers, Sequences, FiniteSets, SequencesExt

CONSTANTS
  Tags,       \* [parts |-> numbers, pre |-> a word or Stable]
  MaxTags     \* bound: tags of a package, in L1 and in L0

Stable == [kind |-> "none", number |-> -1, text |-> -1]
KindRank == [alpha |-> 1, beta |-> 2, rc |-> 3, other |-> 4]

ASSUME TagsAssumption ==
  /\ \A t \in Tags :
       /\ t.parts \in Seq(Nat)
       /\ t.pre = Stable \/ t.pre \in [kind : DOMAIN KindRank, number : Int, text : Int]
  /\ MaxTags \in Nat

VARIABLES
  tags,       \* known_versions: L1's current version, then those of its commits
  mainline,   \* all_versions: the versions L0 was seen to have
  component   \* component_version: the version L2 ships, else L1's current one

tagVars == <<tags, mainline, component>>
-----------------------------------------------------------------------------
(* Version::parse and Ord for Version *)

\* one, two or three numbers; what is missing is 0
Parses(t) == Len(t.parts) \in 1..3
Core(t) == [i \in 1..3 |-> IF i <= Len(t.parts) THEN t.parts[i] ELSE 0]

IsStable(t) == t.pre = Stable

\* -1, 0 or 1
Compare(a, b) == IF a < b THEN -1 ELSE IF a > b THEN 1 ELSE 0

\* seeded fault: the words are compared as text
CompareText(a, b) == Compare(a.text, b.text)

\* compare_pre_release: by kind, then by number where both have one, else as text
ComparePreRelease(a, b) ==
  LET kinds == Compare(KindRank[a.kind], KindRank[b.kind]) IN
  IF kinds # 0 THEN kinds
  ELSE IF a.number >= 0 /\ b.number >= 0 THEN Compare(a.number, b.number)
       ELSE Compare(a.text, b.text)

\* Ord::cmp: the first number that differs, then a pre-release before its release
CompareVersions(x, y) ==
  LET differ == {i \in 1..3 : Core(x)[i] # Core(y)[i]} IN
  IF differ # {}
  THEN LET i == CHOOSE d \in differ : \A e \in differ : d <= e
       IN Compare(Core(x)[i], Core(y)[i])
  ELSE CASE IsStable(x) /\ IsStable(y) -> 0
         [] IsStable(x) /\ ~IsStable(y) -> 1
         [] ~IsStable(x) /\ IsStable(y) -> -1
         [] OTHER -> ComparePreRelease(x.pre, y.pre)

IsNewer(x, y) == CompareVersions(x, y) = 1

\* Iterator::max_by keeps the later of two equal elements
MaxBy(list) ==
  FoldLeft(LAMBDA best, t : IF CompareVersions(best, t) = 1 THEN best ELSE t, list[1], list)

\* Iterator::filter
Filtered(list, S) ==
  FoldLeft(LAMBDA out, t : IF t \in S THEN Append(out, t) ELSE out, <<>>, list)

\* latest_version_from_strings: stable or not, but a major number that is a year is
\* left out; without any, the current version stands for the latest
MajorLimit == 1000
Candidates(list) == Filtered(list, {t \in Tags : Parses(t) /\ t.parts[1] < MajorLimit})
FindLatest(list) == IF Candidates(list) = <<>> THEN list[1] ELSE MaxBy(Candidates(list))

\* count_versions_behind: all that parse and are stable, years too
CountBehind(current, list) ==
  Cardinality({i \in DOMAIN list :
                 Parses(list[i]) /\ IsStable(list[i]) /\ IsNewer(list[i], current)})

\* compare_versions, which compare_component_to_l1 gives one latest version, as the
\* latest stable one and as the latest: is_outdated, has_newer_stable and
\* has_newer_latest are then the same.  One that does not parse counts as current
IsOutdated(current, latest) == Parses(latest) /\ IsNewer(latest, current)

\* a stable sort: each tag goes behind those it is not older than
Sorted(list) ==
  FoldLeft(LAMBDA out, t :
             InsertAt(out, Cardinality({i \in DOMAIN out : ~IsNewer(out[i], t)}) + 1, t),
           <<>>, list)

\* find_upgradable_versions: the newer stable versions, oldest first
Upgradable(current, list) ==
  Sorted(Filtered(list, {t \in Tags : Parses(t) /\ IsStable(t) /\ IsNewer(t, current)}))
-----------------------------------------------------------------------------
TagsInit ==
  /\ tags = <<>> /\ mainline = <<>>
  /\ component \in {t \in Tags : Parses(t)}

New(t, list) ==
  Len(tags) + Len(mainline) < MaxTags /\ \A i \in DOMAIN list : list[i] # t

\* get_l1_version_info: a commit whose spec version was not read adds nothing
AddTag(t) ==
  /\ New(t, tags)
  /\ tags' = Append(tags, t)
  /\ UNCHANGED <<mainline, component>>

\* get_l0_version_info, which also sorts them
AddMainline(t) ==
  /\ New(t, mainline)
  /\ mainline' = Append(mainline, t)
  /\ UNCHANGED <<tags, component>>

TagsNext == \E t \in Tags : AddTag(t) \/ AddMainline(t)

TagsSpec == TagsInit /\ [][TagsNext]_tagVars
-----------------------------------------------------------------------------
\* The meaning of the order: numbers, then kind, then number, read left to right.
SortKey(t) ==
  Core(t) \o IF IsStable(t) THEN <<5, 0>> ELSE <<KindRank[t.pre.kind], t.pre.number>>
KeyBelow(k, l) ==
  \E i \in DOMAIN k : k[i] < l[i] /\ \A j \in 1..(i - 1) : k[j] = l[j]

\* max_by over Ord for Version: where every pre-release has a number, no version L1 is
\* known to have is above the latest in the meaning of its numbers, in whatever order
\* they were listed.  (A word without a number is compared as text, and then the
\* order is not even transitive: rc2 < rc.3 < rc.a < rc2.)
LatestAbove ==
  LET p == Candidates(tags) IN
  p # <<>> /\ (\A i \in DOMAIN p : IsStable(p[i]) \/ p[i].pre.number >= 0) =>
    \A i \in DOMAIN p : ~KeyBelow(SortKey(FindLatest(tags)), SortKey(p[i]))

\* compare_component_to_l1 counts stable versions and years, and compares with the
\* latest, a pre-release or not: the count and is_outdated disagree only over a latest
\* version that is a pre-release (then outdated by 0 versions) and over years.
BehindAgrees ==
  LET latest == FindLatest(tags) IN
  /\ CountBehind(component, Candidates(tags)) > 0 => IsOutdated(component, latest)
  /\ IsOutdated(component, latest) => CountBehind(component, tags) > 0 \/ ~IsStable(latest)

\* find_upgradable_versions offers, for L1's current version, the newer stable versions
\* of L0 and no others, each once, the older before the newer.
UpgradesOffered ==
  LET u == Upgradable(tags[1], mainline) IN
  /\ \A t \in Tags : (\E i \in DOMAIN u : u[i] = t) <=>
       IsStable(t) /\ IsNewer(t, tags[1]) /\ Parses(t) /\ \E i \in DOMAIN mainline : mainline[i] = t
  /\ \A i, j \in DOMAIN u : i < j => u[i] # u[j] /\ ~IsNewer(u[i], u[j])

\* The versions of a report of L1 against L0, from L2's, L1's and L0's own lists: the
\* latest is the newest, the two figures of how far L2 is behind disagree only where
\* said, and the upgrades are the right ones, oldest first.  (When the current version
\* does not parse, the comparison with L0 fails.)
LatestIsNewest ==
  tags # <<>> =>
    /\ LatestAbove
    /\ BehindAgrees
    /\ Parses(tags[1]) => UpgradesOffered
=============================================================================
