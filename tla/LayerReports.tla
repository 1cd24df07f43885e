---------------------------- MODULE LayerReports ----------------------------
(***************************************************************************)
(* The snapshots and the L2-against-L1 reports of a tracking of a 25.05 or *)
(* 25.07 branch, and of the openEuler-24.09 trackings its pipelines make.  *)
(*                                                                         *)
(* Row 0 is the tracking itself; rows 1, 2, ... are the openEuler-24.09    *)
(* ones.  A snapshot is named by the commit its spec file was read at, a   *)
(* commit by its place in its branch.  Pipelines are executions of         *)
(* PipelineExecutor; each step is one call to the database, to the git     *)
(* repository or to the platform.                                          *)
(***************************************************************************)
EXTENDS Integers, Sequences, FiniteSets

CONSTANTS
  Pipelines,
  PrimaryLine, FallbackLine, L2Line,  \* <<version, release>> at each commit of a branch
  PageSize,         \* commits a listing of a branch returns: one page, the newest
  MaxStarts,        \* bound: pipelines ever started
  MaxMishaps,       \* bound: failed calls
  NoSnapshot, NoReport

Line(t) == IF t = 0 THEN PrimaryLine ELSE FallbackLine
Rows == 0..MaxStarts

\* a branch's version and release only grow
Later(x, y) == x[1] > y[1] \/ (x[1] = y[1] /\ x[2] > y[2])
Grows(line) ==
  /\ line \in Seq(Nat \X Nat) /\ line # <<>>
  /\ \A i, j \in DOMAIN line : i <= j => ~Later(line[i], line[j])

ASSUME LayersAssumption ==
  /\ Grows(PrimaryLine) /\ Grows(FallbackLine) /\ Grows(L2Line)
  /\ PageSize \in Nat \ {0}
  /\ IsFiniteSet(Pipelines)
  /\ MaxStarts \in Nat /\ MaxMishaps \in Nat
  /\ NoSnapshot \notin Int

VARIABLES
  tip,        \* the commits of the two L1 branches and of the L2 repository
  checkout,   \* whether the server has the L2 repository at l2_repo_path
  rows,       \* the openEuler-24.09 trackings
  stored,     \* each row's L1 commits stored
  blank,      \* those stored without a version, and those stored without a release
  l1snap,     \* each row's latest L1 snapshot; 0 when it has no spec file
  l2snap,     \* the latest L2 snapshot
  l2rec,      \* the latest L2 commit stored, and the commit whose spec it is stamped with
  pc,
  mem,        \* what each pipeline holds between its steps
  report,     \* the comparison saved last
  \* history
  starts, mishaps,
  crowd,      \* the most pipelines ever at work together
  clouded,    \* rows whose ingestions overlapped or failed
  l2Moved     \* the L2 repository changed during an export

branches == <<tip, checkout>>
ghosts == <<starts, mishaps, crowd, clouded, l2Moved>>
layerVars == <<branches, rows, stored, blank, l1snap, l2snap, l2rec, pc, mem, report, ghosts>>

Idle == [row |-> 0, base |-> 0, held |-> 0, stamp |-> 0,
         l1 |-> 0, l2 |-> 0, own |-> 0]

LayersInit ==
  /\ tip = [l1 |-> 1, fallback |-> 1, l2 |-> 1]
  /\ checkout \in BOOLEAN
  /\ rows = 0
  /\ stored = [t \in Rows |-> {}]
  /\ blank = [t \in Rows |-> [version |-> {}, release |-> {}]]
  /\ l1snap = [t \in Rows |-> NoSnapshot]
  /\ l2snap = NoSnapshot
  /\ l2rec = [n |-> 0, spec |-> 0]
  /\ pc = [p \in Pipelines |-> "off"]
  /\ mem = [p \in Pipelines |-> Idle]
  /\ report = NoReport
  /\ starts = 0 /\ mishaps = 0 /\ crowd = 0
  /\ clouded = {} /\ l2Moved = FALSE
-----------------------------------------------------------------------------
Tip(t) == IF t = 0 THEN tip.l1 ELSE tip.fallback
\* collect asks for the first page and no other: what landed since the last sync may
\* be more than that, and its oldest commits are then never stored
Listing(t) == {c \in 1..Tip(t) : c > Tip(t) - PageSize}
Working == {p \in Pipelines : pc[p] # "off"}
Exporting == {p \in Pipelines : pc[p] \in {"log", "git", "putL2"}}

\* the commits of row t whose version and release can be compared
Named(t) == stored[t] \ blank[t].version
Full(t) == Named(t) \ blank[t].release

\* p is between the sync of row t and the insert of its snapshot
Ingests(p, t) ==
  \/ pc[p] \in {"spec", "put"} /\ mem[p].row = t
  \/ pc[p] \in {"fetch", "specF", "putF"} /\ mem[p].base = t

Goto(p, where) == pc' = [pc EXCEPT ![p] = where]
Quit(p) == Goto(p, "off") /\ mem' = [mem EXCEPT ![p] = Idle]
Cloud(t) == clouded' = clouded \cup {t}
Mishaps(n) == mishaps + n <= MaxMishaps /\ mishaps' = mishaps + n
Mishap == Mishaps(1)

\* compare_version_relationship: the release is not looked at
Newer(l2, t, l1) == L2Line[l2][1] > Line(t)[l1][1]

\* upstream and the maintainers of L2
L1Commit(b) ==
  /\ b \in {"l1", "fallback"}
  /\ tip[b] < Len(IF b = "l1" THEN PrimaryLine ELSE FallbackLine)
  /\ tip' = [tip EXCEPT ![b] = @ + 1]
  /\ UNCHANGED <<checkout, rows, stored, blank, l1snap, l2snap, l2rec, pc, mem, report, ghosts>>

L2Commit ==
  /\ tip.l2 < Len(L2Line)
  /\ tip' = [tip EXCEPT !.l2 = @ + 1]
  /\ l2Moved' = (l2Moved \/ Exporting # {})
  /\ UNCHANGED <<checkout, rows, stored, blank, l1snap, l2snap, l2rec, pc, mem, report,
                 starts, mishaps, crowd, clouded>>

\* POST /api/metadata/l2 by a collector beside the repository; a push may be late
PushL2(n) ==
  /\ ~checkout /\ n <= tip.l2
  /\ l2snap # n
  /\ l2snap' = n
  /\ UNCHANGED <<branches, rows, stored, blank, l1snap, l2rec, pc, mem, report, ghosts>>
-----------------------------------------------------------------------------
(* stage_l1_ingestion *)

PipeStart(p, t) ==
  /\ pc[p] = "off" /\ t <= rows /\ starts < MaxStarts
  /\ Goto(p, "sync")
  /\ mem' = [mem EXCEPT ![p] = [Idle EXCEPT !.row = t, !.base = t]]
  /\ starts' = starts + 1
  /\ LET n == Cardinality(Working) + 1 IN crowd' = IF n > crowd THEN n ELSE crowd
  /\ UNCHANGED <<branches, rows, stored, blank, l1snap, l2snap, l2rec, report, mishaps, clouded, l2Moved>>

\* process_platform_commits inserts what is not there, and never looks at it again.
\* A spec file that cannot be fetched, decoded or parsed at a commit is no error
\* (fetch_spec_version_release): the commit is stored without its release, and mostly
\* without its version; a release without a version is never compared
Store(t, commits, v, r) ==
  /\ v \subseteq r
  /\ stored' = [stored EXCEPT ![t] = @ \cup commits]
  /\ blank' = [blank EXCEPT ![t] = [version |-> @.version \cup v, release |-> @.release \cup r]]

\* the sync returns no error
StoreAll(t) ==
  \E v, r \in SUBSET (Listing(t) \ stored[t]) :
    /\ Store(t, Listing(t), v, r)
    /\ Mishaps(Cardinality(r))

\* some of the commits, the oldest first, are stored when the sync fails
StoreSome(t, n) ==
  LET some == {c \in Listing(t) : c <= n} IN
  \E v, r \in SUBSET (some \ stored[t]) :
    /\ Store(t, some, v, r)
    /\ Mishaps(1 + Cardinality(r))

\* seeded fault: the commits are looked for as new once they are stored
SyncL1Late(p) ==
  LET t == mem[p].row IN
  /\ pc[p] = "sync"
  /\ Store(t, Listing(t), {}, {})
  /\ Quit(p)
  /\ UNCHANGED <<branches, rows, l1snap, l2snap, l2rec, report, ghosts>>

\* without new commits or issues the pipeline goes to its report stage, which
\* compares nothing
SyncL1(p) ==
  LET t == mem[p].row IN
  /\ pc[p] = "sync"
  /\ StoreAll(t)
  /\ \/ \* commits or issues were new
        /\ Goto(p, "spec")
        /\ IF \E q \in Pipelines \ {p} : Ingests(q, t) THEN Cloud(t) ELSE UNCHANGED clouded
        /\ UNCHANGED mem
     \/ Listing(t) \subseteq stored[t] /\ Quit(p) /\ UNCHANGED clouded
  /\ UNCHANGED <<branches, rows, l1snap, l2snap, l2rec, report, starts, crowd, l2Moved>>

SyncFails(p, n) ==
  LET t == mem[p].row IN
  /\ pc[p] = "sync"
  /\ StoreSome(t, n)
  /\ Cloud(t)
  /\ Quit(p)
  /\ UNCHANGED <<branches, rows, l1snap, l2snap, l2rec, report, starts, crowd, l2Moved>>

\* collect_spec: the spec file at the tip of the row's branch
ReadSpec(p) ==
  /\ pc[p] \in {"spec", "specF"}
  /\ mem' = [mem EXCEPT ![p].held = Tip(mem[p].base)]
  /\ Goto(p, IF pc[p] = "spec" THEN "put" ELSE "putF")
  /\ UNCHANGED <<branches, rows, stored, blank, l1snap, l2snap, l2rec, report, ghosts>>

\* a spec file that cannot be fetched is no error: the snapshot goes without one
SpecMissing(p) ==
  /\ pc[p] \in {"spec", "specF"} /\ Mishap
  /\ mem' = [mem EXCEPT ![p].held = 0]
  /\ Cloud(mem[p].base)
  /\ Goto(p, IF pc[p] = "spec" THEN "put" ELSE "putF")
  /\ UNCHANGED <<branches, rows, stored, blank, l1snap, l2snap, l2rec, report, starts, crowd, l2Moved>>

\* persist_snapshot
PutL1(p) ==
  /\ pc[p] \in {"put", "putF"}
  /\ l1snap' = [l1snap EXCEPT ![mem[p].base] = mem[p].held]
  /\ Goto(p, IF pc[p] = "put" THEN "l2" ELSE "again")
  /\ UNCHANGED <<branches, rows, stored, blank, l2snap, l2rec, mem, report, ghosts>>
-----------------------------------------------------------------------------
(* stage_l2_snapshot *)

\* an openEuler-24.09 row, or no checkout: the snapshot stored last, if any
ReuseL2(p) ==
  /\ pc[p] = "l2"
  /\ mem[p].row # 0 \/ ~checkout
  /\ IF l2snap = NoSnapshot THEN Quit(p) ELSE Goto(p, "readL1") /\ UNCHANGED mem
  /\ UNCHANGED <<branches, rows, stored, blank, l1snap, l2snap, l2rec, report, ghosts>>

ReadL2Spec(p) ==
  /\ pc[p] = "l2" /\ mem[p].row = 0 /\ checkout
  /\ mem' = [mem EXCEPT ![p].held = tip.l2]
  /\ Goto(p, "log")
  /\ UNCHANGED <<branches, rows, stored, blank, l1snap, l2snap, l2rec, report, ghosts>>

\* collect_commits_from_repo reads the spec file a second time, then the log
ReadLogSpec(p) ==
  /\ pc[p] = "log"
  /\ mem' = [mem EXCEPT ![p].stamp = tip.l2]
  /\ Goto(p, "git")
  /\ UNCHANGED <<branches, rows, stored, blank, l1snap, l2snap, l2rec, report, ghosts>>

\* seeded fault: the spec file is read after the log
PersistThenSpec(p) ==
  /\ pc[p] = "git"
  /\ l2rec' = IF mem[p].stamp > l2rec.n THEN [n |-> mem[p].stamp, spec |-> tip.l2] ELSE l2rec
  /\ mem' = [mem EXCEPT ![p].stamp = 0]
  /\ Goto(p, "putL2")
  /\ UNCHANGED <<branches, rows, stored, blank, l1snap, l2snap, report, ghosts>>

\* persist_l2_commits: the newest commit first; a commit already stored keeps the
\* version it was stamped with
PersistL2(p) ==
  /\ pc[p] = "git"
  /\ l2rec' = IF tip.l2 > l2rec.n THEN [n |-> tip.l2, spec |-> mem[p].stamp] ELSE l2rec
  /\ mem' = [mem EXCEPT ![p].stamp = 0]
  /\ Goto(p, "putL2")
  /\ UNCHANGED <<branches, rows, stored, blank, l1snap, l2snap, report, ghosts>>

PutL2(p) ==
  /\ pc[p] = "putL2"
  /\ l2snap' = mem[p].held
  /\ Goto(p, "readL1")
  /\ UNCHANGED <<branches, rows, stored, blank, l1snap, l2rec, mem, report, ghosts>>
-----------------------------------------------------------------------------
(* compare_l2_vs_l1 *)

\* the latest snapshot is the one inserted last
ReadL1(p) ==
  /\ pc[p] = "readL1"
  /\ IF l1snap[mem[p].row] = NoSnapshot THEN Quit(p)
     ELSE /\ mem' = [mem EXCEPT ![p].l1 = l1snap[mem[p].row]]
          /\ Goto(p, "readL2")
  /\ UNCHANGED <<branches, rows, stored, blank, l1snap, l2snap, l2rec, report, ghosts>>

\* without a spec file in the L1 snapshot the stage fails.  The probe compares the
\* versions; L2 ahead asks for the openEuler-24.09 row
ReadL2(p) ==
  LET m == mem[p] IN
  /\ pc[p] = "readL2"
  /\ IF l2snap = NoSnapshot \/ m.l1 = 0 THEN Quit(p)
     ELSE /\ mem' = [mem EXCEPT ![p].l2 = l2snap]
          /\ Goto(p, IF Newer(l2snap, m.row, m.l1) THEN "find" ELSE "version")
  /\ UNCHANGED <<branches, rows, stored, blank, l1snap, l2snap, l2rec, report, ghosts>>

\* seeded fault: a row is made whatever is there
MakeAlways(p) ==
  /\ pc[p] = "find"
  /\ UNCHANGED mem
  /\ Goto(p, "make")
  /\ UNCHANGED <<branches, rows, stored, blank, l1snap, l2snap, l2rec, report, ghosts>>

\* find_or_create_l2_newer_fallback_tracking: the row itself, some row found, or an
\* insert.  The query names no order
FindFallback(p) ==
  /\ pc[p] = "find"
  /\ \/ mem[p].row # 0 /\ Goto(p, "latest") /\ UNCHANGED mem
     \/ /\ mem[p].row = 0
        /\ \E f \in 1..rows : mem' = [mem EXCEPT ![p].base = f]
        /\ Goto(p, "latest")
     \/ mem[p].row = 0 /\ rows = 0 /\ Goto(p, "make") /\ UNCHANGED mem
  /\ UNCHANGED <<branches, rows, stored, blank, l1snap, l2snap, l2rec, report, ghosts>>

MakeFallback(p) ==
  /\ pc[p] = "make"
  /\ rows' = rows + 1
  /\ mem' = [mem EXCEPT ![p].base = rows + 1]
  /\ Goto(p, "latest")
  /\ UNCHANGED <<branches, stored, blank, l1snap, l2snap, l2rec, report, ghosts>>

Comparison(p, found, spec, behind) ==
  [row |-> mem[p].row, base |-> mem[p].base, own |-> mem[p].own, l1 |-> mem[p].l1,
   l2 |-> mem[p].l2, found |-> found, spec |-> spec, behind |-> behind]

\* seeded fault: the openEuler-24.09 row is compared without a second probe
LatestUnprobed(p) ==
  LET f == mem[p].base  s == l1snap[f] IN
  /\ pc[p] \in {"latest", "again"}
  /\ \/ s = NoSnapshot /\ Goto(p, "fetch") /\ UNCHANGED mem
     \/ s = 0 /\ Quit(p)
     \/ /\ s \notin {NoSnapshot, 0}
        /\ mem' = [mem EXCEPT ![p].own = mem[p].l1, ![p].l1 = s]
        /\ Goto(p, "version")
  /\ UNCHANGED <<branches, rows, stored, blank, l1snap, l2snap, l2rec, report, ghosts>>

\* the openEuler-24.09 snapshot read, its probe decides: still ahead means no
\* commits are compared.  Read again after the pipeline inserted one, it is there
LatestFallback(p) ==
  LET f == mem[p].base  s == l1snap[f] IN
  /\ pc[p] \in {"latest", "again"}
  /\ \/ s = NoSnapshot /\ Goto(p, "fetch") /\ UNCHANGED <<mem, report>>
     \/ s = 0 /\ Quit(p) /\ UNCHANGED report
     \/ /\ s \notin {NoSnapshot, 0} /\ Newer(mem[p].l2, f, s)
        /\ report' = [Comparison(p, "skipped", 0, {}) EXCEPT !.own = mem[p].l1, !.l1 = s]
        /\ Quit(p)
     \/ /\ s \notin {NoSnapshot, 0} /\ ~Newer(mem[p].l2, f, s)
        /\ mem' = [mem EXCEPT ![p].own = mem[p].l1, ![p].l1 = s]
        /\ Goto(p, "version")
        /\ UNCHANGED report
  /\ UNCHANGED <<branches, rows, stored, blank, l1snap, l2snap, l2rec, ghosts>>

\* latest_or_refresh_fallback_l1_snapshot_record: the snapshot is made whether or not
\* the sync stored anything
FetchFallback(p) ==
  LET f == mem[p].base IN
  /\ pc[p] = "fetch"
  /\ StoreAll(f)
  /\ IF \E q \in Pipelines \ {p} : Ingests(q, f) THEN Cloud(f) ELSE UNCHANGED clouded
  /\ Goto(p, "specF")
  /\ UNCHANGED <<branches, rows, l1snap, l2snap, l2rec, mem, report, starts, crowd, l2Moved>>

\* an Err, or a failed export: the first probe stays, and no commits are compared
FallbackFails(p, n) ==
  LET f == mem[p].base IN
  /\ pc[p] \in {"fetch", "specF", "putF"}
  /\ pc[p] = "fetch" \/ n = 0
  /\ StoreSome(f, n)
  /\ Cloud(f)
  /\ report' = [Comparison(p, "skipped", 0, {}) EXCEPT !.base = mem[p].row, !.own = 0]
  /\ Quit(p)
  /\ UNCHANGED <<branches, rows, l1snap, l2snap, l2rec, starts, crowd, l2Moved>>

\* compare_commit_db_with_tracking_ids: the version L2 is at is its newest commit's,
\* or the snapshot's when no commit is stamped
ReadL2Version(p) ==
  /\ pc[p] = "version"
  /\ mem' = [mem EXCEPT ![p].held =
               IF mem[p].row = 0 /\ l2rec.n > 0 THEN l2rec.spec ELSE mem[p].l2]
  /\ Goto(p, "match")
  /\ UNCHANGED <<branches, rows, stored, blank, l1snap, l2snap, l2rec, report, ghosts>>

\* seeded fault: the oldest commit of the version
OldestCommit(t, vr) ==
  LET same == {i \in Named(t) : Line(t)[i][1] = vr[1]} IN
  IF same = {} THEN 0 ELSE CHOOSE i \in same : \A j \in same : i <= j

\* find_base_commit_from_records: the newest commit stored with the version and the
\* release, or with the version; 0 when there is none
BaseCommit(t, vr) ==
  LET exact == {i \in Full(t) : Line(t)[i] = vr}
      same == IF exact # {} THEN exact ELSE {i \in Named(t) : Line(t)[i][1] = vr[1]}
  IN IF same = {} THEN 0 ELSE CHOOSE i \in same : \A j \in same : j <= i

\* failing that, find_base_commit searches the messages, which may mention the
\* version anywhere; the report is saved at once, nothing reads in between
MatchCommits(p) ==
  LET known == stored[mem[p].base]
      b == BaseCommit(mem[p].base, L2Line[mem[p].held])
      Since(c) == {i \in known : i > c}
  IN
  /\ pc[p] = "match"
  /\ \/ b > 0 /\ report' = Comparison(p, "record", mem[p].held, Since(b))
     \/ b = 0 /\ \E c \in known : report' = Comparison(p, "message", mem[p].held, Since(c))
     \/ b = 0 /\ report' = Comparison(p, "none", mem[p].held, known)
  /\ Quit(p)
  /\ UNCHANGED <<branches, rows, stored, blank, l1snap, l2snap, l2rec, ghosts>>

\* a failed call anywhere else, or the end of the process
StageFails(p) ==
  /\ pc[p] \notin {"off", "sync", "fetch", "specF", "putF"} /\ Mishap
  /\ IF pc[p] \in {"spec", "put"} THEN Cloud(mem[p].row) ELSE UNCHANGED clouded
  /\ Quit(p)
  /\ UNCHANGED <<branches, rows, stored, blank, l1snap, l2snap, l2rec, report, starts, crowd, l2Moved>>
-----------------------------------------------------------------------------
PipeStep(p) ==
  \/ SyncL1(p) \/ \E n \in 0..Tip(mem[p].row) : SyncFails(p, n)
  \/ ReadSpec(p) \/ SpecMissing(p) \/ PutL1(p)
  \/ ReuseL2(p) \/ ReadL2Spec(p) \/ ReadLogSpec(p) \/ PersistL2(p) \/ PutL2(p)
  \/ ReadL1(p) \/ ReadL2(p) \/ FindFallback(p) \/ MakeFallback(p)
  \/ LatestFallback(p) \/ FetchFallback(p)
  \/ \E n \in 0..Tip(mem[p].base) : FallbackFails(p, n)
  \/ ReadL2Version(p) \/ MatchCommits(p) \/ StageFails(p)

LayersNext ==
  \/ \E b \in {"l1", "fallback"} : L1Commit(b)
  \/ L2Commit
  \/ \E n \in DOMAIN L2Line : PushL2(n)
  \/ \E p \in Pipelines : PipeStep(p) \/ \E t \in Rows : PipeStart(p, t)

LayersSpec == LayersInit /\ [][LayersNext]_layerVars
-----------------------------------------------------------------------------
\* Type invariant of the snapshot tables and the pipelines (pipeline_stages.rs).
LayersTypeOK ==
  /\ rows \in Rows
  /\ \A t \in Rows :
       blank[t] \in [version : SUBSET stored[t], release : SUBSET stored[t]]
  /\ \A t \in Rows : stored[t] \subseteq 1..Tip(t) /\ l1snap[t] \in {NoSnapshot} \cup 0..Tip(t)
  /\ \A t \in Rows : t > rows => stored[t] = {} /\ l1snap[t] = NoSnapshot
  /\ l2snap \in {NoSnapshot} \cup 1..tip.l2
  /\ l2rec.n \in 0..tip.l2 /\ l2rec.spec \in 0..l2rec.n
  /\ \A p \in Pipelines :
       /\ mem[p].row \in 0..rows /\ mem[p].base \in 0..rows
       /\ pc[p] \in {"spec", "put"} => mem[p].base = mem[p].row
       /\ pc[p] \in {"version", "match"} => mem[p].l1 # 0 /\ mem[p].l2 # 0

\* stage_l1_ingestion exports only what is new, and the latest snapshot is the one
\* inserted last: unless the row's ingestions overlapped or one of them failed, its
\* latest snapshot is no older than its newest stored commit.
LatestCovers ==
  \A t \in 0..rows :
    /\ t \notin clouded /\ stored[t] # {}
    /\ \A p \in Pipelines : ~Ingests(p, t)
    => l1snap[t] # NoSnapshot /\ \A c \in stored[t] : c <= l1snap[t]

\* compare_commit_db_with_tracking_ids: whatever pipelines exported meanwhile, the
\* commits L2 is said to be behind are of no earlier version than the L2 snapshot
\* compared, and of a later version or release unless a commit was stored without its
\* own: L2's very release may be among them then.  (Not when the L2 repository changed
\* in the middle of an export.)
BehindIsNewer ==
  report # NoReport /\ report.found = "record" /\ ~l2Moved =>
    LET t == report.base  now == L2Line[report.l2] IN
    \A c \in report.behind :
      /\ Line(t)[c][1] >= now[1]
      /\ c \in Full(t) => Later(Line(t)[c], now)

\* compare_l2_vs_l1: commits are compared only with an L1 snapshot that L2 is not
\* ahead of, and with the openEuler-24.09 row only when L2 was ahead of the
\* tracking's own snapshot ("to give no misleading commits from the wrong L1 line").
ComparedWithRightLine ==
  report # NoReport /\ report.found # "skipped" =>
    /\ ~Newer(report.l2, report.base, report.l1)
    /\ report.base # report.row => /\ report.row = 0
                                   /\ Newer(report.l2, 0, report.own)

\* find_or_create_l2_newer_fallback_tracking looks, then inserts, without a unique
\* key: the openEuler-24.09 rows of a tracking are never more than the pipelines
\* that were once at work together, so pipelines one at a time make only one.
FallbackRowsBounded == rows <= crowd
=============================================================================
