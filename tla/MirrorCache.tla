----------------------------- MODULE MirrorCache -----------------------------
(***************************************************************************)
(* The bare mirror of an upstream repository that the maintenance          *)
(* collector and the cache warming of the API share, in one process or     *)
(* several: the server and a scheduler beside it.  A commit is a number.   *)
(* Each step is one git command, one call of libgit2 or one removal.       *)
(***************************************************************************)
EXTENDS Integers, FiniteSets

CONSTANTS
  Users,                 \* collections and warmings
  Branches, InitBranch,  \* the branch HEAD of a new repository names
  MaxMoves,              \* bound: pushes and renames upstream
  MaxTroubles,           \* bound: commands and calls that fail, and crashes
  NoBranch, Failed, NoResult

ASSUME MirrorAssumption ==
  /\ InitBranch \in Branches /\ NoBranch \notin Branches
  /\ MaxMoves \in Nat /\ MaxTroubles \in Nat
  /\ NoResult # Failed /\ {NoResult, Failed} \cap (Branches \X Nat) = {}

VARIABLES
  remote,     \* upstream: the branch its HEAD names, the tip of each; 0, no such branch
  peers,      \* the users in the process of each
  symref,     \* whether the server says what HEAD names
  retain,     \* whether mirrors are kept: both processes have one environment file
  disk,       \* the directory: none, broken, locked by a killed fetch, or good
  uat,        \* where each user is
  want,       \* the branch and commit it looks for, and whether it made the mirror
  got,        \* the branch and commit its metrics are of
  moves, troubles,
  \* history
  since,      \* default branches and tips since the users at work began
  disturbed,  \* users during whose work upstream moved, a call failed or another
              \* process was at work
  leftover    \* the mirror on disk outlived a crash, or was there before

setting == <<remote, peers, symref, retain, moves>>
mirrorVars == <<setting, disk, uat, want, got, troubles, since, disturbed, leftover>>

Repo(kind, head, refs) == [kind |-> kind, head |-> head, refs |-> refs]
NoRefs == [b \in Branches |-> 0]
Gone == Repo("none", NoBranch, NoRefs)
Broken == Repo("broken", NoBranch, NoRefs)
Nothing == [branch |-> NoBranch, oid |-> 0, fresh |-> FALSE]

\* the tips a result may be of: of a default branch, if the server names it
Since(r, heads) ==
  [heads |-> heads,
   tips |-> {<<b, r.tips[b]>> : b \in {x \in Branches : r.tips[x] # 0 /\ (symref => x \in heads)}}]

MirrorInit ==
  /\ remote \in [head : Branches, tips : [Branches -> 0..1]]
  /\ remote.tips[remote.head] # 0
  /\ peers \in [Users -> SUBSET Users]
  /\ \A u \in Users : u \in peers[u] /\ \A v \in peers[u] : peers[v] = peers[u]
  /\ symref \in BOOLEAN
  /\ retain \in BOOLEAN
  /\ disk \in {Gone, Broken} \cup {Repo("good", b, [x \in Branches |-> IF x = b THEN 1 ELSE 0]) : b \in Branches}
  /\ uat = [u \in Users |-> "off"]
  /\ want = [u \in Users |-> Nothing]
  /\ got = [u \in Users |-> NoResult]
  /\ moves = 0 /\ troubles = 0
  /\ since = [heads |-> {}, tips |-> {}]
  /\ disturbed = {}
  /\ leftover = (disk # Gone)
-----------------------------------------------------------------------------
AtWork == {u \in Users : uat[u] # "off"}
Opens(d) == d.kind \in {"good", "locked"}
RefOid(d, b) == IF Opens(d) /\ b # NoBranch THEN d.refs[b] ELSE 0
HeadOid(d) == RefOid(d, d.head)

Go(u, where) == uat' = [uat EXCEPT ![u] = where]
Trouble(u) ==
  /\ troubles < MaxTroubles /\ troubles' = troubles + 1
  /\ disturbed' = disturbed \cup {u}

GivesUp(u) ==
  /\ Go(u, "clean") /\ got' = [got EXCEPT ![u] = Failed]
  /\ want' = [want EXCEPT ![u] = Nothing]

\* seeded fault: a mirror that cannot be updated is an error
FailsAtOnce(u) == GivesUp(u)

\* sync_cached_mirror: what exists and cannot be opened and updated is removed and
\* made anew; a new mirror that cannot be filled is an error
Fails(u) ==
  \/ want[u].fresh /\ GivesUp(u)
  \/ /\ ~want[u].fresh
     /\ Go(u, "remove")
     /\ want' = [want EXCEPT ![u] = Nothing]
     /\ UNCHANGED got

(* upstream *)

Moves(r) ==
  /\ moves < MaxMoves /\ moves' = moves + 1
  /\ remote' = r
  /\ IF AtWork = {} THEN UNCHANGED since
     ELSE LET now == Since(r, since.heads \cup {r.head})
          IN since' = [now EXCEPT !.tips = @ \cup since.tips]
  /\ disturbed' = disturbed \cup AtWork
  /\ UNCHANGED <<peers, symref, retain, disk, uat, want, got, troubles, leftover>>

Push(b) ==
  /\ remote.tips[b] # 0
  /\ Moves([remote EXCEPT !.tips[b] = moves + 2])

\* the default branch is renamed, or another one made the default
Rename(b, kept) ==
  /\ b # remote.head
  /\ LET old == remote.head  tip == remote.tips[old] IN
     Moves([head |-> b,
            tips |-> [remote.tips EXCEPT ![b] = IF kept /\ @ # 0 THEN @ ELSE tip,
                                         ![old] = IF kept THEN tip ELSE 0]])
-----------------------------------------------------------------------------
\* cached_mirror_lock: one user in each process
Start(u) ==
  LET others == AtWork \ peers[u] IN
  /\ uat[u] = "off" /\ AtWork \subseteq others
  /\ Go(u, "look")
  /\ IF AtWork = {} THEN since' = Since(remote, {remote.head})
     ELSE UNCHANGED since
  /\ disturbed' = IF others = {} THEN disturbed ELSE disturbed \cup others \cup {u}
  /\ UNCHANGED <<setting, disk, want, got, troubles, leftover>>

Look(u) ==
  /\ uat[u] = "look"
  /\ Go(u, IF disk.kind = "none" THEN "init" ELSE "open")
  /\ want' = [want EXCEPT ![u].fresh = (disk.kind = "none")]
  /\ UNCHANGED <<setting, disk, got, troubles, since, disturbed, leftover>>

Open(u) ==
  /\ uat[u] = "open"
  /\ IF Opens(disk) THEN Go(u, "ls") /\ UNCHANGED <<want, got>> ELSE Fails(u)
  /\ UNCHANGED <<setting, disk, troubles, since, disturbed, leftover>>

\* a removal beside another process may leave a part behind
RemoveBroken(u) ==
  /\ uat[u] = "remove"
  /\ \/ /\ disk.kind # "none"
        /\ disk' = Gone /\ leftover' = FALSE
        /\ want' = [want EXCEPT ![u].fresh = TRUE]
        /\ Go(u, "init") /\ UNCHANGED got
     \/ /\ disk.kind = "none" \/ AtWork # {u}
        /\ disk' = IF disk.kind = "none" THEN disk ELSE Broken
        /\ GivesUp(u)
        /\ UNCHANGED leftover
  /\ UNCHANGED <<setting, troubles, since, disturbed>>

\* init_bare keeps a repository that is there
InitBare(u) ==
  /\ uat[u] = "init"
  /\ disk' = IF Opens(disk) THEN disk ELSE Repo("good", InitBranch, NoRefs)
  /\ Go(u, "ls")
  /\ UNCHANGED <<setting, want, got, troubles, since, disturbed, leftover>>

\* resolve_remote_head: a server that does not say what HEAD names leaves the branch
\* HEAD of the mirror names
ResolveRemoteHead(u) ==
  /\ uat[u] = "ls"
  /\ want' = [want EXCEPT
       ![u].branch = IF symref THEN remote.head
                     ELSE IF HeadOid(disk) # 0 THEN disk.head ELSE NoBranch,
       ![u].oid = remote.tips[remote.head]]
  /\ Go(u, "fetch")
  /\ UNCHANGED <<setting, disk, got, troubles, since, disturbed, leftover>>

\* cached_head_matches_remote
Hit(u) ==
  LET b == want[u].branch IN
  want[u].oid = (IF b = NoBranch THEN HeadOid(disk) ELSE RefOid(disk, b))

\* fetch_cached_mirror: the branch, or all branches and no others
FetchMirror(u) ==
  LET b == want[u].branch IN
  /\ uat[u] = "fetch"
  /\ IF Hit(u) THEN Go(u, "setHead") /\ UNCHANGED <<disk, want, got>>
     ELSE IF disk.kind = "good" /\ (b = NoBranch \/ remote.tips[b] # 0)
     THEN /\ disk' = [disk EXCEPT !.refs = IF b = NoBranch THEN remote.tips
                                           ELSE [@ EXCEPT ![b] = remote.tips[b]]]
          /\ Go(u, "setHead") /\ UNCHANGED <<want, got>>
     ELSE Fails(u) /\ UNCHANGED disk
  /\ UNCHANGED <<setting, troubles, since, disturbed, leftover>>

\* a command that fails or is killed at its timeout; the killed fetch leaves its locks
CommandFails(u) ==
  /\ uat[u] \in {"open", "init", "ls", "fetch", "setHead"} /\ Trouble(u)
  /\ disk' \in {disk} \cup (IF uat[u] = "fetch" /\ ~Hit(u) /\ disk.kind = "good"
                            THEN {[disk EXCEPT !.kind = "locked"]} ELSE {})
  /\ Fails(u)
  /\ UNCHANGED <<setting, since, leftover>>

Computes(u) == Go(u, "compute") /\ want' = [want EXCEPT ![u] = Nothing]

\* seeded fault: HEAD stays after a fetch
HeadStays(u) ==
  /\ uat[u] = "setHead"
  /\ Computes(u)
  /\ UNCHANGED <<setting, disk, got, troubles, since, disturbed, leftover>>

\* update_cached_head: the branch, or any that was fetched.  With the directory
\* removed the write of HEAD fails or makes a directory with nothing else
UpdateCachedHead(u) ==
  LET b == want[u].branch
      there == {x \in Branches : disk.refs[x] # 0}
  IN
  /\ uat[u] = "setHead"
  /\ \/ /\ Opens(disk)
        /\ \/ b # NoBranch /\ disk' = [disk EXCEPT !.head = b]
           \/ b = NoBranch /\ \E x \in there : disk' = [disk EXCEPT !.head = x]
           \/ b = NoBranch /\ there = {} /\ UNCHANGED disk
        /\ Computes(u) /\ UNCHANGED got
     \/ ~Opens(disk) /\ Fails(u) /\ UNCHANGED disk
     \/ ~Opens(disk) /\ b # NoBranch /\ disk' = Broken /\ Computes(u) /\ UNCHANGED got
  /\ UNCHANGED <<setting, troubles, since, disturbed, leftover>>

\* compute_metrics, of HEAD; an error here removes nothing
ComputeMetrics(u) ==
  /\ uat[u] = "compute"
  /\ got' = [got EXCEPT ![u] = IF HeadOid(disk) = 0 THEN Failed ELSE <<disk.head, HeadOid(disk)>>]
  /\ Go(u, "clean")
  /\ UNCHANGED <<setting, disk, want, troubles, since, disturbed, leftover>>

Leaves(u) ==
  /\ uat' = [uat EXCEPT ![u] = "off"]
  /\ want' = [want EXCEPT ![u] = Nothing]
  /\ got' = [got EXCEPT ![u] = NoResult]
  /\ since' = IF AtWork = {u} THEN [heads |-> {}, tips |-> {}] ELSE since
  /\ disturbed' = disturbed \ {u}
  /\ UNCHANGED <<setting, troubles>>

\* seeded fault: only a result is followed by the removal
CleanupResult(u) ==
  /\ uat[u] = "clean"
  /\ IF retain \/ got[u] = Failed THEN UNCHANGED <<disk, leftover>>
     ELSE disk' = Gone /\ leftover' = FALSE
  /\ Leaves(u)

\* with_synced_mirror: without retention the mirror is removed, whatever came of it
Cleanup(u) ==
  /\ uat[u] = "clean"
  /\ \/ retain /\ UNCHANGED <<disk, leftover>>
     \/ ~retain /\ disk' = Gone /\ leftover' = FALSE
     \/ ~retain /\ AtWork # {u} /\ disk.kind # "none" /\ disk' = Broken
        /\ UNCHANGED leftover
  /\ Leaves(u)

\* the end of a process, in the middle of a command
ProcessEnds(u) ==
  /\ uat[u] # "off" /\ troubles < MaxTroubles /\ troubles' = troubles + 1
  /\ disk' \in {disk}
       \cup (IF uat[u] = "fetch" /\ ~Hit(u) /\ disk.kind = "good"
             THEN {[disk EXCEPT !.kind = "locked"]} ELSE {})
       \cup (IF uat[u] \in {"init", "remove"} \/ (uat[u] = "clean" /\ ~retain)
             THEN {Broken} ELSE {})
  /\ leftover' = (disk' # Gone)
  /\ uat' = [uat EXCEPT ![u] = "off"]
  /\ want' = [want EXCEPT ![u] = Nothing]
  /\ got' = [got EXCEPT ![u] = NoResult]
  /\ since' = IF AtWork = {u} THEN [heads |-> {}, tips |-> {}] ELSE since
  /\ disturbed' = disturbed \ {u}
  /\ UNCHANGED setting
-----------------------------------------------------------------------------
UserStep(u) ==
  \/ Start(u) \/ Look(u) \/ Open(u) \/ RemoveBroken(u) \/ InitBare(u)
  \/ ResolveRemoteHead(u) \/ FetchMirror(u) \/ CommandFails(u) \/ UpdateCachedHead(u)
  \/ ComputeMetrics(u) \/ Cleanup(u) \/ ProcessEnds(u)

MirrorNext ==
  \/ \E b \in Branches : Push(b) \/ \E kept \in BOOLEAN : Rename(b, kept)
  \/ \E u \in Users : UserStep(u)

MirrorSpec == MirrorInit /\ [][MirrorNext]_mirrorVars
-----------------------------------------------------------------------------
\* Type invariant of the mirror (generic_git.rs).
MirrorTypeOK ==
  /\ remote.tips[remote.head] # 0
  /\ \A u \in Users : Cardinality(AtWork \cap peers[u]) <= 1
  /\ ~Opens(disk) => disk \in {Gone, Broken}
  /\ \A u \in Users :
       /\ uat[u] = "init" => want[u].fresh
       /\ uat[u] = "remove" => ~want[u].fresh
       /\ uat[u] \in {"fetch", "setHead"} => want[u].oid \in 1..moves + 1
       /\ (uat[u] = "clean") = (got[u] # NoResult)

\* collect_metrics: whatever was on disk, and whatever other processes did to it, the
\* metrics are of a commit that was a branch's tip while somebody was at work without
\* a break, and of a branch that was then the default if the server names it.
MetricsCurrent ==
  \A u \in Users : got[u] \notin {NoResult, Failed} =>
    /\ \E t \in since.tips : t[2] = got[u][2]
    /\ symref => got[u] \in since.tips

\* sync_cached_mirror ("damaged, to be rebuilt"): a user alone, with upstream standing
\* still and no command failing, gets its metrics from whatever a killed fetch, a
\* crash, a renamed branch or another process has left.
AloneSucceeds ==
  \A u \in Users \ disturbed : got[u] # Failed

\* with_synced_mirror: without retention nothing stays on disk once
\* all are done, failed or not, but for what a crash has left.
NothingRetained ==
  AtWork = {} /\ ~leftover /\ ~retain => disk = Gone
=============================================================================
