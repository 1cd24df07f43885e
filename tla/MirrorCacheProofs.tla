------------------------- MODULE MirrorCacheProofs -------------------------
(***************************************************************************)
(* MirrorCache for any number of users, processes and branches, and any    *)
(* bounds.  Typed says what a user holds at each step, CurrentInv which    *)
(* commits on disk are current while somebody is at work, and AloneInv     *)
(* what a user finds whom nobody disturbs.                                 *)
(***************************************************************************)
EXTENDS MirrorCache, FiniteSetTheorems, TLAPS

Places == {"off", "look", "open", "remove", "init", "ls", "fetch", "setHead", "compute", "clean"}
Wants == [branch : Branches \cup {NoBranch}, oid : Nat, fresh : BOOLEAN]
Results == {NoResult, Failed} \cup (Branches \X Nat)
Remotes == [head : Branches, tips : [Branches -> Nat]]
Repos == [kind : {"good", "locked"}, head : Branches, refs : [Branches -> Nat]]

\* what a user holds, at place w
Holds(w, m, g) ==
  /\ w = "init" => m.fresh
  /\ w = "remove" => ~m.fresh
  /\ w \in {"fetch", "setHead"} => m.oid \in 1..moves + 1
  /\ (w = "clean") = (g # NoResult)

RemoteTyped ==
  /\ remote \in Remotes /\ moves \in Nat
  /\ remote.tips[remote.head] # 0
  /\ \A b \in Branches : remote.tips[b] <= moves + 1

UsersTyped ==
  /\ uat \in [Users -> Places] /\ want \in [Users -> Wants] /\ got \in [Users -> Results]
  /\ \A u \in Users : Holds(uat[u], want[u], got[u])

ProcessesTyped ==
  /\ peers \in [Users -> SUBSET Users]
  /\ \A u \in Users : u \in peers[u] /\ \A v \in peers[u] : peers[v] = peers[u]
  /\ \A u, v \in AtWork : v \in peers[u] => u = v

Typed ==
  /\ RemoteTyped /\ UsersTyped /\ ProcessesTyped
  /\ symref \in BOOLEAN /\ retain \in BOOLEAN
  /\ disk \in {Gone, Broken} \cup Repos

(* b's commit n was its tip while somebody was at work without a break, and  *)
(* b then the default branch if the server names it.                         *)
Current(b, n) == (\E t \in since.tips : t[2] = n) /\ (symref => <<b, n>> \in since.tips)
RefCurrent(b) == RefOid(disk, b) # 0 => Current(b, RefOid(disk, b))
AllCurrent == \A b \in Branches : RefCurrent(b)

SinceInv ==
  AtWork # {} =>
    /\ remote.head \in since.heads
    /\ \A b \in Branches : remote.tips[b] # 0 /\ (symref => b \in since.heads)
                             => Current(b, remote.tips[b])

\* what a user's next steps rely on, at place w
Relies(w, m, g) ==
  /\ w \in {"fetch", "setHead"} /\ symref => m.branch \in since.heads /\ m.branch # NoBranch
  /\ w = "fetch" => Current(m.branch, m.oid)
  /\ w = "setHead" => IF m.branch = NoBranch THEN AllCurrent ELSE RefCurrent(m.branch)
  /\ w = "compute" => RefCurrent(disk.head)
  /\ g \notin {NoResult, Failed} => Current(g[1], g[2])

\* the branch a server that does not name its HEAD leaves
OwnHead == IF HeadOid(disk) # 0 THEN disk.head ELSE NoBranch

(* The inductive form of MetricsCurrent.  As long as a ref that others left  *)
(* is on disk, nobody without a named HEAD wants another branch than the     *)
(* mirror's own.                                                             *)
CurrentInv ==
  /\ SinceInv
  /\ \A u \in Users : Relies(uat[u], want[u], got[u])
  /\ ~symref /\ ~AllCurrent =>
       \A u \in Users : uat[u] \in {"fetch", "setHead"} => want[u].branch = OwnHead

\* what a user whom nobody disturbs finds, at place w
Finds(w, m, g) ==
  /\ w = "open" => ~m.fresh
  /\ w \in {"open", "remove"} => disk.kind # "none"
  /\ w = "init" => ~Opens(disk)
  /\ w \in {"ls", "fetch", "setHead"} => Opens(disk)
  /\ w \in {"ls", "fetch"} /\ m.fresh => disk.kind = "good"
  /\ w = "ls" /\ m.fresh => disk.refs = NoRefs
  /\ w = "fetch" => m.oid = remote.tips[remote.head]
  /\ w = "fetch" /\ m.fresh => m.branch = NoBranch \/ remote.tips[m.branch] # 0
  /\ w = "setHead" => IF m.branch = NoBranch THEN \E x \in Branches : disk.refs[x] # 0
                      ELSE disk.refs[m.branch] # 0
  /\ w = "compute" => HeadOid(disk) # 0
  /\ g # Failed

(* The inductive form of AloneSucceeds.                                      *)
AloneInv ==
  \A u \in Users \ disturbed :
    uat[u] # "off" => AtWork = {u} /\ Finds(uat[u], want[u], got[u])

MirrorInv == Typed /\ CurrentInv /\ AloneInv
-----------------------------------------------------------------------------
(* The disk.                                                                 *)

Disks == {Gone, Broken} \cup Repos

LEMMA DiskFacts ==
  ASSUME Typed
  PROVE  /\ Opens(disk) => disk \in Repos
         /\ disk \in Repos => Opens(disk)
         /\ disk.kind = "none" => disk = Gone
         /\ disk.kind = "none" => ~Opens(disk)
         /\ RefOid(disk, NoBranch) = 0
         /\ ~Opens(disk) => \A b : RefOid(disk, b) = 0
         /\ \A b \in Branches : RefOid(disk, b) \in Nat
         /\ HeadOid(disk) # 0 => disk.head \in Branches
         /\ Opens(disk) => disk.head \in Branches
                           /\ \A b \in Branches : RefOid(disk, b) = disk.refs[b]
BY MirrorAssumption DEF Typed, Opens, Repos, Gone, Broken, Repo, RefOid, HeadOid

(* A change of the disk that makes no current ref stale, and none of the     *)
(* branch its HEAD names.                                                    *)
DiskSafe ==
  /\ \A b \in Branches : RefCurrent(b) => RefCurrent(b)'
  /\ RefCurrent(disk.head) => RefCurrent(disk.head)'
  /\ ~symref /\ ~AllCurrent' => ~AllCurrent /\ OwnHead' = OwnHead

LEMMA SameDiskIsSafe ==
  ASSUME disk' = disk, since' = since, symref' = symref
  PROVE  DiskSafe
BY DEF DiskSafe, RefCurrent, AllCurrent, Current, OwnHead

LEMMA EmptyDiskIsSafe ==
  ASSUME disk' \in {Gone, Broken} \/ disk' = Repo("good", InitBranch, NoRefs)
  PROVE  DiskSafe /\ AllCurrent' /\ RefCurrent(disk.head)'
<1>1. \A b : b \in Branches \/ b = NoBranch => RefOid(disk', b) = 0
  BY DEF RefOid, Opens, Gone, Broken, Repo, NoRefs
<1>2. disk'.head \in Branches \/ disk'.head = NoBranch
  BY MirrorAssumption DEF Gone, Broken, Repo
<1>3. (\A b \in Branches : RefCurrent(b)') /\ RefCurrent(disk.head)'
  BY <1>1, <1>2 DEF RefCurrent
<1>4. QED
  BY <1>3 DEF DiskSafe, AllCurrent

LEMMA LockedDiskIsSafe ==
  ASSUME Typed, disk.kind = "good", disk' = [disk EXCEPT !.kind = "locked"],
         since' = since, symref' = symref
  PROVE  DiskSafe /\ disk' \in Repos
<1>1. disk \in Repos
  BY DiskFacts DEF Opens
<1>2. disk' \in Repos /\ disk'.head = disk.head /\ disk'.refs = disk.refs
      /\ Opens(disk) /\ Opens(disk')
  BY <1>1 DEF Repos, Opens
<1>3. \A b : RefOid(disk', b) = RefOid(disk, b)
  BY <1>2 DEF RefOid
<1>4. QED
  BY <1>2, <1>3 DEF DiskSafe, RefCurrent, AllCurrent, Current, OwnHead, HeadOid
-----------------------------------------------------------------------------
(* A user at work moves on.                                                  *)

Steps(u, w, m, g) ==
  /\ uat' = [uat EXCEPT ![u] = w]
  /\ want' = [want EXCEPT ![u] = m]
  /\ got' = [got EXCEPT ![u] = g]

LEMMA UserHand ==
  ASSUME Typed, NEW u \in Users
  PROVE  /\ uat[u] \in Places /\ want[u] \in Wants /\ got[u] \in Results
         /\ Holds(uat[u], want[u], got[u])
         /\ uat[u] # "clean" => got[u] = NoResult
BY DEF Typed, UsersTyped, Holds

LEMMA StepFrame ==
  ASSUME Typed, NEW u \in Users, NEW w, NEW m, NEW g, Steps(u, w, m, g)
  PROVE  /\ uat'[u] = w /\ want'[u] = m /\ got'[u] = g
         /\ \A v \in Users \ {u} : uat'[v] = uat[v] /\ want'[v] = want[v] /\ got'[v] = got[v]
BY DEF Typed, UsersTyped, Steps

LEMMA TypedKept ==
  ASSUME Typed, NEW u \in Users,
         NEW w \in Places, NEW m \in Wants, NEW g \in Results, Steps(u, w, m, g),
         uat[u] # "off" \/ AtWork \cap peers[u] = {},
         UNCHANGED setting, disk' \in Disks, Holds(w, m, g)
  PROVE  Typed'
<1>1. UsersTyped'
  <2>1. uat' \in [Users -> Places] /\ want' \in [Users -> Wants] /\ got' \in [Users -> Results]
    BY DEF Typed, UsersTyped, Steps
  <2>2. ASSUME NEW v \in Users PROVE Holds(uat[v], want[v], got[v])'
    BY StepFrame, UserHand DEF Holds, setting
  <2>3. QED
    BY <2>1, <2>2 DEF UsersTyped
<1>2. ProcessesTyped'
  <2>1. peers' = peers
    BY DEF setting
  <2>2. AtWork' \subseteq AtWork \cup {u}
    BY StepFrame DEF AtWork
  <2>3. ASSUME NEW a \in AtWork', NEW b \in AtWork', b \in peers[a] PROVE a = b
    <3>1. a \in Users /\ b \in Users /\ a \in peers[a] /\ b \in peers[b] /\ peers[a] = peers[b]
      BY <2>3 DEF AtWork, Typed, ProcessesTyped
    <3>2. CASE uat[u] # "off"
      BY <2>2, <2>3, <3>2 DEF AtWork, Typed, ProcessesTyped
    <3>3. CASE AtWork \cap peers[u] = {}
      <4>1. CASE a \in AtWork /\ b \in AtWork
        BY <2>3, <4>1 DEF Typed, ProcessesTyped
      <4>2. QED
        BY <2>2, <3>1, <3>3, <4>1
    <3>4. QED
      BY <3>2, <3>3
  <2>4. QED
    BY <2>1, <2>3 DEF Typed, ProcessesTyped
<1>3. RemoteTyped'
  BY DEF Typed, RemoteTyped, setting
<1>4. QED
  BY <1>1, <1>2, <1>3 DEF Typed, setting, Disks

LEMMA CurrentKept ==
  ASSUME Typed, CurrentInv, NEW u \in Users, AtWork # {},
         NEW w, NEW m, NEW g, Steps(u, w, m, g),
         UNCHANGED setting, since' = since, DiskSafe, Relies(w, m, g)',
         ~symref /\ ~AllCurrent' /\ w \in {"fetch", "setHead"} => m.branch = OwnHead'
  PROVE  CurrentInv'
<1>1. UNCHANGED <<remote, symref>>
  BY DEF setting
<1>2. SinceInv'
  BY <1>1 DEF CurrentInv, SinceInv, AtWork, Current
<1>3. ASSUME NEW v \in Users, v # u
      PROVE  /\ Relies(uat[v], want[v], got[v])'
             /\ ~symref' /\ ~AllCurrent' /\ uat'[v] \in {"fetch", "setHead"}
                  => want'[v].branch = OwnHead'
  <2>1. PICK x, n, r : x = uat[v] /\ n = want[v] /\ r = got[v]
    OBVIOUS
  <2>2. x = uat'[v] /\ n = want'[v] /\ r = got'[v]
    BY <1>3, <2>1, StepFrame
  <2>3. n \in Wants /\ Relies(x, n, r)
    BY <2>1, UserHand DEF CurrentInv
  <2>4. AllCurrent => AllCurrent'
    BY DEF DiskSafe, AllCurrent
  <2>5. n.branch # NoBranch => (RefCurrent(n.branch) => RefCurrent(n.branch)')
    BY <2>3 DEF DiskSafe, Wants
  <2>6. Relies(x, n, r)'
    BY <1>1, <2>3, <2>4, <2>5 DEF Relies, DiskSafe, Current
  <2>7. ~symref' /\ ~AllCurrent' /\ x \in {"fetch", "setHead"} => n.branch = OwnHead'
    BY <1>1, <2>1 DEF CurrentInv, DiskSafe
  <2>8. QED
    BY <2>2, <2>6, <2>7
<1>4. Relies(uat[u], want[u], got[u])'
  BY StepFrame
<1>5. ~symref' /\ ~AllCurrent' /\ uat'[u] \in {"fetch", "setHead"} => want'[u].branch = OwnHead'
  BY <1>1, StepFrame
<1>6. QED
  BY <1>2, <1>3, <1>4, <1>5 DEF CurrentInv

LEMMA AloneKept ==
  ASSUME Typed, AloneInv, NEW u \in Users, uat[u] # "off",
         NEW w, NEW m, NEW g, Steps(u, w, m, g), disturbed \ {u} \subseteq disturbed',
         w # "off" /\ u \notin disturbed' => u \notin disturbed /\ Finds(w, m, g)'
  PROVE  AloneInv'
<1> SUFFICES ASSUME NEW v \in Users, v \notin disturbed', uat'[v] # "off"
             PROVE  AtWork' = {v} /\ Finds(uat[v], want[v], got[v])'
  BY DEF AloneInv
<1>1. CASE v = u
  <2>1. u \notin disturbed /\ Finds(w, m, g)' /\ uat'[u] = w /\ want'[u] = m /\ got'[u] = g
    BY <1>1, StepFrame
  <2>2. AtWork = {u}
    BY <2>1 DEF AloneInv
  <2>3. AtWork' = {u}
    BY <1>1, <2>2, StepFrame DEF AtWork
  <2>4. QED
    BY <1>1, <2>1, <2>3
<1>2. CASE v # u
  <2>1. uat[v] # "off" /\ v \notin disturbed
    BY <1>2, StepFrame
  <2>2. AtWork = {v} /\ u \in AtWork
    BY <2>1 DEF AloneInv, AtWork
  <2>3. QED
    BY <1>2, <2>2
<1>3. QED
  BY <1>1, <1>2

LEMMA InvKept ==
  ASSUME MirrorInv, NEW u \in Users, uat[u] # "off",
         NEW w \in Places, NEW m \in Wants, NEW g \in Results, Steps(u, w, m, g),
         UNCHANGED setting, since' = since, disturbed \subseteq disturbed',
         disk' \in Disks, Holds(w, m, g), DiskSafe, Relies(w, m, g)',
         ~symref /\ ~AllCurrent' /\ w \in {"fetch", "setHead"} => m.branch = OwnHead',
         u \notin disturbed' => Finds(w, m, g)'
  PROVE  MirrorInv'
<1>1. Typed'
  BY TypedKept DEF MirrorInv
<1>2. CurrentInv'
  <2>1. AtWork # {}
    BY DEF AtWork
  <2>2. QED
    BY <2>1, CurrentKept DEF MirrorInv
<1>3. AloneInv'
  BY AloneKept DEF MirrorInv
<1>4. QED
  BY <1>1, <1>2, <1>3 DEF MirrorInv

(* What CurrentInv and AloneInv say of one user.                             *)
LEMMA Knows ==
  ASSUME MirrorInv, NEW u \in Users
  PROVE  /\ Relies(uat[u], want[u], got[u])
         /\ uat[u] # "off" /\ u \notin disturbed =>
              AtWork = {u} /\ Finds(uat[u], want[u], got[u])
         /\ ~symref /\ ~AllCurrent /\ uat[u] \in {"fetch", "setHead"} => want[u].branch = OwnHead
BY DEF MirrorInv, CurrentInv, AloneInv

LEMMA NothingWanted == Nothing \in Wants /\ Nothing.fresh = FALSE
BY DEF Nothing, Wants

(* A failure that was provoked, or that rebuilds the mirror.                 *)
LEMMA FailsKept ==
  ASSUME MirrorInv, NEW u \in Users,
         uat[u] \in {"open", "init", "ls", "fetch", "setHead"}, Fails(u),
         UNCHANGED setting, since' = since, disturbed \subseteq disturbed',
         disk' \in Disks, DiskSafe,
         u \notin disturbed' => ~want[u].fresh /\ disk'.kind # "none"
  PROVE  MirrorInv'
<1>h. /\ uat \in [Users -> Places] /\ want \in [Users -> Wants] /\ got \in [Users -> Results]
      /\ got[u] = NoResult
  BY UserHand DEF MirrorInv, Typed, UsersTyped
<1>1. PICK m \in Wants : m = Nothing
  BY NothingWanted
<1>2. CASE want[u].fresh /\ GivesUp(u)
  <2>1. PICK g \in Results : g = Failed
    BY DEF Results
  <2>2. Steps(u, "clean", m, g)
    BY <1>1, <1>2, <2>1 DEF GivesUp, Go, Steps
  <2>3. Holds("clean", m, g) /\ "clean" \in Places
    BY <2>1, MirrorAssumption DEF Holds, Places
  <2>4. Relies("clean", m, g)'
    BY <2>1 DEF Relies
  <2>5. u \in disturbed'
    BY <1>2
  <2>6. QED
    BY <2>2, <2>3, <2>4, <2>5, InvKept
<1>3. CASE Go(u, "remove") /\ want' = [want EXCEPT ![u] = Nothing] /\ got' = got
  <2>1. PICK g \in Results : g = NoResult /\ g = got[u]
    BY <1>h
  <2>2. Steps(u, "remove", m, g)
    BY <1>h, <1>1, <1>3, <2>1 DEF Go, Steps
  <2>3. Holds("remove", m, g) /\ "remove" \in Places
    BY <1>1, <2>1, NothingWanted DEF Holds, Places
  <2>4. Relies("remove", m, g)'
    BY <2>1 DEF Relies
  <2>5. u \notin disturbed' => Finds("remove", m, g)'
    BY <2>1, MirrorAssumption DEF Finds
  <2>6. QED
    BY <2>2, <2>3, <2>4, <2>5, InvKept
<1>4. QED
  BY <1>2, <1>3 DEF Fails
-----------------------------------------------------------------------------
(* The steps of a user at work.                                              *)

LEMMA LookKept ==
  ASSUME MirrorInv, NEW u \in Users, Look(u)
  PROVE  MirrorInv'
<1>h. /\ uat \in [Users -> Places] /\ want \in [Users -> Wants] /\ got \in [Users -> Results]
      /\ uat[u] = "look" /\ got[u] = NoResult /\ want[u] \in Wants
  BY UserHand DEF MirrorInv, Typed, UsersTyped, Look
<1>d. disk' = disk /\ since' = since /\ UNCHANGED setting /\ disturbed' = disturbed /\ disk \in Disks
  BY DEF Look, MirrorInv, Typed, Disks
<1> DEFINE there == disk.kind # "none"
<1>1. PICK w \in Places : w = IF there THEN "open" ELSE "init"
  BY DEF Places
<1>2. PICK m \in Wants : m = [want[u] EXCEPT !.fresh = (disk.kind = "none")]
  BY <1>h DEF Wants
<1>3. PICK g \in Results : g = NoResult /\ g = got[u]
  BY <1>h
<1>4. m.fresh = (disk.kind = "none")
  BY <1>h, <1>2 DEF Wants
<1>5. Steps(u, w, m, g)
  BY <1>h, <1>1, <1>2, <1>3 DEF Look, Go, Steps
<1>6. Holds(w, m, g)
  BY <1>1, <1>3, <1>4 DEF Holds
<1>7. DiskSafe
  BY <1>d, SameDiskIsSafe DEF setting
<1>8. Relies(w, m, g)'
  BY <1>1, <1>3 DEF Relies
<1>9. Finds(w, m, g)'
  BY <1>1, <1>3, <1>4, <1>d, MirrorAssumption DEF Finds, Opens
<1>10. QED
  BY <1>h, <1>d, <1>1, <1>5, <1>6, <1>7, <1>8, <1>9, InvKept

LEMMA OpenKept ==
  ASSUME MirrorInv, NEW u \in Users, Open(u)
  PROVE  MirrorInv'
<1>h. /\ uat \in [Users -> Places] /\ want \in [Users -> Wants] /\ got \in [Users -> Results]
      /\ uat[u] = "open" /\ got[u] = NoResult /\ want[u] \in Wants
  BY UserHand DEF MirrorInv, Typed, UsersTyped, Open
<1>d. disk' = disk /\ since' = since /\ UNCHANGED setting /\ disturbed' = disturbed /\ disk \in Disks
  BY DEF Open, MirrorInv, Typed, Disks
<1>s. DiskSafe
  BY <1>d, SameDiskIsSafe DEF setting
<1>f. u \notin disturbed => ~want[u].fresh /\ disk.kind # "none"
  BY <1>h, Knows DEF Finds
<1>1. CASE Opens(disk)
  <2>1. PICK m \in Wants, g \in Results : m = want[u] /\ g = NoResult
    BY <1>h
  <2>2. Steps(u, "ls", m, g) /\ "ls" \in Places
    BY <1>h, <1>1, <2>1 DEF Open, Go, Steps, Places
  <2>3. Holds("ls", m, g)
    BY <2>1 DEF Holds
  <2>4. Relies("ls", m, g)'
    BY <2>1 DEF Relies
  <2>5. u \notin disturbed' => Finds("ls", m, g)'
    BY <1>1, <1>d, <1>f, <2>1, MirrorAssumption DEF Finds, Opens
  <2>6. QED
    BY <1>h, <1>d, <1>s, <2>2, <2>3, <2>4, <2>5, InvKept
<1>2. CASE Fails(u)
  BY <1>h, <1>d, <1>s, <1>f, <1>2, FailsKept
<1>3. QED
  BY <1>1, <1>2 DEF Open

LEMMA RemoveKept ==
  ASSUME MirrorInv, NEW u \in Users, RemoveBroken(u)
  PROVE  MirrorInv'
<1>h. /\ uat \in [Users -> Places] /\ want \in [Users -> Wants] /\ got \in [Users -> Results]
      /\ uat[u] = "remove" /\ got[u] = NoResult /\ want[u] \in Wants
  BY UserHand DEF MirrorInv, Typed, UsersTyped, RemoveBroken
<1>d. since' = since /\ UNCHANGED setting /\ disturbed' = disturbed /\ disk \in Disks
  BY DEF RemoveBroken, MirrorInv, Typed, Disks
<1>f. u \notin disturbed => AtWork = {u} /\ disk.kind # "none"
  BY <1>h, Knows DEF Finds
<1>1. CASE disk' = Gone /\ want' = [want EXCEPT ![u].fresh = TRUE] /\ Go(u, "init") /\ got' = got
  <2>1. PICK m \in Wants, g \in Results : m = [want[u] EXCEPT !.fresh = TRUE] /\ g = NoResult
    BY <1>h DEF Wants
  <2>2. m.fresh
    BY <1>h, <2>1 DEF Wants
  <2>3. Steps(u, "init", m, g) /\ "init" \in Places
    BY <1>h, <1>1, <2>1 DEF Go, Steps, Places
  <2>4. Holds("init", m, g)
    BY <2>1, <2>2 DEF Holds
  <2>5. Relies("init", m, g)'
    BY <2>1 DEF Relies
  <2>6. Finds("init", m, g)'
    BY <1>1, <2>1, MirrorAssumption DEF Finds, Opens, Gone, Repo
  <2>7. DiskSafe /\ disk' \in Disks
    BY <1>1, EmptyDiskIsSafe DEF Disks
  <2>8. QED
    BY <1>h, <1>d, <2>3, <2>4, <2>5, <2>6, <2>7, InvKept
<1>2. CASE /\ disk.kind = "none" \/ AtWork # {u}
           /\ disk' = IF disk.kind = "none" THEN disk ELSE Broken
           /\ GivesUp(u)
  <2>1. PICK m \in Wants, g \in Results : m = Nothing /\ g = Failed
    BY NothingWanted DEF Results
  <2>2. Steps(u, "clean", m, g) /\ "clean" \in Places
    BY <1>2, <2>1 DEF GivesUp, Go, Steps, Places
  <2>3. Holds("clean", m, g)
    BY <2>1, MirrorAssumption DEF Holds
  <2>4. Relies("clean", m, g)'
    BY <2>1 DEF Relies
  <2>5. u \in disturbed'
    BY <1>d, <1>f, <1>2
  <2>6. DiskSafe /\ disk' \in Disks
    <3>1. CASE disk' = disk
      BY <1>d, <3>1, SameDiskIsSafe DEF setting
    <3>2. CASE disk' = Broken
      BY <3>2, EmptyDiskIsSafe DEF Disks
    <3>3. QED
      BY <1>2, <3>1, <3>2
  <2>7. QED
    BY <1>h, <1>d, <2>2, <2>3, <2>4, <2>5, <2>6, InvKept
<1>3. QED
  BY <1>1, <1>2 DEF RemoveBroken

LEMMA InitBareKept ==
  ASSUME MirrorInv, NEW u \in Users, InitBare(u)
  PROVE  MirrorInv'
<1>h. /\ uat \in [Users -> Places] /\ want \in [Users -> Wants] /\ got \in [Users -> Results]
      /\ uat[u] = "init" /\ got[u] = NoResult /\ want[u] \in Wants
  BY UserHand DEF MirrorInv, Typed, UsersTyped, InitBare
<1>d. since' = since /\ UNCHANGED setting /\ disturbed' = disturbed /\ disk \in Disks
  BY DEF InitBare, MirrorInv, Typed, Disks
<1>1. PICK m \in Wants, g \in Results : m = want[u] /\ g = NoResult
  BY <1>h
<1>2. Steps(u, "ls", m, g) /\ "ls" \in Places
  BY <1>h, <1>1 DEF InitBare, Go, Steps, Places
<1>3. Holds("ls", m, g)
  BY <1>1 DEF Holds
<1>4. Relies("ls", m, g)'
  BY <1>1 DEF Relies
<1>5. DiskSafe /\ disk' \in Disks
  <2>1. CASE disk' = disk
    BY <1>d, <2>1, SameDiskIsSafe DEF setting
  <2>2. CASE disk' = Repo("good", InitBranch, NoRefs)
    <3>1. disk' \in Repos
      BY <2>2, MirrorAssumption DEF Repo, Repos, NoRefs
    <3>2. QED
      BY <2>2, <3>1, EmptyDiskIsSafe DEF Disks
  <2>3. QED
    BY <2>1, <2>2 DEF InitBare
<1>6. u \notin disturbed' => Finds("ls", m, g)'
  <2>1. SUFFICES ASSUME u \notin disturbed' PROVE Finds("ls", m, g)'
    OBVIOUS
  <2>2. ~Opens(disk)
    BY <1>h, <1>d, <2>1, Knows DEF Finds
  <2>3. disk' = Repo("good", InitBranch, NoRefs)
    BY <2>2 DEF InitBare
  <2>4. Opens(disk') /\ disk'.kind = "good" /\ disk'.refs = NoRefs /\ NoRefs' = NoRefs
    BY <2>3 DEF Repo, Opens, NoRefs
  <2>5. QED
    BY <1>1, <2>4, MirrorAssumption DEF Finds
<1>7. QED
  BY <1>h, <1>d, <1>2, <1>3, <1>4, <1>5, <1>6, InvKept

LEMMA AtWorkKnows ==
  ASSUME MirrorInv, NEW u \in Users, uat[u] # "off"
  PROVE  /\ remote \in Remotes /\ remote.head \in Branches /\ remote.tips[remote.head] \in 1..moves + 1
         /\ moves \in Nat /\ remote.head \in since.heads
         /\ Current(remote.head, remote.tips[remote.head])
         /\ \A b \in Branches : /\ remote.tips[b] \in Nat
                                /\ remote.tips[b] # 0 /\ (symref => b \in since.heads)
                                     => Current(b, remote.tips[b])
<1>1. remote \in Remotes /\ moves \in Nat /\ remote.tips[remote.head] # 0
      /\ \A b \in Branches : remote.tips[b] <= moves + 1
  BY DEF MirrorInv, Typed, RemoteTyped
<1>2. remote.head \in Branches /\ \A b \in Branches : remote.tips[b] \in Nat
  BY <1>1 DEF Remotes
<1>3. SinceInv /\ u \in AtWork
  BY DEF MirrorInv, CurrentInv, AtWork
<1>4. QED
  BY <1>1, <1>2, <1>3 DEF SinceInv

LEMMA ResolveKept ==
  ASSUME MirrorInv, NEW u \in Users, ResolveRemoteHead(u)
  PROVE  MirrorInv'
<1>h. /\ uat \in [Users -> Places] /\ want \in [Users -> Wants] /\ got \in [Users -> Results]
      /\ uat[u] = "ls" /\ got[u] = NoResult /\ want[u] \in Wants
  BY UserHand DEF MirrorInv, Typed, UsersTyped, ResolveRemoteHead
<1>d. since' = since /\ UNCHANGED setting /\ disturbed' = disturbed /\ disk' = disk /\ disk \in Disks
  BY DEF ResolveRemoteHead, MirrorInv, Typed, Disks
<1>r. /\ remote.head \in Branches /\ remote.tips[remote.head] \in 1..moves + 1 /\ moves \in Nat
      /\ remote.head \in since.heads /\ remote.head # NoBranch
      /\ Current(remote.head, remote.tips[remote.head])
  BY <1>h, AtWorkKnows, MirrorAssumption
<1> DEFINE b == IF symref THEN remote.head ELSE IF HeadOid(disk) # 0 THEN disk.head ELSE NoBranch
           n == remote.tips[remote.head]
<1>1. b \in Branches \cup {NoBranch} /\ n \in Nat /\ (~symref => b = OwnHead)
  <2>1. HeadOid(disk) # 0 => disk.head \in Branches
    BY DiskFacts DEF MirrorInv
  <2>2. QED
    BY <1>r, <2>1 DEF OwnHead
<1> HIDE DEF b, n
<1>2. PICK m \in Wants, g \in Results :
        m = [want[u] EXCEPT !.branch = b, !.oid = n] /\ g = NoResult
  BY <1>h, <1>1 DEF Wants
<1>3. m.branch = b /\ m.oid = n /\ m.fresh = want[u].fresh
  BY <1>h, <1>2 DEF Wants
<1>4. Steps(u, "fetch", m, g) /\ "fetch" \in Places
  BY <1>h, <1>2 DEF ResolveRemoteHead, Go, Steps, Places, b, n
<1>5. Holds("fetch", m, g)
  BY <1>r, <1>2, <1>3 DEF Holds, n
<1>6. Relies("fetch", m, g)'
  <2>1. symref => b = remote.head
    BY DEF b
  <2>2. Current(b, n)
    BY <1>r, <2>1 DEF Current, n
  <2>3. symref' = symref /\ since' = since
    BY <1>d DEF setting
  <2>4. QED
    BY <1>r, <1>2, <1>3, <2>1, <2>2, <2>3 DEF Relies, Current
<1>7. DiskSafe
  BY <1>d, SameDiskIsSafe DEF setting
<1>8. ~symref /\ ~AllCurrent' => m.branch = OwnHead'
  BY <1>1, <1>3, <1>d DEF OwnHead
<1>9. u \notin disturbed' => Finds("fetch", m, g)'
  <2>1. SUFFICES ASSUME u \notin disturbed PROVE Finds("fetch", m, g)'
    BY <1>d
  <2>2. Opens(disk) /\ (want[u].fresh => disk.kind = "good" /\ disk.refs = NoRefs)
    BY <1>h, <2>1, Knows DEF Finds
  <2>3. want[u].fresh => b = NoBranch \/ remote.tips[b] # 0
    <3>1. CASE symref
      BY <1>r, <3>1 DEF b
    <3>2. CASE ~symref
      <4>1. want[u].fresh => HeadOid(disk) = 0
        BY <2>2, DiskFacts DEF MirrorInv, NoRefs, HeadOid
      <4>2. QED
        BY <3>2, <4>1 DEF b
    <3>3. QED
      BY <3>1, <3>2
  <2>4. disk' = disk /\ remote' = remote
    BY <1>d DEF setting
  <2>5. m.oid = remote'.tips[remote'.head]
    BY <1>3, <2>4 DEF n
  <2>6. QED
    BY <1>2, <1>3, <2>2, <2>3, <2>4, <2>5, MirrorAssumption DEF Finds, Opens
<1>10. QED
  BY <1>h, <1>d, <1>4, <1>5, <1>6, <1>7, <1>8, <1>9, InvKept

(* A fetch that finds nothing to do.                                         *)
LEMMA HitKept ==
  ASSUME MirrorInv, NEW u \in Users, FetchMirror(u), Hit(u)
  PROVE  MirrorInv'
<1>h. /\ uat \in [Users -> Places] /\ want \in [Users -> Wants] /\ got \in [Users -> Results]
      /\ uat[u] = "fetch" /\ got[u] = NoResult /\ want[u] \in Wants
      /\ Holds("fetch", want[u], got[u]) /\ Relies("fetch", want[u], got[u])
  BY UserHand, Knows DEF MirrorInv, Typed, UsersTyped, FetchMirror
<1>d. since' = since /\ UNCHANGED setting /\ disturbed' = disturbed /\ disk' = disk /\ disk \in Disks
  BY DEF FetchMirror, MirrorInv, Typed, Disks
<1>1. PICK m \in Wants, g \in Results : m = want[u] /\ g = NoResult
  BY <1>h
<1>2. Steps(u, "setHead", m, g) /\ "setHead" \in Places
  BY <1>h, <1>1 DEF FetchMirror, Go, Steps, Places
<1>3. Holds("setHead", m, g)
  BY <1>h, <1>1 DEF Holds
<1>4. m.oid # 0 /\ m.branch \in Branches \cup {NoBranch}
  BY <1>h, <1>1, <1>3 DEF Holds, MirrorInv, Typed, RemoteTyped, Wants
<1>5. m.oid = IF m.branch = NoBranch THEN HeadOid(disk) ELSE RefOid(disk, m.branch)
  BY <1>1 DEF Hit
<1>6. DiskSafe
  BY <1>d, SameDiskIsSafe DEF setting
<1>7. m.branch = NoBranch => AllCurrent
  <2>1. SUFFICES ASSUME m.branch = NoBranch, ~AllCurrent PROVE FALSE
    OBVIOUS
  <2>2. ~symref
    BY <1>h, <1>1, <2>1 DEF Relies
  <2>3. OwnHead = NoBranch
    BY <1>h, <1>1, <2>1, <2>2, Knows
  <2>4. HeadOid(disk) # 0 /\ disk.head \in Branches
    BY <1>4, <1>5, <2>1, DiskFacts DEF MirrorInv
  <2>5. QED
    BY <2>3, <2>4, MirrorAssumption DEF OwnHead
<1>8. Relies("setHead", m, g)
  <2>1. m.branch # NoBranch => RefCurrent(m.branch)
    BY <1>h, <1>1, <1>5 DEF Relies, RefCurrent
  <2>2. QED
    BY <1>h, <1>1, <1>7, <2>1 DEF Relies
<1>9. Relies("setHead", m, g)'
  BY <1>d, <1>8 DEF Relies, AllCurrent, RefCurrent, Current, setting
<1>10. ~symref /\ ~AllCurrent' => m.branch = OwnHead'
  BY <1>h, <1>1, <1>d, Knows DEF AllCurrent, RefCurrent, Current, OwnHead, setting
<1>11. u \notin disturbed' => Finds("setHead", m, g)'
  <2>1. SUFFICES ASSUME u \notin disturbed PROVE Finds("setHead", m, g)
    BY <1>d DEF Finds, setting, Opens, HeadOid, RefOid, NoRefs
  <2>2. Opens(disk)
    BY <1>h, <2>1, Knows DEF Finds
  <2>3. disk.head \in Branches /\ \A x \in Branches : RefOid(disk, x) = disk.refs[x]
    BY <2>2, DiskFacts DEF MirrorInv
  <2>4. CASE m.branch = NoBranch
    <3>1. disk.refs[disk.head] # 0
      BY <1>4, <1>5, <2>3, <2>4 DEF HeadOid
    <3>2. QED
      BY <1>1, <2>2, <2>3, <2>4, <3>1, MirrorAssumption DEF Finds
  <2>5. CASE m.branch # NoBranch
    <3>1. disk.refs[m.branch] # 0
      BY <1>4, <1>5, <2>3, <2>5
    <3>2. QED
      BY <1>1, <2>2, <2>5, <3>1, MirrorAssumption DEF Finds
  <2>6. QED
    BY <2>4, <2>5
<1>12. QED
  BY <1>h, <1>d, <1>2, <1>3, <1>6, <1>9, <1>10, <1>11, InvKept

(* A fetch of one branch, or of all.                                         *)
LEMMA FetchKept ==
  ASSUME MirrorInv, NEW u \in Users, FetchMirror(u), ~Hit(u)
  PROVE  MirrorInv'
<1>h. /\ uat \in [Users -> Places] /\ want \in [Users -> Wants] /\ got \in [Users -> Results]
      /\ uat[u] = "fetch" /\ got[u] = NoResult /\ want[u] \in Wants
      /\ Holds("fetch", want[u], got[u]) /\ Relies("fetch", want[u], got[u])
  BY UserHand, Knows DEF MirrorInv, Typed, UsersTyped, FetchMirror
<1>d. since' = since /\ UNCHANGED setting /\ disturbed' = disturbed /\ disk \in Disks
  BY DEF FetchMirror, MirrorInv, Typed, Disks
<1>r. /\ remote.head \in Branches /\ remote.tips[remote.head] # 0 /\ remote \in Remotes
      /\ \A b \in Branches : /\ remote.tips[b] \in Nat
                             /\ remote.tips[b] # 0 /\ (symref => b \in since.heads)
                                  => Current(b, remote.tips[b])
  BY <1>h, AtWorkKnows
<1>1. PICK m \in Wants, g \in Results : m = want[u] /\ g = NoResult
  BY <1>h
<1>2. m.branch \in Branches \cup {NoBranch} /\ Relies("fetch", m, g)
      /\ (symref => m.branch \in Branches /\ m.branch \in since.heads)
  BY <1>h, <1>1 DEF Wants, Relies
<1>3. CASE Fails(u) /\ disk' = disk
           /\ ~(disk.kind = "good" /\ (m.branch = NoBranch \/ remote.tips[m.branch] # 0))
  <2>1. u \notin disturbed => ~want[u].fresh /\ disk.kind # "none"
    BY <1>h, <1>1, <1>3, Knows DEF Finds, Opens
  <2>2. DiskSafe
    BY <1>d, <1>3, SameDiskIsSafe DEF setting
  <2>3. QED
    BY <1>h, <1>d, <1>3, <2>1, <2>2, FailsKept
<1>4. ASSUME disk.kind = "good", NEW refs, disk' = [disk EXCEPT !.refs = refs],
             Go(u, "setHead"), want' = want, got' = got,
             refs = IF m.branch = NoBranch THEN remote.tips
                    ELSE [disk.refs EXCEPT ![m.branch] = remote.tips[m.branch]],
             m.branch = NoBranch \/ remote.tips[m.branch] # 0
      PROVE  MirrorInv'
  <2>1. Steps(u, "setHead", m, g) /\ "setHead" \in Places
    BY <1>h, <1>1, <1>4 DEF Go, Steps, Places
  <2>2. Holds("setHead", m, g)
    BY <1>h, <1>1 DEF Holds
  <2>3. disk \in Repos /\ disk.head \in Branches /\ \A b \in Branches : RefOid(disk, b) = disk.refs[b]
    BY <1>4, DiskFacts DEF MirrorInv, Opens
  <2>4. refs \in [Branches -> Nat]
    BY <1>2, <1>4, <1>r, <2>3 DEF Remotes, Repos
  <2>5. disk' \in Repos /\ disk'.refs = refs /\ disk'.head = disk.head /\ Opens(disk')
        /\ disk'.kind = "good"
    BY <1>4, <2>3, <2>4 DEF Repos, Opens
  <2>6. \A b \in Branches : RefOid(disk', b) = refs[b]
    BY <2>5, MirrorAssumption DEF RefOid
  <2>7. symref' = symref /\ since' = since
    BY <1>d DEF setting
  <2>8. ASSUME NEW b \in Branches,
               \/ refs[b] = remote.tips[b] /\ (symref => b \in since.heads)
               \/ RefCurrent(b) /\ refs[b] = disk.refs[b]
        PROVE  RefCurrent(b)'
    BY <1>r, <2>3, <2>6, <2>7, <2>8 DEF RefCurrent, Current
  <2>9. CASE m.branch = NoBranch
    <3>1. ~symref
      BY <1>2, <2>9, MirrorAssumption
    <3>2. AllCurrent'
      BY <1>4, <2>8, <2>9, <3>1 DEF AllCurrent
    <3>3. RefCurrent(disk.head)'
      BY <2>3, <2>5, <3>2 DEF AllCurrent
    <3>4. DiskSafe
      BY <3>2, <3>3 DEF DiskSafe, AllCurrent
    <3>5. Relies("setHead", m, g)'
      BY <1>1, <2>7, <2>9, <3>1, <3>2 DEF Relies
    <3>6. Finds("setHead", m, g)'
      BY <1>1, <1>4, <1>r, <2>5, <2>9, MirrorAssumption DEF Finds
    <3>7. QED
      BY <1>h, <1>d, <2>1, <2>2, <2>5, <3>2, <3>4, <3>5, <3>6, InvKept DEF Disks
  <2>10. CASE m.branch # NoBranch
    <3>1. m.branch \in Branches /\ refs[m.branch] = remote.tips[m.branch] /\ refs[m.branch] # 0
          /\ \A b \in Branches \ {m.branch} : refs[b] = disk.refs[b]
      BY <1>2, <1>4, <2>3, <2>10 DEF Repos
    <3>2. RefCurrent(m.branch)'
      BY <1>2, <2>8, <3>1
    <3>3. \A b \in Branches : RefCurrent(b) => RefCurrent(b)'
      BY <2>8, <3>1, <3>2
    <3>4. ~symref /\ ~AllCurrent' => ~AllCurrent /\ OwnHead' = m.branch /\ OwnHead = m.branch
      <4>1. SUFFICES ASSUME ~symref, ~AllCurrent'
                     PROVE  ~AllCurrent /\ OwnHead' = m.branch /\ OwnHead = m.branch
        OBVIOUS
      <4>2. ~AllCurrent
        BY <3>3, <4>1 DEF AllCurrent
      <4>3. m.branch = OwnHead
        BY <1>h, <1>1, <4>1, <4>2, Knows
      <4>4. m.branch = disk'.head
        BY <2>5, <2>10, <4>3 DEF OwnHead
      <4>5. HeadOid(disk') # 0
        BY <2>6, <3>1, <4>4 DEF HeadOid
      <4>6. QED
        BY <4>2, <4>3, <4>4, <4>5 DEF OwnHead
    <3>5. DiskSafe
      BY <2>3, <2>5, <3>3, <3>4 DEF DiskSafe
    <3>6. Relies("setHead", m, g)'
      BY <1>1, <1>2, <2>7, <2>10, <3>2 DEF Relies
    <3>7. Finds("setHead", m, g)'
      BY <1>1, <2>5, <2>10, <3>1, MirrorAssumption DEF Finds
    <3>8. QED
      BY <1>h, <1>d, <2>1, <2>2, <2>5, <3>4, <3>5, <3>6, <3>7, InvKept DEF Disks
  <2>11. QED
    BY <2>9, <2>10
<1>5. CASE /\ disk.kind = "good" /\ (m.branch = NoBranch \/ remote.tips[m.branch] # 0)
           /\ disk' = [disk EXCEPT !.refs = IF m.branch = NoBranch THEN remote.tips
                                      ELSE [@ EXCEPT ![m.branch] = remote.tips[m.branch]]]
           /\ Go(u, "setHead") /\ want' = want /\ got' = got
  <2>1. PICK refs : refs = IF m.branch = NoBranch THEN remote.tips
                           ELSE [disk.refs EXCEPT ![m.branch] = remote.tips[m.branch]]
    OBVIOUS
  <2>2. QED
    BY <1>4, <1>5, <2>1
<1>6. QED
  BY <1>1, <1>3, <1>5 DEF FetchMirror

LEMMA CommandKept ==
  ASSUME MirrorInv, NEW u \in Users, CommandFails(u)
  PROVE  MirrorInv'
<1>1. /\ uat[u] \in {"open", "init", "ls", "fetch", "setHead"} /\ Fails(u)
      /\ UNCHANGED setting /\ since' = since /\ disturbed' = disturbed \cup {u}
  BY DEF CommandFails, Trouble
<1>2. DiskSafe /\ disk' \in Disks
  <2>1. CASE disk' = disk
    <3>1. DiskSafe
      BY <1>1, <2>1, SameDiskIsSafe DEF setting
    <3>2. QED
      BY <2>1, <3>1 DEF MirrorInv, Typed, Disks
  <2>2. CASE disk.kind = "good" /\ disk' = [disk EXCEPT !.kind = "locked"]
    BY <1>1, <2>2, LockedDiskIsSafe DEF MirrorInv, setting, Disks
  <2>3. QED
    BY <2>1, <2>2 DEF CommandFails
<1>3. QED
  BY <1>1, <1>2, FailsKept

LEMMA SetHeadKept ==
  ASSUME MirrorInv, NEW u \in Users, UpdateCachedHead(u)
  PROVE  MirrorInv'
<1>h. /\ uat \in [Users -> Places] /\ want \in [Users -> Wants] /\ got \in [Users -> Results]
      /\ uat[u] = "setHead" /\ got[u] = NoResult /\ want[u] \in Wants
      /\ Relies("setHead", want[u], got[u])
  BY UserHand, Knows DEF MirrorInv, Typed, UsersTyped, UpdateCachedHead
<1>d. since' = since /\ UNCHANGED setting /\ disturbed' = disturbed /\ disk \in Disks
      /\ symref' = symref
  BY DEF UpdateCachedHead, MirrorInv, Typed, Disks, setting
<1>1. PICK m \in Wants, g \in Results : m = Nothing /\ g = NoResult
  BY <1>h, NothingWanted
<1> DEFINE b == want[u].branch
<1>2. b \in Branches \cup {NoBranch}
  BY <1>h DEF Wants
<1>3. ASSUME Computes(u), got' = got, DiskSafe, disk' \in Disks,
             RefCurrent(disk.head)', u \notin disturbed => HeadOid(disk') # 0
      PROVE  MirrorInv'
  <2>1. Steps(u, "compute", m, g) /\ "compute" \in Places
    BY <1>h, <1>1, <1>3 DEF Computes, Go, Steps, Places
  <2>2. Holds("compute", m, g)
    BY <1>1 DEF Holds
  <2>3. Relies("compute", m, g)'
    BY <1>1, <1>3 DEF Relies
  <2>4. u \notin disturbed' => Finds("compute", m, g)'
    BY <1>1, <1>3, <1>d, MirrorAssumption DEF Finds
  <2>5. QED
    BY <1>h, <1>d, <1>3, <2>1, <2>2, <2>3, <2>4, InvKept
<1>4. ASSUME Opens(disk), Computes(u), got' = got, NEW x \in Branches,
             disk' = [disk EXCEPT !.head = x],
             b = x \/ (b = NoBranch /\ disk.refs[x] # 0)
      PROVE  MirrorInv'
  <2>1. disk \in Repos /\ \A y \in Branches : RefOid(disk, y) = disk.refs[y]
    BY <1>4, DiskFacts DEF MirrorInv
  <2>2. disk' \in Repos /\ disk'.head = x /\ disk'.refs = disk.refs /\ Opens(disk')
    BY <1>4, <2>1 DEF Repos, Opens
  <2>3. \A y : RefOid(disk', y) = RefOid(disk, y)
    BY <1>4, <2>2 DEF RefOid
  <2>4. \A y : RefCurrent(y)' <=> RefCurrent(y)
    BY <1>d, <2>3 DEF RefCurrent, Current
  <2>5. AllCurrent' <=> AllCurrent
    BY <2>4 DEF AllCurrent
  <2>6. RefCurrent(x)
    BY <1>h, <1>4, MirrorAssumption DEF Relies, AllCurrent
  <2>7. RefCurrent(disk.head)'
    BY <2>2, <2>4, <2>6
  <2>8. ASSUME ~symref, ~AllCurrent' PROVE OwnHead' = OwnHead
    <3>1. b # NoBranch /\ b = OwnHead
      BY <1>h, <2>5, <2>8, Knows DEF Relies
    <3>2. disk.head = x /\ b = x
      BY <1>4, <3>1 DEF OwnHead
    <3>3. HeadOid(disk') = HeadOid(disk) /\ disk'.head = disk.head
      BY <2>2, <2>3, <3>2 DEF HeadOid
    <3>4. QED
      BY <3>3 DEF OwnHead
  <2>9. DiskSafe
    BY <2>4, <2>5, <2>7, <2>8 DEF DiskSafe
  <2>10. u \notin disturbed => HeadOid(disk') # 0
    <3>1. SUFFICES ASSUME u \notin disturbed PROVE HeadOid(disk') # 0
      OBVIOUS
    <3>2. disk.refs[x] # 0
      BY <1>h, <1>4, <3>1, Knows, MirrorAssumption DEF Finds
    <3>3. QED
      BY <2>1, <2>2, <2>3, <3>2 DEF HeadOid
  <2>11. QED
    BY <1>3, <1>4, <2>2, <2>7, <2>9, <2>10 DEF Disks
<1>5. CASE Opens(disk) /\ b = NoBranch /\ {x \in Branches : disk.refs[x] # 0} = {}
           /\ disk' = disk /\ Computes(u) /\ got' = got
  <2>1. DiskSafe
    BY <1>d, <1>5, SameDiskIsSafe
  <2>2. u \in disturbed
    BY <1>h, <1>5, Knows DEF Finds
  <2>3. HeadOid(disk) = 0
    BY <1>5, DiskFacts DEF MirrorInv, HeadOid
  <2>4. RefCurrent(disk.head)'
    BY <1>5, <2>3 DEF RefCurrent, HeadOid
  <2>5. QED
    BY <1>3, <1>5, <1>d, <2>1, <2>2, <2>4
<1>6. CASE ~Opens(disk)
  <2>1. u \in disturbed
    BY <1>h, <1>6, Knows DEF Finds
  <2>2. CASE Fails(u) /\ disk' = disk
    <3>1. DiskSafe
      BY <1>d, <2>2, SameDiskIsSafe
    <3>2. QED
      BY <1>h, <1>d, <2>1, <2>2, <3>1, FailsKept
  <2>3. CASE disk' = Broken /\ Computes(u) /\ got' = got
    <3>1. DiskSafe /\ RefCurrent(disk.head)' /\ disk' \in Disks
      BY <2>3, EmptyDiskIsSafe DEF Disks
    <3>2. QED
      BY <1>3, <2>1, <2>3, <3>1
  <2>4. QED
    BY <1>6, <2>2, <2>3 DEF UpdateCachedHead
<1>7. CASE Opens(disk)
  <2>1. CASE b # NoBranch
    BY <1>2, <1>4, <1>7, <2>1 DEF UpdateCachedHead
  <2>2. CASE b = NoBranch
    BY <1>4, <1>5, <1>7, <2>2 DEF UpdateCachedHead
  <2>3. QED
    BY <2>1, <2>2
<1>8. QED
  BY <1>6, <1>7

LEMMA ComputeKept ==
  ASSUME MirrorInv, NEW u \in Users, ComputeMetrics(u)
  PROVE  MirrorInv'
<1>h. /\ uat \in [Users -> Places] /\ want \in [Users -> Wants] /\ got \in [Users -> Results]
      /\ uat[u] = "compute" /\ got[u] = NoResult /\ want[u] \in Wants
      /\ Relies("compute", want[u], got[u])
  BY UserHand, Knows DEF MirrorInv, Typed, UsersTyped, ComputeMetrics
<1>d. since' = since /\ UNCHANGED setting /\ disturbed' = disturbed /\ disk' = disk /\ disk \in Disks
      /\ symref' = symref
  BY DEF ComputeMetrics, MirrorInv, Typed, Disks, setting
<1>1. HeadOid(disk) # 0 => disk.head \in Branches /\ HeadOid(disk) \in Nat
  BY DiskFacts DEF MirrorInv, HeadOid
<1>2. PICK m \in Wants, g \in Results :
        m = want[u] /\ g = IF HeadOid(disk) = 0 THEN Failed ELSE <<disk.head, HeadOid(disk)>>
  BY <1>h, <1>1 DEF Results
<1>3. Steps(u, "clean", m, g) /\ "clean" \in Places
  BY <1>h, <1>2 DEF ComputeMetrics, Go, Steps, Places
<1>4. g # NoResult /\ (HeadOid(disk) # 0 => g # Failed)
  BY <1>1, <1>2, MirrorAssumption
<1>5. Holds("clean", m, g)
  BY <1>4 DEF Holds
<1>6. DiskSafe
  BY <1>d, SameDiskIsSafe
<1>7. Relies("clean", m, g)'
  <2>1. HeadOid(disk) # 0 => Current(disk.head, HeadOid(disk))
    BY <1>h DEF Relies, RefCurrent, HeadOid
  <2>2. g # Failed => g = <<disk.head, HeadOid(disk)>> /\ Current(g[1], g[2])
    BY <1>2, <2>1
  <2>3. g # Failed => Current(g[1], g[2])'
    BY <1>d, <2>2 DEF Current
  <2>4. QED
    BY <2>3 DEF Relies
<1>8. u \notin disturbed' => Finds("clean", m, g)'
  <2>1. u \notin disturbed => HeadOid(disk) # 0
    BY <1>h, Knows DEF Finds
  <2>2. QED
    BY <1>4, <1>d, <2>1 DEF Finds
<1>9. QED
  BY <1>h, <1>d, <1>3, <1>5, <1>6, <1>7, <1>8, InvKept
-----------------------------------------------------------------------------
(* Users come and go, and upstream moves.                                    *)

(* While nobody looks for anything, CurrentInv says nothing of the disk.     *)
LEMMA CurrentAtRest ==
  ASSUME UsersTyped', SinceInv', \A u \in Users : uat'[u] \in {"off", "look"}
  PROVE  CurrentInv'
<1>1. ASSUME NEW u \in Users PROVE Relies(uat[u], want[u], got[u])'
  <2>1. got'[u] = NoResult
    BY DEF UsersTyped, Holds
  <2>2. QED
    BY <2>1 DEF Relies
<1>2. QED
  BY <1>1 DEF CurrentInv

LEMMA LeavesKept ==
  ASSUME MirrorInv, NEW u \in Users, uat[u] # "off",
         uat' = [uat EXCEPT ![u] = "off"], want' = [want EXCEPT ![u] = Nothing],
         got' = [got EXCEPT ![u] = NoResult],
         since' = IF AtWork = {u} THEN [heads |-> {}, tips |-> {}] ELSE since,
         disturbed' = disturbed \ {u}, UNCHANGED setting, disk' \in Disks,
         since' = since => DiskSafe
  PROVE  MirrorInv'
<1>1. PICK m \in Wants, g \in Results : m = Nothing /\ g = NoResult
  BY NothingWanted DEF Results
<1>2. Steps(u, "off", m, g) /\ "off" \in Places
  BY <1>1 DEF Steps, Places
<1>3. Typed'
  <2>1. Holds("off", m, g)
    BY <1>1 DEF Holds
  <2>2. QED
    BY <1>2, <2>1, TypedKept DEF MirrorInv
<1>4. AloneInv'
  BY <1>2, AloneKept DEF MirrorInv
<1>5. CurrentInv'
  <2>1. CASE AtWork = {u}
    <3>1. \A v \in Users : uat'[v] = "off"
      BY <1>2, <2>1, StepFrame DEF MirrorInv, AtWork
    <3>2. SinceInv'
      BY <3>1 DEF SinceInv, AtWork
    <3>3. QED
      BY <1>3, <3>1, <3>2, CurrentAtRest DEF Typed
  <2>2. CASE AtWork # {u}
    <3>1. since' = since /\ DiskSafe /\ AtWork # {}
      BY <2>2 DEF AtWork
    <3>2. Relies("off", m, g)'
      BY <1>1 DEF Relies
    <3>3. QED
      BY <1>2, <3>1, <3>2, CurrentKept DEF MirrorInv
  <2>3. QED
    BY <2>1, <2>2
<1>6. QED
  BY <1>3, <1>4, <1>5 DEF MirrorInv

LEMMA CleanupKept ==
  ASSUME MirrorInv, NEW u \in Users, Cleanup(u)
  PROVE  MirrorInv'
<1>1. UNCHANGED setting /\ symref' = symref
  BY DEF Cleanup, Leaves, setting
<1>2. disk' \in Disks /\ (since' = since => DiskSafe)
  <2>1. CASE disk' = disk
    BY <1>1, <2>1, SameDiskIsSafe DEF MirrorInv, Typed, Disks
  <2>2. CASE disk' \in {Gone, Broken}
    BY <2>2, EmptyDiskIsSafe DEF Disks
  <2>3. QED
    BY <2>1, <2>2 DEF Cleanup
<1>3. QED
  BY <1>1, <1>2, LeavesKept DEF Cleanup, Leaves

LEMMA EndsKept ==
  ASSUME MirrorInv, NEW u \in Users, ProcessEnds(u)
  PROVE  MirrorInv'
<1>1. UNCHANGED setting /\ symref' = symref
  BY DEF ProcessEnds, setting
<1>2. disk' \in Disks /\ (since' = since => DiskSafe)
  <2>1. CASE disk' = disk
    BY <1>1, <2>1, SameDiskIsSafe DEF MirrorInv, Typed, Disks
  <2>2. CASE disk' = Broken
    BY <2>2, EmptyDiskIsSafe DEF Disks
  <2>3. CASE disk.kind = "good" /\ disk' = [disk EXCEPT !.kind = "locked"]
    <3>1. disk' \in Disks
      BY <2>3, DiskFacts DEF MirrorInv, Opens, Repos, Disks
    <3>2. QED
      BY <1>1, <2>3, <3>1, LockedDiskIsSafe DEF MirrorInv
  <2>4. QED
    BY <2>1, <2>2, <2>3 DEF ProcessEnds
<1>3. QED
  BY <1>1, <1>2, LeavesKept DEF ProcessEnds

LEMMA StartKept ==
  ASSUME MirrorInv, NEW u \in Users, Start(u)
  PROVE  MirrorInv'
<1>h. /\ uat \in [Users -> Places] /\ want \in [Users -> Wants] /\ got \in [Users -> Results]
      /\ uat[u] = "off" /\ got[u] = NoResult /\ want[u] \in Wants
  BY UserHand DEF MirrorInv, Typed, UsersTyped, Start
<1>d. UNCHANGED setting /\ disk' = disk /\ disk \in Disks
  BY DEF Start, MirrorInv, Typed, Disks
<1>1. PICK m \in Wants, g \in Results : m = want[u] /\ g = NoResult
  BY <1>h
<1>2. Steps(u, "look", m, g) /\ "look" \in Places
  BY <1>h, <1>1 DEF Start, Go, Steps, Places
<1>3. AtWork \cap peers[u] = {} /\ AtWork' = AtWork \cup {u}
  BY <1>2, StepFrame DEF Start, MirrorInv, AtWork
<1>4. Typed'
  <2>1. Holds("look", m, g)
    BY <1>1 DEF Holds
  <2>2. QED
    BY <1>2, <1>3, <1>d, <2>1, TypedKept DEF MirrorInv
<1>5. CurrentInv'
  <2>1. CASE AtWork = {}
    <3>1. \A v \in Users : uat'[v] \in {"off", "look"}
      BY <1>2, <2>1, StepFrame DEF MirrorInv, AtWork
    <3>2. since' = Since(remote, {remote.head}) /\ remote' = remote /\ symref' = symref
      BY <1>d, <2>1 DEF Start, setting
    <3>3. \A b \in Branches : remote.tips[b] # 0 /\ (symref => b \in since'.heads)
                                => <<b, remote.tips[b]>> \in since'.tips
      BY <3>2 DEF Since
    <3>4. remote.head \in since'.heads
      BY <3>2 DEF Since
    <3>5. SinceInv'
      BY <3>2, <3>3, <3>4 DEF SinceInv, Current
    <3>6. QED
      BY <1>4, <3>1, <3>5, CurrentAtRest DEF Typed
  <2>2. CASE AtWork # {}
    <3>1. since' = since
      BY <2>2 DEF Start
    <3>2. DiskSafe
      BY <1>d, <3>1, SameDiskIsSafe DEF setting
    <3>3. Relies("look", m, g)'
      BY <1>1 DEF Relies
    <3>4. QED
      BY <1>2, <1>d, <2>2, <3>1, <3>2, <3>3, CurrentKept DEF MirrorInv
  <2>3. QED
    BY <2>1, <2>2
<1>6. AloneInv'
  <2>1. CASE AtWork \ peers[u] = {}
    <3>1. AtWork' = {u}
      BY <1>3, <2>1
    <3>2. Finds("look", m, g)'
      BY <1>1, MirrorAssumption DEF Finds
    <3>3. uat'[u] = "look" /\ want'[u] = m /\ got'[u] = g
      BY <1>2, StepFrame DEF MirrorInv
    <3>4. \A v \in Users : uat'[v] # "off" => v = u
      BY <3>1 DEF AtWork
    <3>5. QED
      BY <3>1, <3>2, <3>3, <3>4 DEF AloneInv
  <2>2. CASE AtWork \ peers[u] # {}
    <3>1. AtWork' \subseteq disturbed'
      BY <1>3, <2>2 DEF Start
    <3>2. QED
      BY <3>1 DEF AloneInv, AtWork
  <2>3. QED
    BY <2>1, <2>2
<1>7. QED
  BY <1>4, <1>5, <1>6 DEF MirrorInv

LEMMA UpstreamKept ==
  ASSUME MirrorInv, NEW r \in Remotes, Moves(r),
         r.tips[r.head] # 0, \A b \in Branches : r.tips[b] <= moves + 2
  PROVE  MirrorInv'
<1>d. /\ UNCHANGED <<peers, symref, retain, disk, uat, want, got>>
      /\ remote' = r /\ moves' = moves + 1 /\ moves \in Nat /\ disturbed' = disturbed \cup AtWork
  BY DEF Moves, MirrorInv, Typed, RemoteTyped
<1>1. Typed'
  <2>1. UsersTyped'
    <3>1. ASSUME NEW u \in Users PROVE Holds(uat[u], want[u], got[u])'
      BY <1>d, UserHand DEF MirrorInv, Holds
    <3>2. QED
      BY <1>d, <3>1 DEF UsersTyped, MirrorInv, Typed
  <2>2. RemoteTyped'
    BY <1>d DEF RemoteTyped
  <2>3. ProcessesTyped'
    BY <1>d DEF MirrorInv, Typed, ProcessesTyped, AtWork
  <2>4. QED
    BY <1>d, <2>1, <2>2, <2>3 DEF MirrorInv, Typed
<1>2. CurrentInv'
  <2>1. CASE AtWork = {}
    <3>1. \A u \in Users : uat'[u] = "off"
      BY <1>d, <2>1 DEF AtWork
    <3>2. SinceInv'
      BY <3>1 DEF SinceInv, AtWork
    <3>3. QED
      BY <1>1, <3>1, <3>2, CurrentAtRest DEF Typed
  <2>2. CASE AtWork # {}
    <3> DEFINE new == Since(r, since.heads \cup {r.head})
    <3>1. since' = [new EXCEPT !.tips = @ \cup since.tips]
      BY <2>2 DEF Moves
    <3>2. since'.heads = since.heads \cup {r.head} /\ since'.tips = new.tips \cup since.tips
      BY <3>1 DEF Since
    <3>3. \A b \in Branches : r.tips[b] # 0 /\ (symref => b \in since'.heads)
                                => <<b, r.tips[b]>> \in since'.tips
      BY <3>2 DEF Since
    <3>4. SinceInv'
      BY <1>d, <3>2, <3>3 DEF SinceInv, Current
    <3>5. \A b, n : Current(b, n) => Current(b, n)'
      BY <1>d, <3>2 DEF Current
    <3>6. (\A b : RefCurrent(b) => RefCurrent(b)') /\ (AllCurrent => AllCurrent') /\ OwnHead' = OwnHead
      BY <1>d, <3>5 DEF RefCurrent, AllCurrent, OwnHead
    <3>7. ASSUME NEW u \in Users PROVE Relies(uat[u], want[u], got[u])'
      <4>1. Relies(uat[u], want[u], got[u])
        BY Knows
      <4>2. disk'.head = disk.head
        BY <1>d
      <4>3. QED
        BY <1>d, <3>2, <3>5, <3>6, <4>1, <4>2 DEF Relies
    <3>8. QED
      BY <1>d, <3>4, <3>6, <3>7 DEF CurrentInv, MirrorInv
  <2>3. QED
    BY <2>1, <2>2
<1>3. AloneInv'
  BY <1>d DEF AloneInv, AtWork
<1>4. QED
  BY <1>1, <1>2, <1>3 DEF MirrorInv

LEMMA PushKept ==
  ASSUME MirrorInv, NEW b \in Branches, Push(b) PROVE MirrorInv'
<1> DEFINE r == [remote EXCEPT !.tips[b] = moves + 2]
<1>1. /\ remote \in Remotes /\ moves \in Nat /\ remote.tips[remote.head] # 0
      /\ \A x \in Branches : remote.tips[x] <= moves + 1 /\ remote.tips[x] \in Nat
  BY DEF MirrorInv, Typed, RemoteTyped, Remotes
<1>2. /\ r \in Remotes /\ r.head = remote.head
      /\ \A x \in Branches : r.tips[x] = IF x = b THEN moves + 2 ELSE remote.tips[x]
  BY <1>1 DEF Remotes
<1>3. Moves(r)
  BY DEF Push
<1> HIDE DEF r
<1>4. r.tips[r.head] # 0 /\ \A x \in Branches : r.tips[x] <= moves + 2
  BY <1>1, <1>2 DEF Remotes
<1>5. PICK q \in Remotes : q = r
  BY <1>2
<1>6. QED
  BY <1>3, <1>4, <1>5, UpstreamKept

LEMMA RenameKept ==
  ASSUME MirrorInv, NEW b \in Branches, NEW kept \in BOOLEAN, Rename(b, kept) PROVE MirrorInv'
<1> DEFINE old == remote.head
           tip == remote.tips[old]
           r == [head |-> b,
                 tips |-> [remote.tips EXCEPT ![b] = IF kept /\ @ # 0 THEN @ ELSE tip,
                                              ![old] = IF kept THEN tip ELSE 0]]
<1>1. /\ remote \in Remotes /\ moves \in Nat /\ tip # 0 /\ old \in Branches /\ tip \in Nat
      /\ \A x \in Branches : remote.tips[x] <= moves + 1 /\ remote.tips[x] \in Nat
  BY DEF MirrorInv, Typed, RemoteTyped, Remotes
<1>2. Moves(r) /\ b # old
  BY DEF Rename
<1>3. /\ r \in Remotes /\ r.head = b
      /\ \A x \in Branches : r.tips[x] = IF x = old THEN IF kept THEN tip ELSE 0
                                         ELSE IF x # b THEN remote.tips[x]
                                         ELSE IF kept /\ remote.tips[x] # 0 THEN remote.tips[x]
                                         ELSE tip
  BY <1>1, <1>2 DEF Remotes
<1>4. tip <= moves + 1
  BY <1>1
<1> HIDE DEF r, old, tip
<1>5. r.tips[r.head] # 0
  BY <1>1, <1>2, <1>3
<1>6. \A x \in Branches : r.tips[x] <= moves + 2
  BY <1>1, <1>3, <1>4
<1>7. PICK q \in Remotes : q = r
  BY <1>3
<1>8. QED
  BY <1>2, <1>5, <1>6, <1>7, UpstreamKept
-----------------------------------------------------------------------------
LEMMA InitMirrorInv == MirrorInit => MirrorInv
<1> SUFFICES ASSUME MirrorInit PROVE MirrorInv
  OBVIOUS
<1> USE DEF MirrorInit
<1>1. Nothing \in Wants /\ NoResult \in Results /\ "off" \in Places
  BY NothingWanted DEF Results, Places
<1>2. RemoteTyped
  BY DEF RemoteTyped, Remotes
<1>3. UsersTyped
  BY <1>1 DEF UsersTyped, Holds
<1>4. ProcessesTyped
  BY DEF ProcessesTyped, AtWork
<1>5. disk \in {Gone, Broken} \cup Repos
  BY DEF Repo, Repos
<1>6. Typed
  BY <1>2, <1>3, <1>4, <1>5 DEF Typed
<1>7. CurrentInv
  BY DEF CurrentInv, SinceInv, Relies, AtWork
<1>8. AloneInv
  BY DEF AloneInv
<1>9. QED
  BY <1>6, <1>7, <1>8 DEF MirrorInv

THEOREM NextMirrorInv == MirrorInv /\ [MirrorNext]_mirrorVars => MirrorInv'
<1> SUFFICES ASSUME MirrorInv, [MirrorNext]_mirrorVars PROVE MirrorInv'
  OBVIOUS
<1>1. CASE UNCHANGED mirrorVars
  <2>1. Typed'
    BY <1>1 DEF mirrorVars, setting, MirrorInv, Typed, RemoteTyped, UsersTyped, ProcessesTyped,
                AtWork, Holds
  <2>2. CurrentInv'
    BY <1>1 DEF mirrorVars, setting, MirrorInv, CurrentInv, SinceInv, Relies, AllCurrent,
                RefCurrent, Current, OwnHead, AtWork
  <2>3. AloneInv'
    BY <1>1 DEF mirrorVars, setting, MirrorInv, AloneInv, AtWork, Finds, HeadOid, RefOid, Opens
  <2>4. QED
    BY <2>1, <2>2, <2>3 DEF MirrorInv
<1>2. ASSUME NEW b \in Branches, Push(b) \/ \E kept \in BOOLEAN : Rename(b, kept)
      PROVE  MirrorInv'
  BY <1>2, PushKept, RenameKept
<1>3. ASSUME NEW u \in Users, UserStep(u) PROVE MirrorInv'
  <2>1. CASE Start(u) \/ Look(u) \/ Open(u) \/ RemoveBroken(u)
    BY <2>1, StartKept, LookKept, OpenKept, RemoveKept
  <2>2. CASE InitBare(u) \/ ResolveRemoteHead(u) \/ FetchMirror(u) \/ CommandFails(u)
    BY <2>2, InitBareKept, ResolveKept, HitKept, FetchKept, CommandKept
  <2>3. CASE UpdateCachedHead(u) \/ ComputeMetrics(u) \/ Cleanup(u) \/ ProcessEnds(u)
    BY <2>3, SetHeadKept, ComputeKept, CleanupKept, EndsKept
  <2>4. QED
    BY <1>3, <2>1, <2>2, <2>3 DEF UserStep
<1>4. QED
  BY <1>1, <1>2, <1>3 DEF MirrorNext

LEMMA MirrorInvariant == MirrorSpec => []MirrorInv
BY InitMirrorInv, NextMirrorInv, PTL DEF MirrorSpec

(* The mirror, the users and the processes are what MirrorTypeOK says, and   *)
(* at most one user of each process is at work (cached_mirror_lock).         *)
THEOREM MirrorTypeCorrect == MirrorSpec => []MirrorTypeOK
<1>1. MirrorInv => MirrorTypeOK
  <2> SUFFICES ASSUME MirrorInv PROVE MirrorTypeOK
    OBVIOUS
  <2>1. ASSUME NEW u \in Users PROVE Cardinality(AtWork \cap peers[u]) <= 1
    <3> DEFINE S == AtWork \cap peers[u]
    <3>1. \A a, b \in S : a = b
      BY DEF MirrorInv, Typed, ProcessesTyped, AtWork
    <3>2. S = {} \/ \E a : S = {a}
      BY <3>1
    <3>3. Cardinality({}) = 0
      BY FS_EmptySet
    <3>4. \A a : Cardinality({a}) = 1
      BY FS_Singleton
    <3> HIDE DEF S
    <3>5. Cardinality(S) \in {0, 1}
      BY <3>2, <3>3, <3>4
    <3>6. QED
      BY <3>5 DEF S
  <2>2. remote.tips[remote.head] # 0 /\ (~Opens(disk) => disk \in {Gone, Broken})
    BY DiskFacts DEF MirrorInv, Typed, RemoteTyped
  <2>3. QED
    BY <2>1, <2>2, UserHand DEF MirrorTypeOK, MirrorInv, Holds
<1>2. QED
  BY <1>1, MirrorInvariant, PTL

(* However many users and processes share the mirror, and whatever they and  *)
(* crashes leave on disk, metrics are of a commit that was a tip while       *)
(* somebody was at work (MetricsCurrent).                                    *)
THEOREM MetricsAreCurrent == MirrorSpec => []MetricsCurrent
<1>1. MirrorInv => MetricsCurrent
  <2> SUFFICES ASSUME MirrorInv, NEW u \in Users, got[u] \notin {NoResult, Failed}
               PROVE  /\ \E t \in since.tips : t[2] = got[u][2]
                      /\ symref => got[u] \in since.tips
    BY DEF MetricsCurrent
  <2>1. got[u] \in Branches \X Nat
    BY UserHand DEF MirrorInv, Results
  <2>2. Current(got[u][1], got[u][2]) /\ got[u] = <<got[u][1], got[u][2]>>
    BY <2>1, Knows DEF Relies
  <2>3. QED
    BY <2>2 DEF Current
<1>2. QED
  BY <1>1, MirrorInvariant, PTL

(* A user whom no other process, no move of upstream and no failing command  *)
(* disturbs gets its metrics, whatever was on disk (AloneSucceeds).          *)
THEOREM AloneGetsMetrics == MirrorSpec => []AloneSucceeds
<1>1. MirrorInv => AloneSucceeds
  <2> SUFFICES ASSUME MirrorInv, NEW u \in Users, u \notin disturbed PROVE got[u] # Failed
    BY DEF AloneSucceeds
  <2>1. CASE uat[u] = "off"
    BY <2>1, UserHand, MirrorAssumption DEF MirrorInv
  <2>2. CASE uat[u] # "off"
    BY <2>2, Knows DEF Finds
  <2>3. QED
    BY <2>1, <2>2
<1>2. QED
  BY <1>1, MirrorInvariant, PTL

(* Without retention nothing is left on disk once all are done, but for what *)
(* a crash has left (NothingRetained).                                       *)
THEOREM NothingStays == MirrorSpec => []NothingRetained
<1>1. MirrorInit => NothingRetained
  BY DEF MirrorInit, NothingRetained
<1>2. ASSUME MirrorInv, NothingRetained, [MirrorNext]_mirrorVars PROVE NothingRetained'
  <2> SUFFICES ASSUME AtWork' = {}, ~leftover', ~retain' PROVE disk' = Gone
    BY DEF NothingRetained
  <2>h. uat \in [Users -> Places]
    BY <1>2 DEF MirrorInv, Typed, UsersTyped
  <2>1. CASE UNCHANGED mirrorVars
    BY <1>2, <2>1 DEF mirrorVars, setting, NothingRetained, AtWork
  <2>2. ASSUME NEW r, Moves(r) PROVE disk' = Gone
    BY <1>2, <2>2 DEF Moves, NothingRetained, AtWork
  <2>3. ASSUME NEW u \in Users, uat'[u] # "off" PROVE FALSE
    BY <2>3 DEF AtWork
  <2>4. ASSUME NEW u \in Users, Cleanup(u) PROVE disk' = Gone
    <3>1. retain' = retain
      BY <2>4 DEF Cleanup, Leaves, setting
    <3>2. AtWork \subseteq {u} /\ u \in AtWork
      BY <2>h, <2>4 DEF Cleanup, Leaves, AtWork
    <3>3. QED
      BY <2>4, <3>1, <3>2 DEF Cleanup
  <2>5. ASSUME NEW u \in Users, ProcessEnds(u) PROVE disk' = Gone
    BY <2>5 DEF ProcessEnds
  <2>6. ASSUME NEW u \in Users, Start(u) \/ Look(u) \/ Open(u) \/ RemoveBroken(u) \/ InitBare(u)
        PROVE  FALSE
    BY <2>h, <2>3, <2>6 DEF Start, Look, Open, RemoveBroken, InitBare, Fails, GivesUp, Go
  <2>7. ASSUME NEW u \in Users, ResolveRemoteHead(u) \/ FetchMirror(u) \/ CommandFails(u)
               \/ UpdateCachedHead(u) \/ ComputeMetrics(u)
        PROVE  FALSE
    BY <2>h, <2>3, <2>7 DEF ResolveRemoteHead, FetchMirror, CommandFails, UpdateCachedHead,
                            ComputeMetrics, Computes, Fails, GivesUp, Go
  <2>8. QED
    BY <1>2, <2>1, <2>2, <2>4, <2>5, <2>6, <2>7 DEF MirrorNext, UserStep, Push, Rename
<1>3. QED
  BY <1>1, <1>2, MirrorInvariant, PTL DEF MirrorSpec
=============================================================================
