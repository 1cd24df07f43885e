-------------------------- MODULE LayerReportsProofs --------------------------
(***************************************************************************)
(* LayerReports for any number of pipelines, any branches and any bounds.  *)
(* Typed says what a pipeline holds at each step, Probed what the versions *)
(* it has compared were, and CrowdInv counts the openEuler-24.09 rows      *)
(* together with the pipelines about to insert one.  BehindInv is about    *)
(* the stamps of L2 commits, CoverInv about snapshots that are as new as   *)
(* the commits stored.                                                     *)
(***************************************************************************)
EXTENDS LayerReports, FiniteSetTheorems, TLAPS

OwnPhases == {"off", "sync", "spec", "put", "l2", "log", "git", "putL2", "readL1", "readL2",
              "find", "make"}
FallbackPhases == {"latest", "fetch", "specF", "putF", "again"}
MatchPhases == {"version", "match"}
Phases == OwnPhases \cup FallbackPhases \cup MatchPhases

Hands == [row : Rows, base : Rows, held : Nat, stamp : Nat, l1 : Nat, l2 : Nat, own : Nat]

(* what m holds fits the tables, at phase w *)
Fits(w, m) ==
  /\ m.row <= rows /\ m.base <= rows
  /\ w \in OwnPhases => m.base = m.row
  /\ w \in {"put", "putF"} => m.held <= Tip(m.base)
  /\ w \in {"log", "git", "putL2"} => m.held \in 1..tip.l2
  /\ w = "git" => m.stamp <= tip.l2
  /\ w \in {"find", "make"} \cup FallbackPhases \cup MatchPhases => m.l1 # 0 /\ m.l2 # 0

TablesTyped ==
  /\ tip \in [l1 : Nat \ {0}, fallback : Nat \ {0}, l2 : Nat \ {0}]
  /\ rows \in Rows
  /\ stored \in [Rows -> SUBSET Nat]
  /\ blank \in [Rows -> [version : SUBSET Nat, release : SUBSET Nat]]
  /\ \A t \in Rows : blank[t] \in [version : SUBSET stored[t], release : SUBSET stored[t]]
  /\ l1snap \in [Rows -> {NoSnapshot} \cup Nat]
  /\ \A t \in Rows : stored[t] \subseteq 1..Tip(t) /\ l1snap[t] \in {NoSnapshot} \cup 0..Tip(t)
  /\ \A t \in Rows : t > rows => stored[t] = {} /\ l1snap[t] = NoSnapshot
  /\ l2snap \in {NoSnapshot} \cup 1..tip.l2
  /\ l2rec \in [n : Nat, spec : Nat] /\ l2rec.n <= tip.l2 /\ l2rec.spec <= l2rec.n

HandsTyped ==
  /\ pc \in [Pipelines -> Phases]
  /\ mem \in [Pipelines -> Hands]
  /\ \A p \in Pipelines : Fits(pc[p], mem[p])

(* the versions a comparison is made of were compared before it *)
RightLine(m) ==
  /\ ~Newer(m.l2, m.base, m.l1)
  /\ m.base # m.row => m.row = 0 /\ Newer(m.l2, 0, m.own)

Probed(w, m) ==
  /\ w \in {"find", "make"} \cup FallbackPhases => Newer(m.l2, m.row, m.l1)
  /\ w \in {"make"} => m.row = 0
  /\ w \in FallbackPhases => (m.base # m.row => m.row = 0)
  /\ w \in MatchPhases => RightLine(m)

ProbedInv == ComparedWithRightLine /\ \A p \in Pipelines : Probed(pc[p], mem[p])

(* rows made and being made *)
Makers == {p \in Pipelines : pc[p] = "make"}
CrowdInv ==
  /\ starts \in 0..MaxStarts /\ crowd \in 0..starts
  /\ Cardinality(Working) <= crowd
  /\ rows + Cardinality(Makers) <= crowd

LayersInv == TablesTyped /\ HandsTyped /\ ProbedInv /\ CrowdInv
-----------------------------------------------------------------------------
LEMMA RowsAreNat == Rows \subseteq Nat
BY LayersAssumption DEF Rows

LEMMA HandOf ==
  ASSUME HandsTyped, NEW p \in Pipelines
  PROVE  pc[p] \in Phases /\ mem[p] \in Hands /\ Fits(pc[p], mem[p])
BY DEF HandsTyped

LEMMA TipType ==
  ASSUME TablesTyped, NEW t \in Rows
  PROVE  Tip(t) \in Nat \ {0} /\ Listing(t) \subseteq 1..Tip(t)
BY DEF TablesTyped, Tip, Listing

LEMMA InitTyped == LayersInit => TablesTyped /\ HandsTyped
<1> SUFFICES ASSUME LayersInit PROVE TablesTyped /\ HandsTyped
  OBVIOUS
<1>1. 0 \in Rows
  BY LayersAssumption DEF Rows
<1>2. TablesTyped
  BY <1>1 DEF LayersInit, TablesTyped, Tip
<1>3. Idle \in Hands
  BY <1>1 DEF Idle, Hands
<1>4. Fits("off", Idle)
  BY DEF LayersInit, Fits, Idle, OwnPhases, FallbackPhases, MatchPhases
<1>5. HandsTyped
  BY <1>3, <1>4 DEF LayersInit, HandsTyped, Phases, OwnPhases
<1>6. QED
  BY <1>2, <1>5

(* a pipeline moves on with what it holds, and the tables only grow *)
LEMMA HandMoves ==
  ASSUME TablesTyped, HandsTyped, NEW p \in Pipelines, NEW w \in Phases, NEW m \in Hands,
         pc' = [pc EXCEPT ![p] = w], mem' = [mem EXCEPT ![p] = m],
         tip' = tip, rows' \in Nat, rows' >= rows,
         Fits(w, m)'
  PROVE  HandsTyped'
<1>1. pc' \in [Pipelines -> Phases] /\ mem' \in [Pipelines -> Hands]
  BY DEF HandsTyped
<1>2. ASSUME NEW q \in Pipelines PROVE Fits(pc[q], mem[q])'
  <2>1. CASE q = p
    <3>1. pc'[q] = w /\ mem'[q] = m
      BY <2>1 DEF HandsTyped
    <3>2. QED
      BY <3>1 DEF Fits, Tip
  <2>2. CASE q # p
    <3>1. pc'[q] = pc[q] /\ mem'[q] = mem[q]
      BY <2>2 DEF HandsTyped
    <3>2. mem[q].row \in Nat /\ mem[q].base \in Nat /\ rows \in Nat
      BY RowsAreNat, HandOf DEF Hands, TablesTyped
    <3>3. Fits(pc[q], mem[q])
      BY DEF HandsTyped
    <3>4. QED
      BY <3>1, <3>2, <3>3 DEF Fits, Tip
  <2>3. QED
    BY <2>1, <2>2
<1>3. QED
  BY <1>1, <1>2 DEF HandsTyped

(* the same when the tables that a hand is measured by stay *)
LEMMA HandMovesInPlace ==
  ASSUME TablesTyped, HandsTyped, NEW p \in Pipelines, NEW w \in Phases, NEW m \in Hands,
         pc' = [pc EXCEPT ![p] = w], mem' = [mem EXCEPT ![p] = m],
         tip' = tip, rows' = rows, Fits(w, m)
  PROVE  HandsTyped'
<1>1. rows' \in Nat /\ rows' >= rows
  BY RowsAreNat DEF TablesTyped
<1>2. Fits(w, m)'
  BY DEF Fits, Tip
<1>3. QED
  BY <1>1, <1>2, HandMoves

LEMMA GotoMoves ==
  ASSUME TablesTyped, HandsTyped, NEW p \in Pipelines, NEW w \in Phases,
         Goto(p, w), mem' = mem, tip' = tip, rows' = rows, Fits(w, mem[p])
  PROVE  HandsTyped'
<1>1. PICK m \in Hands : m = mem[p]
  BY HandOf
<1>2. mem' = [mem EXCEPT ![p] = m]
  BY <1>1 DEF HandsTyped
<1>3. QED
  BY <1>1, <1>2, HandMovesInPlace DEF Goto

LEMMA IdleFits == TablesTyped => Idle \in Hands /\ Fits("off", Idle)
<1> SUFFICES ASSUME TablesTyped PROVE Idle \in Hands /\ Fits("off", Idle)
  OBVIOUS
<1>1. 0 \in Rows /\ 0 <= rows
  BY LayersAssumption DEF Rows, TablesTyped
<1>2. QED
  BY <1>1 DEF Idle, Hands, Fits, OwnPhases, FallbackPhases, MatchPhases

LEMMA QuitMoves ==
  ASSUME TablesTyped, HandsTyped, NEW p \in Pipelines, Quit(p), tip' = tip, rows' = rows
  PROVE  HandsTyped'
<1>1. "off" \in Phases
  BY DEF Phases, OwnPhases
<1>2. QED
  BY <1>1, IdleFits, HandMovesInPlace DEF Quit, Goto

(* one field of a hand changes *)
LEMMA HandChanges ==
  ASSUME HandsTyped, NEW p \in Pipelines, NEW x \in Nat
  PROVE  /\ [mem[p] EXCEPT !.held = x] \in Hands
         /\ [mem[p] EXCEPT !.stamp = x] \in Hands
         /\ [mem[p] EXCEPT !.l1 = x] \in Hands
         /\ [mem[p] EXCEPT !.l2 = x] \in Hands
         /\ x \in Rows => [mem[p] EXCEPT !.base = x] \in Hands
BY HandOf DEF Hands

LEMMA TablesKept ==
  ASSUME TablesTyped, UNCHANGED <<tip, rows, stored, blank, l1snap, l2snap, l2rec>>
  PROVE  TablesTyped'
BY DEF TablesTyped, Tip

(* A sync stores commits of the listing, and some of those that were not there *)
(* go without their version or release.                                        *)
Stores(t, new) ==
  /\ new \in SUBSET Listing(t)
  /\ \E v, r \in SUBSET (new \ stored[t]) : Store(t, new, v, r)

LEMMA StoresAll ==
  ASSUME NEW t, StoreAll(t)
  PROVE  Stores(t, Listing(t))
BY DEF StoreAll, Stores

LEMMA StoresSome ==
  ASSUME NEW t, NEW n, StoreSome(t, n)
  PROVE  Stores(t, {c \in Listing(t) : c <= n})
BY DEF StoreSome, Stores

LEMMA StoredGrows ==
  ASSUME TablesTyped, NEW t \in Rows, t <= rows, NEW new, Stores(t, new),
         UNCHANGED <<tip, rows, l1snap, l2snap, l2rec>>
  PROVE  TablesTyped'
<1>0. PICK v \in SUBSET (new \ stored[t]), r \in SUBSET (new \ stored[t]) : Store(t, new, v, r)
  BY DEF Stores
<1>1. new \subseteq 1..Tip(t) /\ new \subseteq Nat
  BY TipType DEF Stores
<1>2. stored' \in [Rows -> SUBSET Nat]
  <2>1. stored[t] \cup new \in SUBSET Nat
    BY <1>1 DEF TablesTyped
  <2>2. QED
    BY <1>0, <2>1 DEF TablesTyped, Store
<1>3. \A u \in Rows : stored'[u] \subseteq 1..Tip(u)
  BY <1>0, <1>1 DEF TablesTyped, Store
<1>4. \A u \in Rows : u > rows => stored'[u] = {}
  BY <1>0, RowsAreNat DEF TablesTyped, Store
<1>5. blank' \in [Rows -> [version : SUBSET Nat, release : SUBSET Nat]]
      /\ \A u \in Rows : blank'[u] \in [version : SUBSET stored'[u], release : SUBSET stored'[u]]
  <2> DEFINE x == [version |-> blank[t].version \cup v, release |-> blank[t].release \cup r]
  <2>1. blank' = [blank EXCEPT ![t] = x] /\ stored' = [stored EXCEPT ![t] = @ \cup new]
    BY <1>0 DEF Store
  <2>2. blank[t] \in [version : SUBSET stored[t], release : SUBSET stored[t]]
    BY DEF TablesTyped
  <2>3. stored[t] \in SUBSET Nat /\ stored'[t] = stored[t] \cup new
    BY <2>1 DEF TablesTyped
  <2>4. /\ blank[t].version \cup v \in SUBSET stored'[t]
        /\ blank[t].release \cup r \in SUBSET stored'[t]
        /\ stored'[t] \in SUBSET Nat
    BY <1>1, <2>2, <2>3
  <2>5. /\ x \in [version : SUBSET stored'[t], release : SUBSET stored'[t]]
        /\ x \in [version : SUBSET Nat, release : SUBSET Nat]
    BY <2>4
  <2> HIDE DEF x
  <2>6. QED
    BY <2>1, <2>5 DEF TablesTyped
<1>6. QED
  BY <1>2, <1>3, <1>4, <1>5 DEF TablesTyped, Tip

LEMMA TipMoves ==
  ASSUME TablesTyped, HandsTyped,
         tip' \in [l1 : Nat \ {0}, fallback : Nat \ {0}, l2 : Nat \ {0}],
         tip'.l1 >= tip.l1, tip'.fallback >= tip.fallback, tip'.l2 >= tip.l2,
         UNCHANGED <<rows, stored, blank, l1snap, l2snap, l2rec, pc, mem>>
  PROVE  TablesTyped' /\ HandsTyped'
<1>1. \A t \in Rows : Tip(t)' \in Nat /\ Tip(t) \in Nat /\ Tip(t) <= Tip(t)'
  BY DEF Tip, TablesTyped
<1>2. TablesTyped'
  <2>1. \A t \in Rows : /\ stored[t] \subseteq 1..Tip(t)'
                        /\ l1snap[t] \in {NoSnapshot} \cup 0..Tip(t)'
    BY <1>1 DEF TablesTyped
  <2>2. /\ l2snap \in {NoSnapshot} \cup 1..tip'.l2
        /\ l2rec.n <= tip'.l2
    BY DEF TablesTyped
  <2>3. QED
    BY <2>1, <2>2 DEF TablesTyped
<1>3. ASSUME NEW p \in Pipelines PROVE Fits(pc[p], mem[p])'
  <2>1. mem[p] \in Hands /\ Fits(pc[p], mem[p])
    BY HandOf
  <2>2. mem[p].base \in Rows /\ mem[p].held \in Nat /\ mem[p].stamp \in Nat
    BY <2>1 DEF Hands
  <2>3. pc[p] \in {"put", "putF"} => mem[p].held <= Tip(mem[p].base)'
    BY <2>1, <2>2, <1>1 DEF Fits
  <2>4. pc[p] \in {"log", "git", "putL2"} => mem[p].held \in 1..tip'.l2
    BY <2>1, <2>2 DEF Fits, TablesTyped
  <2>5. pc[p] = "git" => mem[p].stamp <= tip'.l2
    BY <2>1, <2>2 DEF Fits, TablesTyped
  <2>6. QED
    BY <2>1, <2>3, <2>4, <2>5 DEF Fits, Tip
<1>4. QED
  BY <1>2, <1>3 DEF HandsTyped

LEMMA OutsideTyped ==
  ASSUME TablesTyped, HandsTyped,
         (\E b \in {"l1", "fallback"} : L1Commit(b)) \/ L2Commit
         \/ \E n \in DOMAIN L2Line : PushL2(n)
  PROVE  TablesTyped' /\ HandsTyped'
<1>1. ASSUME NEW b \in {"l1", "fallback"}, L1Commit(b) PROVE TablesTyped' /\ HandsTyped'
  <2>1. /\ tip' \in [l1 : Nat \ {0}, fallback : Nat \ {0}, l2 : Nat \ {0}]
        /\ tip'.l1 >= tip.l1 /\ tip'.fallback >= tip.fallback /\ tip'.l2 >= tip.l2
    BY <1>1 DEF L1Commit, TablesTyped
  <2>2. QED
    BY <1>1, <2>1, TipMoves DEF L1Commit
<1>2. CASE L2Commit
  <2>1. /\ tip' \in [l1 : Nat \ {0}, fallback : Nat \ {0}, l2 : Nat \ {0}]
        /\ tip'.l1 >= tip.l1 /\ tip'.fallback >= tip.fallback /\ tip'.l2 >= tip.l2
    BY <1>2 DEF L2Commit, TablesTyped
  <2>2. QED
    BY <1>2, <2>1, TipMoves DEF L2Commit
<1>3. ASSUME NEW n \in DOMAIN L2Line, PushL2(n) PROVE TablesTyped' /\ HandsTyped'
  <2>1. n \in 1..tip.l2
    <3>1. DOMAIN L2Line = 1..Len(L2Line) /\ Len(L2Line) \in Nat
      BY LayersAssumption DEF Grows
    <3>2. QED
      BY <1>3, <3>1 DEF PushL2
  <2>2. TablesTyped'
    BY <1>3, <2>1 DEF PushL2, TablesTyped, branches, Tip
  <2>3. HandsTyped'
    BY <1>3 DEF PushL2, HandsTyped, branches, Tip, Fits
  <2>4. QED
    BY <2>2, <2>3
<1>4. QED
  BY <1>1, <1>2, <1>3
-----------------------------------------------------------------------------
LEMMA IngestTyped ==
  ASSUME TablesTyped, HandsTyped, NEW p \in Pipelines,
         \/ \E t \in Rows : PipeStart(p, t)
         \/ SyncL1(p) \/ \E n \in 0..Tip(mem[p].row) : SyncFails(p, n)
         \/ ReadSpec(p) \/ SpecMissing(p) \/ PutL1(p)
  PROVE  TablesTyped' /\ HandsTyped'
<1> USE DEF Phases, OwnPhases, FallbackPhases, MatchPhases
<1> DEFINE t == mem[p].row
<1>h. mem[p] \in Hands /\ Fits(pc[p], mem[p])
  BY HandOf
<1>t. t \in Rows /\ t <= rows
  BY <1>h DEF Hands, Fits
<1>1. ASSUME NEW r \in Rows, PipeStart(p, r) PROVE TablesTyped' /\ HandsTyped'
  <2>1. TablesTyped'
    BY <1>1, TablesKept DEF PipeStart, branches
  <2> DEFINE m == [Idle EXCEPT !.row = r, !.base = r]
  <2>2. m \in Hands /\ Fits("sync", m)
    BY <1>1 DEF PipeStart, Idle, Hands, Fits
  <2>3. HandsTyped'
    BY <1>1, <2>2, HandMovesInPlace DEF PipeStart, Goto, branches
  <2>4. QED
    BY <2>1, <2>3
<1>2. CASE SyncL1(p)
  <2>1. TablesTyped'
    BY <1>2, <1>t, StoresAll, StoredGrows DEF SyncL1, branches
  <2>2. CASE Goto(p, "spec") /\ mem' = mem
    <3>1. Fits("spec", mem[p])
      BY <1>2, <1>h DEF Fits, SyncL1
    <3>2. QED
      BY <1>2, <2>1, <2>2, <3>1, GotoMoves DEF SyncL1, branches
  <2>3. CASE Quit(p)
    BY <1>2, <2>1, <2>3, QuitMoves DEF SyncL1, branches
  <2>4. QED
    BY <1>2, <2>2, <2>3 DEF SyncL1
<1>3. ASSUME NEW n \in 0..Tip(t), SyncFails(p, n) PROVE TablesTyped' /\ HandsTyped'
  <2>1. TablesTyped'
    BY <1>3, <1>t, StoresSome, StoredGrows DEF SyncFails, branches
  <2>2. QED
    BY <1>3, <2>1, QuitMoves DEF SyncFails, branches
<1>4. ASSUME NEW x \in Nat, x <= Tip(mem[p].base), pc[p] \in {"spec", "specF"},
             mem' = [mem EXCEPT ![p].held = x],
             Goto(p, IF pc[p] = "spec" THEN "put" ELSE "putF"),
             UNCHANGED <<tip, rows, stored, blank, l1snap, l2snap, l2rec>>
      PROVE  TablesTyped' /\ HandsTyped'
  <2>1. TablesTyped'
    BY <1>4, TablesKept
  <2> DEFINE m == [mem[p] EXCEPT !.held = x]
             w == IF pc[p] = "spec" THEN "put" ELSE "putF"
  <2>2. m \in Hands /\ mem' = [mem EXCEPT ![p] = m]
    BY <1>4, HandChanges
  <2>3. m.held = x /\ m.row = mem[p].row /\ m.base = mem[p].base /\ m.l1 = mem[p].l1
        /\ m.l2 = mem[p].l2
    BY <1>h DEF Hands
  <2> HIDE DEF m
  <2>4. Fits(w, m)
    BY <1>4, <1>h, <2>3 DEF Fits
  <2>5. w \in Phases
    OBVIOUS
  <2>6. HandsTyped'
    BY <1>4, <2>2, <2>4, <2>5, HandMovesInPlace DEF Goto
  <2>7. QED
    BY <2>1, <2>6
<1>5. CASE ReadSpec(p)
  <2>1. Tip(mem[p].base) \in Nat /\ Tip(mem[p].base) <= Tip(mem[p].base)
    BY <1>h, TipType DEF Hands
  <2>2. QED
    BY <1>4, <1>5, <2>1 DEF ReadSpec, branches
<1>6. CASE SpecMissing(p)
  <2>1. 0 <= Tip(mem[p].base)
    BY <1>h, TipType DEF Hands
  <2>2. QED
    BY <1>4, <1>6, <2>1 DEF SpecMissing, branches
<1>7. CASE PutL1(p)
  <2> DEFINE b == mem[p].base
  <2>1. b \in Rows /\ b <= rows /\ mem[p].held \in 0..Tip(b)
    BY <1>7, <1>h DEF Hands, Fits, PutL1
  <2>2. l1snap' = [l1snap EXCEPT ![b] = mem[p].held]
    BY <1>7 DEF PutL1
  <2>3. l1snap' \in [Rows -> {NoSnapshot} \cup Nat]
    BY <2>1, <2>2 DEF TablesTyped
  <2>4. \A u \in Rows : l1snap'[u] \in {NoSnapshot} \cup 0..Tip(u)
    BY <2>1, <2>2 DEF TablesTyped
  <2>5. \A u \in Rows : u > rows => l1snap'[u] = NoSnapshot
    BY <2>1, <2>2, RowsAreNat DEF TablesTyped
  <2>6. TablesTyped'
    BY <1>7, <2>3, <2>4, <2>5 DEF PutL1, TablesTyped, branches, Tip
  <2>7. Fits(IF pc[p] = "put" THEN "l2" ELSE "again", mem[p])
    BY <1>7, <1>h DEF PutL1, Fits
  <2>8. HandsTyped'
    BY <1>7, <2>7, GotoMoves DEF PutL1, branches
  <2>9. QED
    BY <2>6, <2>8
<1>8. QED
  BY <1>1, <1>2, <1>3, <1>5, <1>6, <1>7

LEMMA ExportTyped ==
  ASSUME TablesTyped, HandsTyped, NEW p \in Pipelines,
         ReuseL2(p) \/ ReadL2Spec(p) \/ ReadLogSpec(p) \/ PersistL2(p) \/ PutL2(p)
  PROVE  TablesTyped' /\ HandsTyped'
<1> USE DEF Phases, OwnPhases, FallbackPhases, MatchPhases
<1>h. mem[p] \in Hands /\ Fits(pc[p], mem[p])
  BY HandOf
<1>n. tip.l2 \in Nat \ {0}
  BY DEF TablesTyped
<1>1. CASE ReuseL2(p)
  <2>1. TablesTyped'
    BY <1>1, TablesKept DEF ReuseL2, branches
  <2>2. CASE Quit(p)
    BY <1>1, <2>1, <2>2, QuitMoves DEF ReuseL2, branches
  <2>3. CASE Goto(p, "readL1") /\ mem' = mem
    <3>1. Fits("readL1", mem[p])
      BY <1>1, <1>h DEF Fits, ReuseL2
    <3>2. QED
      BY <1>1, <2>1, <2>3, <3>1, GotoMoves DEF ReuseL2, branches
  <2>4. QED
    BY <1>1, <2>1, <2>2, <2>3 DEF ReuseL2
<1>2. CASE ReadL2Spec(p)
  <2>1. TablesTyped'
    BY <1>2, TablesKept DEF ReadL2Spec, branches
  <2> DEFINE m == [mem[p] EXCEPT !.held = tip.l2]
  <2>2. m \in Hands /\ mem' = [mem EXCEPT ![p] = m]
    BY <1>2, <1>n, HandChanges DEF ReadL2Spec
  <2>3. m.held = tip.l2 /\ m.row = mem[p].row /\ m.base = mem[p].base
    BY <1>h DEF Hands
  <2> HIDE DEF m
  <2>4. Fits("log", m)
    BY <1>2, <1>h, <1>n, <2>3 DEF Fits, ReadL2Spec
  <2>5. HandsTyped'
    BY <1>2, <2>2, <2>4, HandMovesInPlace DEF Goto, ReadL2Spec, branches
  <2>6. QED
    BY <2>1, <2>5
<1>3. CASE ReadLogSpec(p)
  <2>1. TablesTyped'
    BY <1>3, TablesKept DEF ReadLogSpec, branches
  <2> DEFINE m == [mem[p] EXCEPT !.stamp = tip.l2]
  <2>2. m \in Hands /\ mem' = [mem EXCEPT ![p] = m]
    BY <1>3, <1>n, HandChanges DEF ReadLogSpec
  <2>3. m.held = mem[p].held /\ m.stamp = tip.l2 /\ m.row = mem[p].row /\ m.base = mem[p].base
    BY <1>h DEF Hands
  <2> HIDE DEF m
  <2>4. Fits("git", m)
    BY <1>3, <1>h, <1>n, <2>3 DEF Fits, ReadLogSpec
  <2>5. HandsTyped'
    BY <1>3, <2>2, <2>4, HandMovesInPlace DEF Goto, ReadLogSpec, branches
  <2>6. QED
    BY <2>1, <2>5
<1>4. CASE PersistL2(p)
  <2> DEFINE m == [mem[p] EXCEPT !.stamp = 0]
  <2>1. mem[p].stamp \in Nat /\ mem[p].stamp <= tip.l2
    BY <1>4, <1>h DEF PersistL2, Fits, Hands
  <2>2. TablesTyped'
    <3>1. l2rec' \in [n : Nat, spec : Nat] /\ l2rec'.n <= tip.l2 /\ l2rec'.spec <= l2rec'.n
      BY <1>4, <1>n, <2>1 DEF PersistL2, TablesTyped
    <3>2. QED
      BY <1>4, <3>1 DEF PersistL2, TablesTyped, branches, Tip
  <2>3. m \in Hands /\ mem' = [mem EXCEPT ![p] = m]
    BY <1>4, HandChanges DEF PersistL2
  <2>4. m.held = mem[p].held /\ m.row = mem[p].row /\ m.base = mem[p].base
    BY <1>h DEF Hands
  <2> HIDE DEF m
  <2>5. Fits("putL2", m)
    BY <1>4, <1>h, <2>4 DEF Fits, PersistL2
  <2>6. HandsTyped'
    BY <1>4, <2>3, <2>5, HandMovesInPlace DEF Goto, PersistL2, branches
  <2>7. QED
    BY <2>2, <2>6
<1>5. CASE PutL2(p)
  <2>1. mem[p].held \in 1..tip.l2
    BY <1>5, <1>h DEF PutL2, Fits
  <2>2. TablesTyped'
    BY <1>5, <2>1 DEF PutL2, TablesTyped, branches, Tip
  <2>3. Fits("readL1", mem[p])
    BY <1>5, <1>h DEF PutL2, Fits
  <2>4. HandsTyped'
    BY <1>5, <2>3, GotoMoves DEF PutL2, branches
  <2>5. QED
    BY <2>2, <2>4
<1>6. QED
  BY <1>1, <1>2, <1>3, <1>4, <1>5

LEMMA CompareTyped ==
  ASSUME TablesTyped, HandsTyped, NEW p \in Pipelines,
         \/ ReadL1(p) \/ ReadL2(p) \/ FindFallback(p)
         \/ MakeFallback(p) /\ rows + 1 \in Rows
         \/ LatestFallback(p) \/ FetchFallback(p)
         \/ \E n \in 0..Tip(mem[p].base) : FallbackFails(p, n)
         \/ ReadL2Version(p) \/ MatchCommits(p) \/ StageFails(p)
  PROVE  TablesTyped' /\ HandsTyped'
<1> USE DEF Phases, OwnPhases, FallbackPhases, MatchPhases
<1> DEFINE f == mem[p].base
<1>h. mem[p] \in Hands /\ Fits(pc[p], mem[p])
  BY HandOf
<1>f. f \in Rows /\ f <= rows /\ mem[p].row \in Rows /\ mem[p].row <= rows
  BY <1>h DEF Hands, Fits
<1>1. CASE ReadL1(p)
  <2>1. TablesTyped'
    BY <1>1, TablesKept DEF ReadL1, branches
  <2>2. CASE Quit(p)
    BY <1>1, <2>1, <2>2, QuitMoves DEF ReadL1, branches
  <2>3. CASE ~Quit(p)
    <3> DEFINE m == [mem[p] EXCEPT !.l1 = l1snap[mem[p].row]]
    <3>1. l1snap[mem[p].row] \in Nat
      BY <1>1, <1>f, <2>3 DEF ReadL1, TablesTyped
    <3>2. m \in Hands /\ mem' = [mem EXCEPT ![p] = m]
      BY <1>1, <2>3, <3>1, HandChanges DEF ReadL1
    <3>3. m.row = mem[p].row /\ m.base = mem[p].base
      BY <1>h DEF Hands
    <3> HIDE DEF m
    <3>4. Fits("readL2", m)
      BY <1>1, <1>h, <3>3 DEF Fits, ReadL1
    <3>5. HandsTyped'
      BY <1>1, <2>3, <3>2, <3>4, HandMovesInPlace DEF Goto, ReadL1, branches
    <3>6. QED
      BY <2>1, <3>5
  <2>4. QED
    BY <2>2, <2>3
<1>2. CASE ReadL2(p)
  <2>1. TablesTyped'
    BY <1>2, TablesKept DEF ReadL2, branches
  <2>2. CASE Quit(p)
    BY <1>2, <2>1, <2>2, QuitMoves DEF ReadL2, branches
  <2>3. CASE ~Quit(p)
    <3> DEFINE m == [mem[p] EXCEPT !.l2 = l2snap]
               w == IF Newer(l2snap, mem[p].row, mem[p].l1) THEN "find" ELSE "version"
    <3>1. l2snap \in Nat \ {0} /\ mem[p].l1 # 0
      BY <1>2, <2>3 DEF ReadL2, TablesTyped
    <3>2. m \in Hands /\ mem' = [mem EXCEPT ![p] = m]
      BY <1>2, <2>3, <3>1, HandChanges DEF ReadL2
    <3>3. m.row = mem[p].row /\ m.base = mem[p].base /\ m.l1 = mem[p].l1 /\ m.l2 = l2snap
      BY <1>h DEF Hands
    <3>4. pc' = [pc EXCEPT ![p] = w] /\ w \in Phases /\ pc[p] = "readL2"
      BY <1>2, <2>3 DEF ReadL2, Goto
    <3>5. w \in {"find", "version"}
      OBVIOUS
    <3> HIDE DEF m, w
    <3>6. Fits(w, m)
      BY <1>h, <3>1, <3>3, <3>4, <3>5 DEF Fits
    <3>7. HandsTyped'
      BY <1>2, <3>2, <3>4, <3>6, HandMovesInPlace DEF ReadL2, branches
    <3>8. QED
      BY <2>1, <3>7
  <2>4. QED
    BY <2>2, <2>3
<1>3. CASE FindFallback(p)
  <2>1. TablesTyped'
    BY <1>3, TablesKept DEF FindFallback, branches
  <2>2. ASSUME NEW w \in {"latest", "make"}, Goto(p, w), mem' = mem PROVE HandsTyped'
    <3>1. Fits(w, mem[p])
      BY <1>3, <1>h DEF Fits, FindFallback
    <3>2. QED
      BY <1>3, <2>2, <3>1, GotoMoves DEF FindFallback, branches
  <2>3. ASSUME NEW g \in 1..rows, Goto(p, "latest"), mem' = [mem EXCEPT ![p].base = g]
        PROVE  HandsTyped'
    <3> DEFINE m == [mem[p] EXCEPT !.base = g]
    <3>1. g \in Rows /\ g <= rows
      BY <2>3, LayersAssumption DEF TablesTyped, Rows
    <3>2. m \in Hands /\ mem' = [mem EXCEPT ![p] = m]
      BY <2>3, <3>1, HandChanges, RowsAreNat
    <3>3. m.row = mem[p].row /\ m.base = g /\ m.l1 = mem[p].l1 /\ m.l2 = mem[p].l2
      BY <1>h DEF Hands
    <3> HIDE DEF m
    <3>4. Fits("latest", m)
      BY <1>3, <1>h, <3>1, <3>3 DEF Fits, FindFallback
    <3>5. QED
      BY <1>3, <2>3, <3>2, <3>4, HandMovesInPlace DEF Goto, FindFallback, branches
  <2>4. QED
    BY <1>3, <2>1, <2>2, <2>3 DEF FindFallback
<1>4. CASE MakeFallback(p) /\ rows + 1 \in Rows
  <2>1. rows \in Nat
    BY RowsAreNat DEF TablesTyped
  <2>2. TablesTyped'
    BY <1>4, <2>1, RowsAreNat DEF MakeFallback, TablesTyped, branches, Tip
  <2> DEFINE m == [mem[p] EXCEPT !.base = rows + 1]
  <2>3. m \in Hands /\ mem' = [mem EXCEPT ![p] = m]
    <3>1. rows + 1 \in Nat
      BY <2>1
    <3>2. m \in Hands
      BY <1>4, <3>1, HandChanges
    <3>3. QED
      BY <1>4, <3>2 DEF MakeFallback
  <2>4. m.row = mem[p].row /\ m.base = rows + 1 /\ m.l1 = mem[p].l1 /\ m.l2 = mem[p].l2
    BY <1>h DEF Hands
  <2> HIDE DEF m
  <2>5. rows' = rows + 1 /\ mem[p].row <= rows + 1
    BY <1>4, <1>f, <2>1, RowsAreNat DEF MakeFallback
  <2>6. (/\ m.row <= rows' /\ m.base <= rows') /\ m.l1 # 0 /\ m.l2 # 0
    BY <1>4, <1>h, <2>1, <2>4, <2>5 DEF Fits, MakeFallback
  <2>7. HandsTyped'
    <3>1. PICK h \in Hands : h = m
      BY <2>3
    <3>2. Fits("latest", h)'
      BY <2>6, <3>1 DEF Fits
    <3>3. rows' \in Nat /\ rows' >= rows
      BY <2>1, <2>5
    <3>4. QED
      BY <1>4, <2>3, <3>1, <3>2, <3>3, HandMoves DEF Goto, MakeFallback, branches
  <2>8. QED
    BY <2>2, <2>7
<1>5. CASE LatestFallback(p)
  <2>1. TablesTyped'
    BY <1>5, TablesKept DEF LatestFallback, branches
  <2>2. CASE Quit(p)
    BY <1>5, <2>1, <2>2, QuitMoves DEF LatestFallback, branches
  <2>3. CASE Goto(p, "fetch") /\ mem' = mem
    <3>1. Fits("fetch", mem[p])
      BY <1>5, <1>h DEF Fits, LatestFallback
    <3>2. QED
      BY <1>5, <2>1, <2>3, <3>1, GotoMoves DEF LatestFallback, branches
  <2>4. CASE /\ l1snap[f] \notin {NoSnapshot, 0}
             /\ mem' = [mem EXCEPT ![p].own = mem[p].l1, ![p].l1 = l1snap[f]]
             /\ Goto(p, "version")
    <3> DEFINE m == [mem[p] EXCEPT !.own = mem[p].l1, !.l1 = l1snap[f]]
    <3>1. l1snap[f] \in Nat \ {0}
      BY <1>f, <2>4 DEF TablesTyped
    <3>2. m \in Hands /\ mem' = [mem EXCEPT ![p] = m]
      BY <1>h, <2>4, <3>1 DEF Hands, HandsTyped
    <3>3. m.row = mem[p].row /\ m.base = mem[p].base /\ m.l1 = l1snap[f] /\ m.l2 = mem[p].l2
      BY <1>h DEF Hands
    <3> HIDE DEF m
    <3>4. Fits("version", m)
      BY <1>5, <1>h, <3>1, <3>3 DEF Fits, LatestFallback
    <3>5. QED
      BY <1>5, <2>1, <2>4, <3>2, <3>4, HandMovesInPlace DEF Goto, LatestFallback, branches
  <2>5. QED
    BY <1>5, <2>2, <2>3, <2>4 DEF LatestFallback
<1>6. CASE FetchFallback(p)
  <2>1. TablesTyped'
    BY <1>6, <1>f, StoresAll, StoredGrows DEF FetchFallback, branches
  <2>2. Fits("specF", mem[p])
    BY <1>6, <1>h DEF Fits, FetchFallback
  <2>3. QED
    BY <1>6, <2>1, <2>2, GotoMoves DEF FetchFallback, branches
<1>7. ASSUME NEW n \in 0..Tip(f), FallbackFails(p, n) PROVE TablesTyped' /\ HandsTyped'
  <2>1. TablesTyped'
    BY <1>7, <1>f, StoresSome, StoredGrows DEF FallbackFails, branches
  <2>2. QED
    BY <1>7, <2>1, QuitMoves DEF FallbackFails, branches
<1>8. CASE ReadL2Version(p)
  <2>1. TablesTyped'
    BY <1>8, TablesKept DEF ReadL2Version, branches
  <2> DEFINE x == IF mem[p].row = 0 /\ l2rec.n > 0 THEN l2rec.spec ELSE mem[p].l2
             m == [mem[p] EXCEPT !.held = x]
  <2>2. x \in Nat
    BY <1>h DEF TablesTyped, Hands
  <2>3. m \in Hands /\ mem' = [mem EXCEPT ![p] = m]
    BY <1>8, <2>2, HandChanges DEF ReadL2Version
  <2>4. m.row = mem[p].row /\ m.base = mem[p].base /\ m.l1 = mem[p].l1 /\ m.l2 = mem[p].l2
    BY <1>h DEF Hands
  <2> HIDE DEF m, x
  <2>5. Fits("match", m)
    BY <1>8, <1>h, <2>4 DEF Fits, ReadL2Version
  <2>6. HandsTyped'
    BY <1>8, <2>3, <2>5, HandMovesInPlace DEF Goto, ReadL2Version, branches
  <2>7. QED
    BY <2>1, <2>6
<1>9. CASE MatchCommits(p)
  BY <1>9, TablesKept, QuitMoves DEF MatchCommits, branches
<1>10. CASE StageFails(p)
  BY <1>10, TablesKept, QuitMoves DEF StageFails, branches
<1>11. QED
  BY <1>1, <1>2, <1>3, <1>4, <1>5, <1>6, <1>7, <1>8, <1>9, <1>10
-----------------------------------------------------------------------------
(* a pipeline and the report it may leave behind move; the others stand still *)
LEMMA ProbedMoves ==
  ASSUME HandsTyped, ProbedInv, NEW p \in Pipelines, NEW w, NEW m,
         pc' = [pc EXCEPT ![p] = w], mem' = [mem EXCEPT ![p] = m],
         Probed(w, m), ComparedWithRightLine'
  PROVE  ProbedInv'
<1>1. ASSUME NEW q \in Pipelines PROVE Probed(pc[q], mem[q])'
  <2>1. CASE q = p
    <3>1. pc'[q] = w /\ mem'[q] = m
      BY <2>1 DEF HandsTyped
    <3>2. QED
      BY <3>1 DEF Probed, RightLine, Newer
  <2>2. CASE q # p
    <3>1. pc'[q] = pc[q] /\ mem'[q] = mem[q]
      BY <2>2 DEF HandsTyped
    <3>2. Probed(pc[q], mem[q])
      BY DEF ProbedInv
    <3>3. QED
      BY <3>1, <3>2 DEF Probed, RightLine, Newer
  <2>3. QED
    BY <2>1, <2>2
<1>2. QED
  BY <1>1 DEF ProbedInv

LEMMA ReportKept == ComparedWithRightLine /\ report' = report => ComparedWithRightLine'
BY DEF ComparedWithRightLine, Newer

LEMMA ProbedGoes ==
  ASSUME HandsTyped, ProbedInv, NEW p \in Pipelines, NEW w,
         Goto(p, w), mem' = mem, Probed(w, mem[p]), report' = report
  PROVE  ProbedInv'
<1>1. mem' = [mem EXCEPT ![p] = mem[p]]
  BY DEF HandsTyped
<1>2. QED
  BY <1>1, ProbedMoves, ReportKept DEF Goto, ProbedInv

LEMMA ProbedQuits ==
  ASSUME HandsTyped, ProbedInv, NEW p \in Pipelines, Quit(p), ComparedWithRightLine'
  PROVE  ProbedInv'
<1>1. Probed("off", Idle)
  BY DEF Probed, FallbackPhases, MatchPhases
<1>2. QED
  BY <1>1, ProbedMoves DEF Quit, Goto

(* a phase before any version is compared asks for nothing *)
LEMMA ProbedEarly ==
  ASSUME NEW w \in OwnPhases \ {"find", "make"}, NEW m
  PROVE  Probed(w, m)
BY DEF OwnPhases, Probed, FallbackPhases, MatchPhases

LEMMA ProbedEarlySteps ==
  ASSUME HandsTyped, ProbedInv, NEW p \in Pipelines,
         \/ \E t \in Rows : PipeStart(p, t)
         \/ SyncL1(p) \/ \E n \in 0..Tip(mem[p].row) : SyncFails(p, n)
         \/ ReuseL2(p) \/ ReadL2Spec(p) \/ ReadLogSpec(p) \/ PersistL2(p) \/ PutL2(p)
         \/ ReadL1(p) \/ StageFails(p)
  PROVE  ProbedInv'
<1>1. report' = report
  BY DEF PipeStart, SyncL1, SyncFails, ReuseL2, ReadL2Spec, ReadLogSpec, PersistL2, PutL2,
         ReadL1, StageFails
<1>2. ComparedWithRightLine'
  BY <1>1, ReportKept DEF ProbedInv
<1>3. \E w \in OwnPhases \ {"find", "make"} : \E m :
         pc' = [pc EXCEPT ![p] = w] /\ mem' = [mem EXCEPT ![p] = m]
  <2>1. mem' = mem => mem' = [mem EXCEPT ![p] = mem[p]]
    BY DEF HandsTyped
  <2>2. \A x : \/ mem' = [mem EXCEPT ![p].held = x]
              \/ mem' = [mem EXCEPT ![p].stamp = x]
              \/ mem' = [mem EXCEPT ![p].l1 = x]
              => \E m : mem' = [mem EXCEPT ![p] = m]
    OBVIOUS
  <2>3. CASE \E t \in Rows : PipeStart(p, t)
    BY <2>3 DEF PipeStart, Goto, OwnPhases
  <2>4. CASE SyncL1(p)
    BY <2>1, <2>4 DEF SyncL1, Quit, Goto, OwnPhases
  <2>5. CASE \E n \in 0..Tip(mem[p].row) : SyncFails(p, n)
    BY <2>5 DEF SyncFails, Quit, Goto, OwnPhases
  <2>6. CASE ReuseL2(p)
    BY <2>1, <2>6 DEF ReuseL2, Quit, Goto, OwnPhases
  <2>7. CASE ReadL2Spec(p)
    BY <2>2, <2>7 DEF ReadL2Spec, Goto, OwnPhases
  <2>8. CASE ReadLogSpec(p)
    BY <2>2, <2>8 DEF ReadLogSpec, Goto, OwnPhases
  <2>9. CASE PersistL2(p)
    BY <2>2, <2>9 DEF PersistL2, Goto, OwnPhases
  <2>10. CASE PutL2(p)
    BY <2>1, <2>10 DEF PutL2, Goto, OwnPhases
  <2>11. CASE ReadL1(p)
    BY <2>2, <2>11 DEF ReadL1, Quit, Goto, OwnPhases
  <2>12. CASE StageFails(p)
    BY <2>12 DEF StageFails, Quit, Goto, OwnPhases
  <2>13. QED
    BY <2>3, <2>4, <2>5, <2>6, <2>7, <2>8, <2>9, <2>10, <2>11, <2>12
<1>4. QED
  BY <1>2, <1>3, ProbedMoves, ProbedEarly

LEMMA ProbedLateSteps ==
  ASSUME TablesTyped, HandsTyped, ProbedInv, NEW p \in Pipelines,
         \/ ReadSpec(p) \/ SpecMissing(p) \/ PutL1(p)
         \/ ReadL2(p) \/ FindFallback(p) \/ MakeFallback(p)
         \/ LatestFallback(p) \/ FetchFallback(p)
         \/ \E n \in 0..Tip(mem[p].base) : FallbackFails(p, n)
         \/ ReadL2Version(p) \/ MatchCommits(p)
  PROVE  ProbedInv'
<1> USE DEF FallbackPhases, MatchPhases
<1>h. mem[p] \in Hands /\ Fits(pc[p], mem[p]) /\ Probed(pc[p], mem[p])
  BY HandOf DEF ProbedInv
<1>r. report' = report => ComparedWithRightLine'
  BY ReportKept DEF ProbedInv
<1>1. CASE ReadSpec(p) \/ SpecMissing(p)
  <2>1. PICK x : mem' = [mem EXCEPT ![p].held = x]
    BY <1>1 DEF ReadSpec, SpecMissing
  <2> DEFINE m == [mem[p] EXCEPT !.held = x]
             w == IF pc[p] = "spec" THEN "put" ELSE "putF"
  <2>2. m.row = mem[p].row /\ m.base = mem[p].base /\ m.l1 = mem[p].l1 /\ m.l2 = mem[p].l2
    BY <1>h DEF Hands
  <2>3. pc[p] \in {"spec", "specF"} /\ pc' = [pc EXCEPT ![p] = w] /\ report' = report
    BY <1>1 DEF ReadSpec, SpecMissing, Goto
  <2>4. Probed(w, m)
    BY <1>h, <2>2, <2>3 DEF Probed
  <2>5. mem' = [mem EXCEPT ![p] = m]
    BY <2>1
  <2> HIDE DEF m, w
  <2>6. QED
    BY <2>3, <2>4, <2>5, <1>r, ProbedMoves
<1>2. CASE PutL1(p)
  <2>1. Probed(IF pc[p] = "put" THEN "l2" ELSE "again", mem[p])
    BY <1>2, <1>h DEF Probed, PutL1
  <2>2. QED
    BY <1>2, <2>1, ProbedGoes DEF PutL1
<1>3. CASE ReadL2(p)
  <2>1. CASE Quit(p)
    BY <1>3, <2>1, <1>r, ProbedQuits DEF ReadL2
  <2>2. CASE ~Quit(p)
    <3> DEFINE m == [mem[p] EXCEPT !.l2 = l2snap]
               w == IF Newer(l2snap, mem[p].row, mem[p].l1) THEN "find" ELSE "version"
    <3>1. m.row = mem[p].row /\ m.base = mem[p].base /\ m.l1 = mem[p].l1 /\ m.l2 = l2snap
      BY <1>h DEF Hands
    <3>2. mem' = [mem EXCEPT ![p] = m] /\ pc' = [pc EXCEPT ![p] = w] /\ report' = report
      BY <1>3, <2>2 DEF ReadL2, Goto
    <3>3. m.base = m.row
      BY <1>3, <1>h, <3>1 DEF ReadL2, Fits, OwnPhases
    <3> HIDE DEF m
    <3>4. Probed(w, m)
      BY <3>1, <3>3 DEF Probed, RightLine
    <3> HIDE DEF w
    <3>5. QED
      BY <3>2, <3>4, <1>r, ProbedMoves
  <2>3. QED
    BY <2>1, <2>2
<1>4. CASE FindFallback(p)
  <2>1. Newer(mem[p].l2, mem[p].row, mem[p].l1) /\ mem[p].base = mem[p].row
    BY <1>4, <1>h DEF FindFallback, Probed, Fits, OwnPhases
  <2>2. CASE mem[p].row # 0 /\ Goto(p, "latest") /\ mem' = mem
    <3>1. Probed("latest", mem[p])
      BY <2>1 DEF Probed
    <3>2. QED
      BY <1>4, <2>2, <3>1, ProbedGoes DEF FindFallback
  <2>3. CASE mem[p].row = 0 /\ Goto(p, "make") /\ mem' = mem
    <3>1. Probed("make", mem[p])
      BY <2>1, <2>3 DEF Probed
    <3>2. QED
      BY <1>4, <2>3, <3>1, ProbedGoes DEF FindFallback
  <2>4. ASSUME NEW g \in 1..rows, mem[p].row = 0, mem' = [mem EXCEPT ![p].base = g],
               Goto(p, "latest")
        PROVE  ProbedInv'
    <3> DEFINE m == [mem[p] EXCEPT !.base = g]
    <3>1. m.row = mem[p].row /\ m.l1 = mem[p].l1 /\ m.l2 = mem[p].l2
      BY <1>h DEF Hands
    <3>2. Probed("latest", m)
      BY <2>1, <2>4, <3>1 DEF Probed
    <3>3. mem' = [mem EXCEPT ![p] = m]
      BY <2>4
    <3> HIDE DEF m
    <3>4. QED
      BY <1>4, <2>4, <3>2, <3>3, <1>r, ProbedMoves DEF FindFallback, Goto
  <2>5. QED
    BY <1>4, <2>2, <2>3, <2>4 DEF FindFallback
<1>5. CASE MakeFallback(p)
  <2> DEFINE m == [mem[p] EXCEPT !.base = rows + 1]
  <2>1. m.row = mem[p].row /\ m.l1 = mem[p].l1 /\ m.l2 = mem[p].l2
    BY <1>h DEF Hands
  <2>2. Probed("latest", m)
    BY <1>5, <1>h, <2>1 DEF Probed, MakeFallback
  <2>3. mem' = [mem EXCEPT ![p] = m]
    BY <1>5 DEF MakeFallback
  <2> HIDE DEF m
  <2>4. QED
    BY <1>5, <2>2, <2>3, <1>r, ProbedMoves DEF MakeFallback, Goto
<1>6. CASE LatestFallback(p)
  <2> DEFINE f == mem[p].base
             s == l1snap[f]
  <2>1. /\ Newer(mem[p].l2, mem[p].row, mem[p].l1)
        /\ f # mem[p].row => mem[p].row = 0
    BY <1>6, <1>h DEF LatestFallback, Probed
  <2>2. CASE Goto(p, "fetch") /\ mem' = mem /\ report' = report
    <3>1. Probed("fetch", mem[p])
      BY <2>1 DEF Probed
    <3>2. QED
      BY <2>2, <3>1, ProbedGoes
  <2>3. CASE Quit(p) /\ report' = report
    BY <2>3, <1>r, ProbedQuits
  <2>4. CASE Quit(p) /\ report' = [Comparison(p, "skipped", 0, {}) EXCEPT !.own = mem[p].l1, !.l1 = s]
    <3>1. report'.found = "skipped"
      BY <2>4 DEF Comparison
    <3>2. ComparedWithRightLine'
      BY <3>1 DEF ComparedWithRightLine
    <3>3. QED
      BY <2>4, <3>2, ProbedQuits
  <2>5. CASE /\ ~Newer(mem[p].l2, f, s)
             /\ mem' = [mem EXCEPT ![p].own = mem[p].l1, ![p].l1 = s]
             /\ Goto(p, "version") /\ report' = report
    <3> DEFINE m == [mem[p] EXCEPT !.own = mem[p].l1, !.l1 = s]
    <3>1. m.row = mem[p].row /\ m.base = f /\ m.own = mem[p].l1 /\ m.l1 = s
          /\ m.l2 = mem[p].l2
      BY <1>h DEF Hands
    <3>2. mem' = [mem EXCEPT ![p] = m]
      BY <2>5, <1>h DEF HandsTyped, Hands
    <3> HIDE DEF m
    <3>3. RightLine(m)
      BY <2>1, <2>5, <3>1 DEF RightLine
    <3>4. Probed("version", m)
      BY <3>3 DEF Probed
    <3>5. QED
      BY <2>5, <3>2, <3>4, <1>r, ProbedMoves DEF Goto
  <2>6. QED
    BY <1>6, <2>2, <2>3, <2>4, <2>5 DEF LatestFallback
<1>7. CASE FetchFallback(p)
  <2>1. Probed("specF", mem[p])
    BY <1>7, <1>h DEF Probed, FetchFallback
  <2>2. QED
    BY <1>7, <2>1, ProbedGoes DEF FetchFallback
<1>8. ASSUME NEW n \in 0..Tip(mem[p].base), FallbackFails(p, n) PROVE ProbedInv'
  <2>1. report'.found = "skipped"
    BY <1>8 DEF FallbackFails, Comparison
  <2>2. ComparedWithRightLine'
    BY <2>1 DEF ComparedWithRightLine
  <2>3. QED
    BY <1>8, <2>2, ProbedQuits DEF FallbackFails
<1>9. CASE ReadL2Version(p)
  <2>1. PICK x : mem' = [mem EXCEPT ![p].held = x]
    BY <1>9 DEF ReadL2Version
  <2> DEFINE m == [mem[p] EXCEPT !.held = x]
  <2>2. m.row = mem[p].row /\ m.base = mem[p].base /\ m.l1 = mem[p].l1 /\ m.l2 = mem[p].l2
        /\ m.own = mem[p].own
    BY <1>h DEF Hands
  <2>3. Probed("match", m)
    BY <1>9, <1>h, <2>2 DEF Probed, RightLine, ReadL2Version
  <2>4. mem' = [mem EXCEPT ![p] = m]
    BY <2>1
  <2> HIDE DEF m
  <2>5. QED
    BY <1>9, <2>3, <2>4, <1>r, ProbedMoves DEF ReadL2Version, Goto
<1>10. CASE MatchCommits(p)
  <2>1. PICK found, spec, behind : report' = Comparison(p, found, spec, behind)
    BY <1>10 DEF MatchCommits
  <2>2. /\ report'.row = mem[p].row /\ report'.base = mem[p].base /\ report'.own = mem[p].own
        /\ report'.l1 = mem[p].l1 /\ report'.l2 = mem[p].l2
    BY <2>1 DEF Comparison
  <2>3. RightLine(mem[p])
    BY <1>10, <1>h DEF MatchCommits, Probed
  <2>4. ComparedWithRightLine'
    BY <2>2, <2>3 DEF ComparedWithRightLine, RightLine, Newer
  <2>5. QED
    BY <1>10, <2>4, ProbedQuits DEF MatchCommits
<1>11. QED
  BY <1>1, <1>2, <1>3, <1>4, <1>5, <1>6, <1>7, <1>8, <1>9, <1>10
-----------------------------------------------------------------------------
LEMMA Finite ==
  /\ IsFiniteSet(Working) /\ Cardinality(Working) \in Nat
  /\ IsFiniteSet(Makers) /\ Cardinality(Makers) \in Nat
  /\ IsFiniteSet(Working') /\ Cardinality(Working') \in Nat
  /\ IsFiniteSet(Makers') /\ Cardinality(Makers') \in Nat
<1>1. Working \subseteq Pipelines /\ Makers \subseteq Pipelines
      /\ Working' \subseteq Pipelines /\ Makers' \subseteq Pipelines
  BY DEF Working, Makers
<1>2. QED
  BY <1>1, LayersAssumption, FS_Subset, FS_CardinalityType

LEMMA RowRoom ==
  ASSUME TablesTyped, CrowdInv, NEW p \in Pipelines, pc[p] = "make"
  PROVE  rows + 1 \in Rows
<1>1. Cardinality(Makers) >= 1
  <2>1. Makers # {}
    BY DEF Makers
  <2>2. QED
    BY <2>1, Finite, FS_EmptySet
<1>2. QED
  BY <1>1, Finite, LayersAssumption DEF CrowdInv, TablesTyped, Rows

(* nobody new at work, nobody new about to insert *)
LEMMA CrowdKept ==
  ASSUME CrowdInv, TablesTyped, Working' \subseteq Working, Makers' \subseteq Makers,
         UNCHANGED <<rows, starts, crowd>>
  PROVE  CrowdInv'
<1>1. Cardinality(Working') <= Cardinality(Working) /\ Cardinality(Makers') <= Cardinality(Makers)
  BY Finite, FS_Subset
<1>2. rows \in Nat
  BY RowsAreNat DEF TablesTyped
<1>3. QED
  BY <1>1, <1>2, Finite DEF CrowdInv

LEMMA CrowdPassesOn ==
  ASSUME CrowdInv, TablesTyped, HandsTyped, NEW p \in Pipelines, pc[p] # "off", NEW w, w # "make",
         Goto(p, w), UNCHANGED <<rows, starts, crowd>>
  PROVE  CrowdInv'
<1>1. Working' \subseteq Working /\ Makers' \subseteq Makers
  BY DEF Working, Makers, Goto, HandsTyped
<1>2. QED
  BY <1>1, CrowdKept

LEMMA CrowdStep ==
  ASSUME TablesTyped, HandsTyped, CrowdInv, LayersNext
  PROVE  CrowdInv'
<1>1. ASSUME pc' = pc, UNCHANGED <<rows, starts, crowd>> PROVE CrowdInv'
  BY <1>1, CrowdKept DEF Working, Makers
<1>2. CASE (\E b \in {"l1", "fallback"} : L1Commit(b)) \/ L2Commit
           \/ \E n \in DOMAIN L2Line : PushL2(n)
  BY <1>1, <1>2 DEF L1Commit, L2Commit, PushL2, ghosts
<1>3. ASSUME NEW p \in Pipelines, NEW t \in Rows, PipeStart(p, t) PROVE CrowdInv'
  <2> DEFINE n == Cardinality(Working) + 1
  <2>1. Working' = Working \cup {p} /\ p \notin Working /\ Makers' = Makers
    BY <1>3 DEF PipeStart, Goto, Working, Makers, HandsTyped
  <2>2. Cardinality(Working') = n
    BY <2>1, Finite, FS_AddElement
  <2>3. crowd' = (IF n > crowd THEN n ELSE crowd) /\ starts' = starts + 1 /\ rows' = rows
        /\ starts < MaxStarts
    BY <1>3 DEF PipeStart
  <2>4. rows \in Nat
    BY RowsAreNat DEF TablesTyped
  <2> HIDE DEF n
  <2>5. n \in Nat /\ n <= crowd + 1
    BY Finite DEF CrowdInv, n
  <2>6. Cardinality(Makers') = Cardinality(Makers)
    BY <2>1
  <2>7. QED
    BY <2>2, <2>3, <2>4, <2>5, <2>6, Finite, LayersAssumption DEF CrowdInv
<1>4. ASSUME NEW p \in Pipelines, FindFallback(p) PROVE CrowdInv'
  <2>1. CASE Goto(p, "make") /\ rows = 0
    <3>1. Working' = Working /\ Makers' \subseteq Working'
      BY <1>4, <2>1 DEF FindFallback, Goto, Working, Makers, HandsTyped
    <3>2. Cardinality(Makers') <= Cardinality(Working') /\ Cardinality(Working') <= crowd
      BY <3>1, Finite, FS_Subset DEF CrowdInv
    <3>3. QED
      BY <1>4, <2>1, <3>1, <3>2, Finite DEF FindFallback, CrowdInv, ghosts
  <2>2. CASE Goto(p, "latest")
    BY <1>4, <2>2, CrowdPassesOn DEF FindFallback, ghosts
  <2>3. QED
    BY <1>4, <2>1, <2>2 DEF FindFallback
<1>5. ASSUME NEW p \in Pipelines, MakeFallback(p) PROVE CrowdInv'
  <2>1. Working' = Working /\ Makers' = Makers \ {p} /\ p \in Makers
    BY <1>5 DEF MakeFallback, Goto, Working, Makers, HandsTyped
  <2>2. Cardinality(Makers') = Cardinality(Makers) - 1
    BY <2>1, Finite, FS_RemoveElement
  <2>3. rows' = rows + 1 /\ starts' = starts /\ crowd' = crowd /\ rows \in Nat
    BY <1>5, RowsAreNat DEF MakeFallback, ghosts, TablesTyped
  <2>4. Cardinality(Working') = Cardinality(Working)
    BY <2>1
  <2>5. QED
    BY <2>2, <2>3, <2>4, Finite DEF CrowdInv
<1>6. ASSUME NEW p \in Pipelines, PipeStep(p), ~FindFallback(p), ~MakeFallback(p)
      PROVE  CrowdInv'
  <2>1. UNCHANGED <<rows, starts, crowd>> /\ pc[p] # "off"
    BY <1>6 DEF PipeStep, SyncL1, SyncFails, ReadSpec, SpecMissing, PutL1, ReuseL2, ReadL2Spec,
         ReadLogSpec, PersistL2, PutL2, ReadL1, ReadL2, LatestFallback, FetchFallback,
         FallbackFails, ReadL2Version, MatchCommits, StageFails, ghosts
  <2>2. \E w : w # "make" /\ Goto(p, w)
    BY <1>6 DEF PipeStep, SyncL1, SyncFails, ReadSpec, SpecMissing, PutL1, ReuseL2, ReadL2Spec,
         ReadLogSpec, PersistL2, PutL2, ReadL1, ReadL2, LatestFallback, FetchFallback,
         FallbackFails, ReadL2Version, MatchCommits, StageFails, Quit
  <2>3. QED
    BY <2>1, <2>2, CrowdPassesOn
<1>7. QED
  BY <1>2, <1>3, <1>4, <1>5, <1>6 DEF LayersNext
-----------------------------------------------------------------------------
THEOREM InitLayersInv == LayersInit => LayersInv
<1> SUFFICES ASSUME LayersInit PROVE LayersInv
  OBVIOUS
<1>1. TablesTyped /\ HandsTyped
  BY InitTyped
<1>2. ProbedInv
  BY DEF LayersInit, ProbedInv, ComparedWithRightLine, Probed, FallbackPhases, MatchPhases
<1>3. CrowdInv
  <2>1. Working = {} /\ Makers = {}
    BY DEF LayersInit, Working, Makers
  <2>2. QED
    BY <2>1, FS_EmptySet, LayersAssumption DEF LayersInit, CrowdInv
<1>4. QED
  BY <1>1, <1>2, <1>3 DEF LayersInv

THEOREM NextLayersInv == LayersInv /\ [LayersNext]_layerVars => LayersInv'
<1> SUFFICES ASSUME LayersInv, [LayersNext]_layerVars PROVE LayersInv'
  OBVIOUS
<1> USE DEF LayersInv
<1>1. CASE UNCHANGED layerVars
  <2>1. TablesTyped'
    BY <1>1 DEF layerVars, branches, TablesTyped, Tip
  <2>2. HandsTyped'
    BY <1>1 DEF layerVars, branches, HandsTyped, Fits, Tip
  <2>3. ProbedInv'
    BY <1>1 DEF layerVars, ProbedInv, ComparedWithRightLine, Probed, RightLine, Newer
  <2>4. CrowdInv'
    BY <1>1 DEF layerVars, ghosts, CrowdInv, Working, Makers
  <2>5. QED
    BY <2>1, <2>2, <2>3, <2>4
<1>2. CASE LayersNext
  <2>1. CASE (\E b \in {"l1", "fallback"} : L1Commit(b)) \/ L2Commit
             \/ \E n \in DOMAIN L2Line : PushL2(n)
    <3>1. TablesTyped' /\ HandsTyped'
      BY <2>1, OutsideTyped
    <3>2. pc' = pc /\ mem' = mem /\ report' = report
      BY <2>1 DEF L1Commit, L2Commit, PushL2
    <3>3. ProbedInv'
      BY <3>2 DEF ProbedInv, ComparedWithRightLine, Probed, RightLine, Newer
    <3>4. QED
      BY <1>2, <3>1, <3>3, CrowdStep
  <2>2. ASSUME NEW p \in Pipelines, PipeStep(p) \/ \E t \in Rows : PipeStart(p, t)
        PROVE  LayersInv'
    <3>1. MakeFallback(p) => rows + 1 \in Rows
      BY RowRoom DEF MakeFallback
    <3>2. TablesTyped' /\ HandsTyped'
      BY <2>2, <3>1, IngestTyped, ExportTyped, CompareTyped DEF PipeStep
    <3>3. ProbedInv'
      BY <2>2, ProbedEarlySteps, ProbedLateSteps DEF PipeStep
    <3>4. QED
      BY <1>2, <3>2, <3>3, CrowdStep
  <2>3. QED
    BY <1>2, <2>1, <2>2 DEF LayersNext
<1>3. QED
  BY <1>1, <1>2

LEMMA Invariant == LayersSpec => []LayersInv
BY InitLayersInv, NextLayersInv, PTL DEF LayersSpec

(* The tables and what the pipelines hold are of their types (LayersTypeOK): no *)
(* snapshot or stored commit is newer than its branch, and no pipeline is past  *)
(* a read without what it read.                                                 *)
THEOREM LayersTypeCorrect == LayersSpec => []LayersTypeOK
<1>1. LayersInv => LayersTypeOK
  <2> SUFFICES ASSUME LayersInv PROVE LayersTypeOK
    OBVIOUS
  <2>1. \A p \in Pipelines :
          /\ mem[p].row \in 0..rows /\ mem[p].base \in 0..rows
          /\ pc[p] \in {"spec", "put"} => mem[p].base = mem[p].row
          /\ pc[p] \in {"version", "match"} => mem[p].l1 # 0 /\ mem[p].l2 # 0
    <3> SUFFICES ASSUME NEW p \in Pipelines
                 PROVE  /\ mem[p].row \in 0..rows /\ mem[p].base \in 0..rows
                        /\ pc[p] \in {"spec", "put"} => mem[p].base = mem[p].row
                        /\ pc[p] \in {"version", "match"} => mem[p].l1 # 0 /\ mem[p].l2 # 0
      OBVIOUS
    <3>1. mem[p] \in Hands /\ Fits(pc[p], mem[p])
      BY HandOf DEF LayersInv
    <3>2. mem[p].row \in Nat /\ mem[p].base \in Nat
      BY <3>1, RowsAreNat DEF Hands
    <3>3. rows \in Nat
      BY RowsAreNat DEF LayersInv, TablesTyped
    <3>4. QED
      BY <3>1, <3>2, <3>3 DEF Fits, OwnPhases, MatchPhases
  <2>2. QED
    BY <2>1 DEF LayersInv, TablesTyped, LayersTypeOK
<1>2. QED
  BY <1>1, Invariant, PTL

(* Commits are compared only with an L1 line that L2 is not ahead of, whatever  *)
(* rows, snapshots and commits other pipelines store between the two probes     *)
(* (ComparedWithRightLine).                                                     *)
THEOREM RightLineCompared == LayersSpec => []ComparedWithRightLine
<1>1. LayersInv => ComparedWithRightLine
  BY DEF LayersInv, ProbedInv
<1>2. QED
  BY <1>1, Invariant, PTL

(* The openEuler-24.09 rows are at most the pipelines ever at work together     *)
(* (FallbackRowsBounded), whatever their number.                                *)
THEOREM FewFallbackRows == LayersSpec => []FallbackRowsBounded
<1>1. LayersInv => FallbackRowsBounded
  <2> SUFFICES ASSUME LayersInv PROVE rows <= crowd
    BY DEF FallbackRowsBounded
  <2>1. rows \in Nat
    BY RowsAreNat DEF LayersInv, TablesTyped
  <2>2. QED
    BY <2>1, Finite DEF LayersInv, CrowdInv
<1>2. QED
  BY <1>1, Invariant, PTL
-----------------------------------------------------------------------------
(* The commits L2 is behind                                                  *)

\* what m holds of the L2 side, at phase w
Stamped(w, m) ==
  /\ m.l2 <= tip.l2
  /\ checkout => m.l2 <= l2rec.n
  /\ w \in {"log", "git", "putL2"} => checkout
  /\ w = "git" /\ ~l2Moved => m.stamp = tip.l2
  /\ w = "putL2" => m.held <= l2rec.n
  /\ w = "match" /\ ~l2Moved => m.held \in 1..tip.l2 /\ m.l2 <= m.held

\* with a checkout every L2 snapshot was preceded by its commits
StampTables ==
  /\ tip.l1 <= Len(PrimaryLine) /\ tip.fallback <= Len(FallbackLine) /\ tip.l2 <= Len(L2Line)
  /\ ~checkout => l2rec.n = 0
  /\ checkout /\ l2snap # NoSnapshot => l2snap <= l2rec.n
  /\ ~l2Moved => l2rec.spec = l2rec.n

(* the report is about stored commits *)
ReportInv ==
  /\ report # NoReport /\ report.found = "record" =>
       report.base \in Rows /\ report.behind \subseteq stored[report.base]
  /\ BehindIsNewer

(* The inductive form of BehindIsNewer.                                      *)
BehindInv ==
  /\ StampTables
  /\ \A p \in Pipelines : Stamped(pc[p], mem[p])
  /\ ReportInv

(* a stored commit never gets or loses its version and release *)
StoredStays == \A t \in Rows : stored[t] \subseteq stored'[t] /\ Full(t)' \cap stored[t] \subseteq Full(t)

LEMMA StoringStays ==
  ASSUME TablesTyped, NEW t \in Rows, NEW new, Stores(t, new)
  PROVE  StoredStays
<1>0. PICK v \in SUBSET (new \ stored[t]), r \in SUBSET (new \ stored[t]) : Store(t, new, v, r)
  BY DEF Stores
<1> SUFFICES ASSUME NEW u \in Rows
             PROVE  stored[u] \subseteq stored'[u] /\ Full(u)' \cap stored[u] \subseteq Full(u)
  BY DEF StoredStays
<1>1. stored \in [Rows -> SUBSET Nat] /\ blank \in [Rows -> [version : SUBSET Nat, release : SUBSET Nat]]
  BY DEF TablesTyped
<1>2. /\ stored' = [stored EXCEPT ![t] = @ \cup new]
      /\ blank' = [blank EXCEPT ![t] = [version |-> @.version \cup v, release |-> @.release \cup r]]
  BY <1>0 DEF Store
<1>3. stored[u] \subseteq stored'[u]
  BY <1>1, <1>2
<1>4. blank[u].version \subseteq blank'[u].version /\ blank[u].release \subseteq blank'[u].release
  BY <1>1, <1>2
<1>5. QED
  BY <1>3, <1>4 DEF Full, Named

LEMMA StandingStays == UNCHANGED <<stored, blank>> => StoredStays
BY DEF StoredStays, Full, Named

LEMMA StepsStay ==
  ASSUME TablesTyped, HandsTyped, [LayersNext]_layerVars
  PROVE  StoredStays
<1>1. CASE UNCHANGED layerVars
  BY <1>1, StandingStays DEF layerVars
<1>2. CASE \/ \E b \in {"l1", "fallback"} : L1Commit(b)
           \/ L2Commit
           \/ \E n \in DOMAIN L2Line : PushL2(n)
  BY <1>2, StandingStays DEF L1Commit, L2Commit, PushL2
<1>3. ASSUME NEW p \in Pipelines, NEW t \in Rows, PipeStart(p, t) PROVE StoredStays
  BY <1>3, StandingStays DEF PipeStart
<1>4. ASSUME NEW p \in Pipelines, PipeStep(p) PROVE StoredStays
  <2>1. mem[p].row \in Rows /\ mem[p].base \in Rows
    BY HandOf DEF Hands
  <2>2. CASE SyncL1(p) \/ FetchFallback(p)
    BY <2>1, <2>2, StoresAll, StoringStays DEF SyncL1, FetchFallback
  <2>3. ASSUME NEW n, SyncFails(p, n) \/ FallbackFails(p, n) PROVE StoredStays
    BY <2>1, <2>3, StoresSome, StoringStays DEF SyncFails, FallbackFails
  <2>4. CASE \/ ReadSpec(p) \/ SpecMissing(p) \/ PutL1(p)
             \/ ReuseL2(p) \/ ReadL2Spec(p) \/ ReadLogSpec(p) \/ PersistL2(p) \/ PutL2(p)
    BY <2>4, StandingStays DEF ReadSpec, SpecMissing, PutL1, ReuseL2, ReadL2Spec, ReadLogSpec,
       PersistL2, PutL2
  <2>5. CASE \/ ReadL1(p) \/ ReadL2(p) \/ FindFallback(p) \/ MakeFallback(p)
             \/ LatestFallback(p) \/ ReadL2Version(p) \/ MatchCommits(p) \/ StageFails(p)
    BY <2>5, StandingStays DEF ReadL1, ReadL2, FindFallback, MakeFallback, LatestFallback,
       ReadL2Version, MatchCommits, StageFails
  <2>6. QED
    BY <1>4, <2>2, <2>3, <2>4, <2>5 DEF PipeStep
<1>5. QED
  BY <1>1, <1>2, <1>3, <1>4 DEF LayersNext

(* The CHOOSE of find_base_commit_from_records: the newest of the commits.   *)
LEMMA LastCommit ==
  ASSUME NEW n \in Nat, NEW S \in SUBSET (1..n), S # {},
         NEW b, b = CHOOSE i \in S : \A j \in S : j <= i
  PROVE  b \in S /\ \A j \in S : j <= b
<1> DEFINE After(i) == {j \in S : i < j}
           T == {After(i) : i \in S}
           R == StrictSubsetOrdering(S)
<1>1. IsFiniteSet(S)
  <2>1. 1 \in Int /\ n \in Int
    OBVIOUS
  <2>2. IsFiniteSet(1..n)
    BY <2>1, FS_Interval
  <2>3. QED
    BY <2>2, FS_Subset
<1>2. \A i \in S : i \in Nat
  OBVIOUS
<1>3. T \subseteq FiniteSubsetsOf(S) /\ T # {}
  <2>1. ASSUME NEW i \in S PROVE IsFiniteSet(After(i)) /\ After(i) \in SUBSET S
    <3>1. After(i) \in SUBSET S
      OBVIOUS
    <3>2. QED
      BY <1>1, <3>1, FS_Subset
  <2>2. QED
    BY <2>1 DEF FiniteSubsetsOf
<1>4. PICK X \in T : \A Y \in T : ~(<<Y, X>> \in R)
  BY <1>3, WFMin, FS_StrictSubsetOrderingWellFounded
<1>5. PICK i \in S : X = After(i)
  BY <1>4
<1>6. \A j \in S : j <= i
  <2>1. ASSUME NEW j \in S, i < j PROVE FALSE
    <3>0. i \in Nat /\ j \in Nat /\ j \in After(i) /\ j \notin After(j)
      BY <1>2, <2>1
    <3>1. After(j) \subseteq After(i)
      <4>1. ASSUME NEW k \in S, j < k PROVE i < k
        BY <1>2, <2>1, <4>1
      <4>2. QED
        BY <4>1
    <3>2. After(j) \in SUBSET S /\ After(i) \in SUBSET S /\ After(j) \in T
      OBVIOUS
    <3> HIDE DEF After
    <3>3. <<After(j), X>> \in R
      BY <1>5, <3>0, <3>1, <3>2 DEF StrictSubsetOrdering
    <3>4. QED
      BY <1>4, <3>2, <3>3
  <2>2. \A j \in S : ~(i < j)
    BY <2>1
  <2>3. QED
    BY <1>2, <2>2
<1>7. QED
  BY <1>6

(* Versions grow along a branch, so what comes after the base commit is of no  *)
(* earlier version than the one the base commit was found for, and of a later  *)
(* version or release if it has both.                                          *)
LEMMA BaseIsLast ==
  ASSUME NEW t, Grows(Line(t)), stored[t] \in SUBSET DOMAIN Line(t), NEW vr \in Nat \X Nat,
         NEW c \in stored[t], BaseCommit(t, vr) > 0, c > BaseCommit(t, vr)
  PROVE  /\ Line(t)[c][1] >= vr[1]
         /\ c \in Full(t) => Later(Line(t)[c], vr)
<1> DEFINE line == Line(t)
           exact == {i \in Full(t) : line[i] = vr}
           version == {i \in Named(t) : line[i][1] = vr[1]}
           same == IF exact # {} THEN exact ELSE version
           b == BaseCommit(t, vr)
<1>0. Full(t) \subseteq Named(t) /\ Named(t) \subseteq stored[t]
  BY DEF Full, Named
<1>1. /\ Len(line) \in Nat /\ DOMAIN line = 1..Len(line)
      /\ \A i \in DOMAIN line : line[i] \in Nat \X Nat
      /\ \A i, j \in DOMAIN line : i <= j => ~Later(line[i], line[j])
  BY DEF Grows
<1>2. same \in SUBSET (1..Len(line)) /\ same # {}
  BY <1>0, <1>1 DEF BaseCommit
<1>3. b = CHOOSE i \in same : \A j \in same : j <= i
  BY <1>2 DEF BaseCommit
<1> HIDE DEF b
<1>4. b \in same /\ \A j \in same : j <= b
  <2> HIDE DEF same
  <2>1. QED
    BY <1>1, <1>2, <1>3, LastCommit
<1>5. /\ b \in DOMAIN line /\ c \in DOMAIN line /\ b <= c /\ c \notin same
      /\ line[b] \in Nat \X Nat /\ line[c] \in Nat \X Nat /\ ~Later(line[b], line[c])
  BY <1>0, <1>1, <1>4 DEF b
<1>6. line[b][1] = vr[1]
  BY <1>4
<1>7. line[c][1] >= vr[1]
  BY <1>5, <1>6 DEF Later
<1>8. ASSUME c \in Full(t) PROVE Later(line[c], vr)
  <2>1. CASE exact # {}
    <3>1. line[b] = vr /\ line[c] # vr
      BY <1>4, <1>5, <1>8, <2>1
    <3>2. QED
      BY <1>5, <3>1 DEF Later
  <2>2. CASE exact = {}
    <3>1. line[c][1] # vr[1]
      BY <1>0, <1>4, <1>5, <1>8, <2>2
    <3>2. QED
      BY <1>5, <1>7, <3>1 DEF Later
  <2>3. QED
    BY <2>1, <2>2
<1>9. QED
  BY <1>7, <1>8

LEMMA LaterThanEarlier ==
  ASSUME NEW x \in Nat \X Nat, NEW y \in Nat \X Nat, NEW z \in Nat \X Nat,
         Later(x, y), ~Later(z, y)
  PROVE  Later(x, z)
BY DEF Later

(* The steps that neither read the L2 repository nor end a comparison.       *)
PlainStep(p) ==
  \/ \E t \in Rows : PipeStart(p, t)
  \/ SyncL1(p) \/ \E n \in 0..Tip(mem[p].row) : SyncFails(p, n)
  \/ ReadSpec(p) \/ SpecMissing(p) \/ PutL1(p) \/ ReuseL2(p)
  \/ ReadL1(p) \/ FindFallback(p) \/ MakeFallback(p) \/ LatestFallback(p)
  \/ FetchFallback(p) \/ \E n \in 0..Tip(mem[p].base) : FallbackFails(p, n)
  \/ StageFails(p)

LEMMA PlainSteps ==
  ASSUME HandsTyped, NEW p \in Pipelines, PlainStep(p)
  PROVE  /\ UNCHANGED <<tip, checkout, l2rec, l2snap, l2Moved>>
         /\ \A q \in Pipelines \ {p} : pc'[q] = pc[q] /\ mem'[q] = mem[q]
         /\ pc'[p] \notin {"log", "git", "putL2", "match"}
         /\ mem'[p].l2 \in {0, mem[p].l2}
         /\ report' = report \/ report'.found # "record"
<1>h. pc \in [Pipelines -> Phases] /\ mem \in [Pipelines -> Hands] /\ mem[p] \in Hands
  BY HandOf DEF HandsTyped
<1>1. ASSUME NEW t \in Rows, PipeStart(p, t)
      PROVE  /\ UNCHANGED <<tip, checkout, l2rec, l2snap, l2Moved, report>>
             /\ \A q \in Pipelines \ {p} : pc'[q] = pc[q] /\ mem'[q] = mem[q]
             /\ pc'[p] = "sync" /\ mem'[p].l2 = 0
  BY <1>h, <1>1 DEF PipeStart, Goto, Idle, branches
<1>2. CASE SyncL1(p) \/ \E n \in 0..Tip(mem[p].row) : SyncFails(p, n)
  BY <1>h, <1>2 DEF SyncL1, SyncFails, Goto, Quit, Idle, branches
<1>3. CASE ReadSpec(p) \/ SpecMissing(p) \/ PutL1(p)
  BY <1>h, <1>3 DEF ReadSpec, SpecMissing, PutL1, Goto, branches, Hands, ghosts
<1>4. CASE ReuseL2(p) \/ ReadL1(p) \/ FindFallback(p) \/ MakeFallback(p)
  BY <1>h, <1>4 DEF ReuseL2, ReadL1, FindFallback, MakeFallback, Goto, Quit, Idle, branches,
                    Hands, ghosts
<1>5. CASE LatestFallback(p)
  <2>1. UNCHANGED <<tip, checkout, l2rec, l2snap, l2Moved>>
    BY <1>5 DEF LatestFallback, branches, ghosts
  <2>2. CASE Goto(p, "fetch") /\ mem' = mem /\ report' = report
    BY <1>h, <2>1, <2>2 DEF Goto
  <2>3. CASE Quit(p) /\ (report' = report \/ report'.found = "skipped")
    BY <1>h, <2>1, <2>3 DEF Quit, Goto, Idle
  <2>4. ASSUME NEW x, NEW y, mem' = [mem EXCEPT ![p].own = x, ![p].l1 = y],
               Goto(p, "version"), report' = report
        PROVE  /\ UNCHANGED <<tip, checkout, l2rec, l2snap, l2Moved, report>>
               /\ \A q \in Pipelines \ {p} : pc'[q] = pc[q] /\ mem'[q] = mem[q]
               /\ pc'[p] = "version" /\ mem'[p].l2 = mem[p].l2
    BY <1>h, <2>1, <2>4 DEF Goto, Hands
  <2>5. QED
    BY <1>5, <2>2, <2>3, <2>4 DEF LatestFallback, Comparison
<1>6. CASE FetchFallback(p) \/ StageFails(p)
  BY <1>h, <1>6 DEF FetchFallback, StageFails, Goto, Quit, Idle, branches
<1>7. CASE \E n \in 0..Tip(mem[p].base) : FallbackFails(p, n)
  BY <1>h, <1>7 DEF FallbackFails, Comparison, Goto, Quit, Idle, branches
<1>8. QED
  BY <1>1, <1>2, <1>3, <1>4, <1>5, <1>6, <1>7 DEF PlainStep

(* The L2 side of the other pipelines' hands, when it only grows.            *)
LEMMA StampedKept ==
  ASSUME LayersInv, NEW w, NEW m \in Hands, Stamped(w, m),
         tip'.l2 \in Nat, tip'.l2 >= tip.l2, checkout' = checkout,
         l2rec'.n \in Nat, l2rec'.n >= l2rec.n, l2Moved => l2Moved',
         w = "git" => l2Moved' \/ tip' = tip
  PROVE  Stamped(w, m)'
<1>1. tip.l2 \in Nat /\ l2rec.n \in Nat /\ m.l2 \in Nat /\ m.held \in Nat
  BY DEF LayersInv, TablesTyped, Hands
<1>2. QED
  BY <1>1 DEF Stamped

LEMMA ReportStays ==
  ASSUME ReportInv, StoredStays, report' = report \/ report'.found # "record", l2Moved => l2Moved'
  PROVE  ReportInv'
<1>1. CASE report'.found # "record"
  BY <1>1 DEF ReportInv, BehindIsNewer
<1>2. CASE report' = report
  <2>1. CASE report # NoReport /\ report.found = "record"
    <3>1. PICK t \in Rows : t = report.base /\ report.behind \subseteq stored[t]
      BY <2>1 DEF ReportInv
    <3>2. stored[t] \subseteq stored'[t] /\ Full(t)' \cap stored[t] \subseteq Full(t)
      BY <3>1 DEF StoredStays
    <3>3. BehindIsNewer'
      BY <1>2, <2>1, <3>1, <3>2 DEF ReportInv, BehindIsNewer
    <3>4. QED
      BY <1>2, <3>1, <3>2, <3>3 DEF ReportInv
  <2>2. QED
    BY <1>2, <2>1 DEF ReportInv, BehindIsNewer
<1>3. QED
  BY <1>1, <1>2

(* A pipeline's hand changes, and so may the record of L2 commits.           *)
LEMMA StampedMoves ==
  ASSUME LayersInv, BehindInv, NEW p \in Pipelines,
         \A q \in Pipelines \ {p} : pc'[q] = pc[q] /\ mem'[q] = mem[q],
         UNCHANGED <<tip, checkout, l2Moved>>, l2rec'.n \in Nat, l2rec'.n >= l2rec.n,
         NEW w, w = pc'[p], NEW m, m = mem'[p], Stamped(w, m)'
  PROVE  \A q \in Pipelines : Stamped(pc[q], mem[q])'
<1> SUFFICES ASSUME NEW q \in Pipelines PROVE Stamped(pc[q], mem[q])'
  OBVIOUS
<1>1. CASE q = p
  BY <1>1 DEF Stamped
<1>2. CASE q # p
  <2>1. PICK v \in Phases, h \in Hands : v = pc[q] /\ h = mem[q]
    BY HandOf DEF LayersInv
  <2>2. Stamped(v, h)
    BY <2>1 DEF BehindInv
  <2>3. tip.l2 \in Nat
    BY DEF LayersInv, TablesTyped
  <2>4. Stamped(v, h)'
    BY <2>2, <2>3, StampedKept
  <2>5. pc'[q] = v /\ mem'[q] = h
    BY <1>2, <2>1
  <2>6. QED
    BY <2>4, <2>5 DEF Stamped
<1>3. QED
  BY <1>1, <1>2

LEMMA BehindOutside ==
  ASSUME LayersInv, BehindInv,
         \/ \E b \in {"l1", "fallback"} : L1Commit(b)
         \/ L2Commit
         \/ \E n \in DOMAIN L2Line : PushL2(n),
         StoredStays
  PROVE  BehindInv'
<1> USE DEF LayersInv, TablesTyped
<1>0. /\ Len(PrimaryLine) \in Nat /\ Len(FallbackLine) \in Nat /\ Len(L2Line) \in Nat
  <2>1. \A line : Grows(line) => Len(line) \in Nat
    BY DEF Grows
  <2>2. QED
    BY <2>1, LayersAssumption
<1>1. /\ pc' = pc /\ mem' = mem /\ report' = report /\ l2rec' = l2rec /\ checkout' = checkout
      /\ l2Moved => l2Moved'
      /\ tip'.l2 \in Nat /\ tip'.l2 >= tip.l2
      /\ (\E p \in Pipelines : pc[p] = "git") => l2Moved' \/ tip'.l2 = tip.l2
  <2>1. ASSUME NEW b \in {"l1", "fallback"}, L1Commit(b)
        PROVE  /\ UNCHANGED <<pc, mem, report, l2rec, checkout, l2Moved>>
               /\ tip'.l2 = tip.l2
    BY <2>1 DEF L1Commit, ghosts
  <2>2. CASE L2Commit
    <3>1. UNCHANGED <<pc, mem, report, l2rec, checkout>> /\ tip'.l2 = tip.l2 + 1
      BY <2>2 DEF L2Commit
    <3>2. l2Moved' = (l2Moved \/ Exporting # {})
      BY <2>2 DEF L2Commit
    <3>3. (\E p \in Pipelines : pc[p] = "git") => Exporting # {}
      BY DEF Exporting
    <3>4. tip.l2 \in Nat
      OBVIOUS
    <3>5. tip'.l2 \in Nat /\ tip'.l2 >= tip.l2
      BY <3>1, <3>4
    <3>6. (l2Moved => l2Moved') /\ ((\E p \in Pipelines : pc[p] = "git") => l2Moved')
      BY <3>2, <3>3, Zenon
    <3>7. QED
      BY <3>1, <3>5, <3>6, Zenon
  <2>3. CASE \E n \in DOMAIN L2Line : PushL2(n)
    BY <2>3 DEF PushL2, branches, ghosts
  <2>4. QED
    BY <2>1, <2>2, <2>3
<1>2. StampTables'
  <2>1. CASE \E b \in {"l1", "fallback"} : L1Commit(b)
    BY <1>0, <1>1, <2>1 DEF BehindInv, StampTables, L1Commit, ghosts
  <2>2. CASE L2Commit
    BY <1>0, <1>1, <2>2 DEF BehindInv, StampTables, L2Commit
  <2>3. CASE \E n \in DOMAIN L2Line : PushL2(n)
    BY <1>0, <1>1, <2>3 DEF BehindInv, StampTables, PushL2, branches, ghosts
  <2>4. QED
    BY <2>1, <2>2, <2>3
<1>3. ASSUME NEW p \in Pipelines PROVE Stamped(pc[p], mem[p])'
  <2>1. PICK v \in Phases, h \in Hands : v = pc[p] /\ h = mem[p]
    BY HandOf
  <2>2. Stamped(v, h)
    BY <2>1 DEF BehindInv
  <2>3. h.l2 \in Nat /\ h.held \in Nat
    BY DEF Hands
  <2>4. Stamped(v, h)'
    BY <1>1, <2>1, <2>2, <2>3 DEF Stamped
  <2>5. QED
    BY <1>1, <2>1, <2>4 DEF Stamped
<1>4. ReportInv'
  BY <1>1, ReportStays DEF BehindInv
<1>5. QED
  BY <1>2, <1>3, <1>4 DEF BehindInv

LEMMA BehindExports ==
  ASSUME LayersInv, BehindInv, NEW p \in Pipelines,
         ReadL2Spec(p) \/ ReadLogSpec(p) \/ PersistL2(p) \/ PutL2(p), StoredStays
  PROVE  BehindInv'
<1> DEFINE m == mem[p]
           Others == \A q \in Pipelines \ {p} : pc'[q] = pc[q] /\ mem'[q] = mem[q]
<1>h. /\ pc \in [Pipelines -> Phases] /\ mem \in [Pipelines -> Hands]
      /\ m \in Hands /\ Fits(pc[p], m) /\ Stamped(pc[p], m)
  BY HandOf DEF LayersInv, HandsTyped, BehindInv
<1>t. /\ tip.l2 \in Nat \ {0} /\ l2rec.n \in Nat /\ l2rec.spec \in Nat /\ l2rec.n <= tip.l2
      /\ m.l2 \in Nat /\ m.held \in Nat /\ StampTables
  BY <1>h DEF LayersInv, TablesTyped, Hands, BehindInv
<1>1. CASE ReadL2Spec(p)
  <2>1. /\ pc[p] = "l2" /\ checkout /\ UNCHANGED <<tip, checkout, l2rec, l2snap, l2Moved, report>>
        /\ Others /\ pc'[p] = "log" /\ mem'[p].l2 = m.l2
    BY <1>h, <1>1 DEF ReadL2Spec, Goto, branches, ghosts, Hands
  <2>2. ASSUME NEW w, w = pc'[p], NEW n, n = mem'[p] PROVE Stamped(w, n)'
    BY <1>h, <2>1, <2>2 DEF Stamped
  <2>3. \A q \in Pipelines : Stamped(pc[q], mem[q])'
    BY <1>t, <2>1, <2>2, StampedMoves
  <2>4. QED
    BY <1>t, <2>1, <2>3, ReportStays DEF BehindInv, StampTables
<1>2. CASE ReadLogSpec(p)
  <2>1. /\ pc[p] = "log" /\ UNCHANGED <<tip, checkout, l2rec, l2snap, l2Moved, report>>
        /\ Others /\ pc'[p] = "git" /\ mem'[p].l2 = m.l2 /\ mem'[p].stamp = tip.l2
    BY <1>h, <1>2 DEF ReadLogSpec, Goto, branches, ghosts, Hands
  <2>2. ASSUME NEW w, w = pc'[p], NEW n, n = mem'[p] PROVE Stamped(w, n)'
    BY <1>h, <2>1, <2>2 DEF Stamped
  <2>3. \A q \in Pipelines : Stamped(pc[q], mem[q])'
    BY <1>t, <2>1, <2>2, StampedMoves
  <2>4. QED
    BY <1>t, <2>1, <2>3, ReportStays DEF BehindInv, StampTables
<1>3. CASE PersistL2(p)
  <2>1. /\ pc[p] = "git" /\ UNCHANGED <<tip, checkout, l2snap, l2Moved, report>>
        /\ Others /\ pc'[p] = "putL2" /\ mem'[p].l2 = m.l2 /\ mem'[p].held = m.held
        /\ l2rec' = IF tip.l2 > l2rec.n THEN [n |-> tip.l2, spec |-> m.stamp] ELSE l2rec
    BY <1>h, <1>3 DEF PersistL2, Goto, branches, ghosts, Hands
  <2>2. l2rec'.n = tip.l2
    BY <1>t, <2>1
  <2>3. m.held <= tip.l2 /\ checkout
    BY <1>h, <2>1 DEF Fits, Stamped
  <2>4. ASSUME NEW w, w = pc'[p], NEW n, n = mem'[p] PROVE Stamped(w, n)'
    BY <1>h, <1>t, <2>1, <2>2, <2>3, <2>4 DEF Stamped
  <2>5. \A q \in Pipelines : Stamped(pc[q], mem[q])'
    BY <1>t, <2>1, <2>2, <2>4, StampedMoves
  <2>6. StampTables'
    <3>1. ~l2Moved => l2rec'.spec = l2rec'.n
      BY <1>h, <1>t, <2>1 DEF Stamped, StampTables
    <3>2. l2snap # NoSnapshot => l2snap \in Nat /\ l2snap <= tip.l2
      BY <1>t DEF LayersInv, TablesTyped
    <3>3. QED
      BY <1>t, <2>1, <2>2, <2>3, <3>1, <3>2 DEF StampTables
  <2>7. QED
    BY <2>1, <2>5, <2>6, ReportStays DEF BehindInv
<1>4. CASE PutL2(p)
  <2>1. /\ pc[p] = "putL2" /\ UNCHANGED <<tip, checkout, l2rec, l2Moved, report>>
        /\ Others /\ pc'[p] = "readL1" /\ mem'[p] = m /\ l2snap' = m.held
    BY <1>h, <1>4 DEF PutL2, Goto, branches, ghosts
  <2>2. ASSUME NEW w, w = pc'[p], NEW n, n = mem'[p] PROVE Stamped(w, n)'
    BY <1>h, <2>1, <2>2 DEF Stamped
  <2>3. \A q \in Pipelines : Stamped(pc[q], mem[q])'
    BY <1>t, <2>1, <2>2, StampedMoves
  <2>4. StampTables'
    BY <1>h, <1>t, <2>1 DEF StampTables, Stamped
  <2>5. QED
    BY <2>1, <2>3, <2>4, ReportStays DEF BehindInv
<1>5. QED
  BY <1>1, <1>2, <1>3, <1>4

(* What is said to be behind comes after the base commit of a version that   *)
(* is no older than the snapshot compared.                                   *)
LEMMA BehindMatches ==
  ASSUME LayersInv, BehindInv, NEW p \in Pipelines, MatchCommits(p)
  PROVE  ReportInv'
<1> DEFINE m == mem[p]
           vr == L2Line[m.held]
           now == L2Line[m.l2]
<1>0. PICK t \in Rows : t = m.base
  BY HandOf DEF LayersInv, Hands
<1> DEFINE line == Line(t)
<1>1. CASE report'.found # "record"
  BY <1>1 DEF ReportInv, BehindIsNewer
<1>2. CASE report'.found = "record"
  <2>1. /\ pc[p] = "match" /\ BaseCommit(t, vr) > 0 /\ report'.base = t /\ report'.l2 = m.l2
        /\ report'.behind = {i \in stored[t] : i > BaseCommit(t, vr)}
        /\ UNCHANGED <<stored, blank, l2Moved>>
    BY <1>0, <1>2 DEF MatchCommits, Comparison, ghosts
  <2>2. m \in Hands /\ Fits(pc[p], m) /\ Stamped(pc[p], m)
    BY HandOf DEF LayersInv, BehindInv
  <2>4. ASSUME ~l2Moved, NEW c \in report'.behind
        PROVE  line[c][1] >= now[1] /\ (c \in Full(t) => Later(line[c], now))
    <3>1. m.l2 \in Nat /\ m.l2 # 0 /\ m.l2 <= m.held /\ m.held \in 1..tip.l2
      BY <2>1, <2>2, <2>4 DEF Hands, Fits, Stamped, MatchPhases
    <3>2. /\ Grows(line) /\ Grows(L2Line) /\ DOMAIN line = 1..Len(line) /\ Len(line) \in Nat
          /\ DOMAIN L2Line = 1..Len(L2Line) /\ Len(L2Line) \in Nat
          /\ \A i \in DOMAIN L2Line : L2Line[i] \in Nat \X Nat
          /\ \A i \in DOMAIN line : line[i] \in Nat \X Nat
      BY LayersAssumption DEF Grows, Line
    <3>3. /\ tip.l2 \in Nat /\ tip.l2 <= Len(L2Line)
          /\ Tip(t) \in Nat /\ Tip(t) <= Len(line) /\ stored[t] \subseteq 1..Tip(t)
      BY DEF LayersInv, TablesTyped, BehindInv, StampTables, Tip, Line
    <3>4. m.l2 \in DOMAIN L2Line /\ m.held \in DOMAIN L2Line /\ stored[t] \in SUBSET DOMAIN line
      BY <3>1, <3>2, <3>3
    <3>5. /\ vr \in Nat \X Nat /\ now \in Nat \X Nat /\ ~Later(now, vr)
      BY <3>1, <3>2, <3>4 DEF Grows
    <3>6. c \in stored[t] /\ c > BaseCommit(t, vr) /\ line[c] \in Nat \X Nat
      BY <2>1, <2>4, <3>2, <3>4
    <3> HIDE DEF vr, now
    <3>7. line[c][1] >= vr[1] /\ (c \in Full(t) => Later(line[c], vr))
      BY <2>1, <3>2, <3>4, <3>5, <3>6, BaseIsLast
    <3> HIDE DEF line
    <3>8. line[c][1] >= now[1]
      BY <3>5, <3>6, <3>7 DEF Later
    <3>9. QED
      BY <3>5, <3>6, <3>7, <3>8, LaterThanEarlier
  <2>5. BehindIsNewer'
    <3>1. Full(t)' = Full(t)
      BY <2>1 DEF Full, Named
    <3>2. QED
      BY <2>1, <2>4, <3>1 DEF BehindIsNewer
  <2>6. QED
    BY <2>1, <2>5 DEF ReportInv
<1>3. QED
  BY <1>1, <1>2

LEMMA BehindCompares ==
  ASSUME LayersInv, BehindInv, NEW p \in Pipelines,
         PlainStep(p) \/ ReadL2(p) \/ ReadL2Version(p) \/ MatchCommits(p), StoredStays
  PROVE  BehindInv'
<1> DEFINE m == mem[p]
           Others == \A q \in Pipelines \ {p} : pc'[q] = pc[q] /\ mem'[q] = mem[q]
           Frame == UNCHANGED <<tip, checkout, l2rec, l2snap, l2Moved>>
<1>h. /\ pc \in [Pipelines -> Phases] /\ mem \in [Pipelines -> Hands]
      /\ m \in Hands /\ Fits(pc[p], m) /\ Stamped(pc[p], m)
  BY HandOf DEF LayersInv, HandsTyped, BehindInv
<1>t. /\ tip.l2 \in Nat \ {0} /\ l2rec.n \in Nat /\ l2rec.spec \in Nat /\ l2rec.n <= tip.l2
      /\ m.l2 \in Nat /\ m.held \in Nat /\ StampTables
      /\ l2snap \in {NoSnapshot} \cup 1..tip.l2
  BY <1>h DEF LayersInv, TablesTyped, Hands, BehindInv
<1>0. PICK w, n : w = pc'[p] /\ n = mem'[p]
  OBVIOUS
<1>1. ASSUME Frame, Others, ReportInv', Stamped(w, n)
      PROVE  BehindInv'
  <2>1. Stamped(w, n)'
    BY <1>1 DEF Stamped
  <2>2. \A q \in Pipelines : Stamped(pc[q], mem[q])'
    BY <1>0, <1>1, <1>t, <2>1, StampedMoves
  <2>3. QED
    BY <1>1, <1>t, <2>2 DEF BehindInv, StampTables
<1>2. CASE PlainStep(p)
  <2>1. /\ Frame /\ Others /\ (report' = report \/ report'.found # "record")
        /\ pc'[p] \notin {"log", "git", "putL2", "match"} /\ mem'[p].l2 \in {0, m.l2}
    BY <1>2, PlainSteps DEF LayersInv
  <2>2. Stamped(w, n)
    BY <1>0, <1>h, <1>t, <2>1 DEF Stamped
  <2>3. QED
    <3>1. ReportInv'
      BY <2>1, ReportStays DEF BehindInv
    <3>2. QED
      BY <1>1, <2>1, <2>2, <3>1
<1>3. CASE ReadL2(p)
  <2>1. Frame /\ Others /\ report' = report
    BY <1>h, <1>3 DEF ReadL2, Goto, Quit, branches, ghosts
  <2>2. /\ pc'[p] \notin {"log", "git", "putL2", "match"}
        /\ mem'[p].l2 = 0 \/ (mem'[p].l2 = l2snap /\ l2snap # NoSnapshot)
    <3>1. CASE Quit(p)
      BY <1>h, <3>1 DEF Quit, Goto, Idle
    <3>2. ASSUME l2snap # NoSnapshot, mem' = [mem EXCEPT ![p].l2 = l2snap],
                 NEW v \in {"find", "version"}, Goto(p, v)
          PROVE  /\ pc'[p] \notin {"log", "git", "putL2", "match"}
                 /\ mem'[p].l2 = l2snap /\ l2snap # NoSnapshot
      BY <1>h, <3>2 DEF Goto, Hands
    <3>3. QED
      BY <1>3, <3>1, <3>2 DEF ReadL2
  <2>3. Stamped(w, n)
    BY <1>0, <1>h, <1>t, <2>2 DEF Stamped, StampTables
  <2>4. QED
    BY <1>1, <2>1, <2>3, ReportStays DEF BehindInv
<1>4. CASE ReadL2Version(p)
  <2>1. /\ Frame /\ Others /\ report' = report /\ pc[p] = "version" /\ pc'[p] = "match"
        /\ mem'[p].l2 = m.l2
        /\ mem'[p].held = IF m.row = 0 /\ l2rec.n > 0 THEN l2rec.spec ELSE m.l2
    BY <1>h, <1>4 DEF ReadL2Version, Goto, branches, ghosts, Hands
  <2>2. m.l2 # 0 /\ m.l2 <= tip.l2
    BY <1>h, <2>1 DEF Fits, MatchPhases, Stamped
  <2>3. l2rec.n > 0 => m.l2 <= l2rec.n /\ (~l2Moved => l2rec.spec = l2rec.n)
    BY <1>h, <1>t DEF StampTables, Stamped
  <2>5. w = "match" /\ n.l2 = m.l2 /\ (~l2Moved => n.held \in 1..tip.l2 /\ m.l2 <= n.held)
    BY <1>0, <1>t, <2>1, <2>2, <2>3
  <2>7. Stamped(w, n)
    BY <1>h, <2>1, <2>2, <2>5 DEF Stamped
  <2>6. QED
    BY <1>1, <2>1, <2>7, ReportStays DEF BehindInv
<1>5. CASE MatchCommits(p)
  <2>1. Frame /\ Others /\ pc'[p] = "off" /\ mem'[p].l2 = 0
    BY <1>h, <1>5 DEF MatchCommits, Goto, Quit, Idle, branches, ghosts
  <2>2. Stamped(w, n)
    BY <1>0, <1>h, <1>t, <2>1 DEF Stamped
  <2>3. QED
    BY <1>1, <1>5, <2>1, <2>2, BehindMatches
<1>6. QED
  BY <1>2, <1>3, <1>4, <1>5

LEMMA BehindStep ==
  ASSUME LayersInv, BehindInv, [LayersNext]_layerVars
  PROVE  BehindInv'
<1>0. StoredStays
  BY StepsStay DEF LayersInv
<1>1. CASE UNCHANGED layerVars
  <2>1. ReportInv'
    BY <1>0, <1>1, ReportStays DEF BehindInv, layerVars, ghosts
  <2>2. QED
    BY <1>1, <2>1 DEF layerVars, branches, ghosts, BehindInv, StampTables, Stamped
<1>2. CASE \/ \E b \in {"l1", "fallback"} : L1Commit(b)
           \/ L2Commit
           \/ \E n \in DOMAIN L2Line : PushL2(n)
  BY <1>0, <1>2, BehindOutside
<1>3. ASSUME NEW p \in Pipelines, PipeStep(p) \/ \E t \in Rows : PipeStart(p, t)
      PROVE  BehindInv'
  BY <1>0, <1>3, BehindExports, BehindCompares DEF PipeStep, PlainStep
<1>4. QED
  BY <1>1, <1>2, <1>3 DEF LayersNext

(* Whatever pipelines export and compare next to each other, the commits L2  *)
(* is said to be behind are of no earlier version than the snapshot compared *)
(* (compare_commit_db_with_tracking_ids), and of a later version or release  *)
(* unless a commit was stored without its own, while no export overlapped a  *)
(* change of the L2 repository (BehindIsNewer).                              *)
THEOREM BehindCommitsAreNewer == LayersSpec => []BehindIsNewer
<1>1. LayersInit => BehindInv
  <2>1. ASSUME LayersInit, NEW p \in Pipelines PROVE Stamped(pc[p], mem[p])
    BY <2>1 DEF LayersInit, Stamped, Idle
  <2>2. ASSUME LayersInit PROVE StampTables
    <3>1. \A line : Grows(line) => Len(line) \in Nat /\ 1 <= Len(line)
      BY DEF Grows
    <3>2. QED
      BY <2>2, <3>1, LayersAssumption DEF LayersInit, StampTables
  <2>3. QED
    BY <2>1, <2>2 DEF LayersInit, BehindInv, ReportInv, BehindIsNewer
<1>2. BehindInv => BehindIsNewer
  BY DEF BehindInv, ReportInv
<1>3. QED
  BY <1>1, <1>2, BehindStep, Invariant, PTL DEF LayersSpec
-----------------------------------------------------------------------------
(* The latest snapshot covers the stored commits                             *)

SnapPhases == {"spec", "put", "specF", "putF"}

\* p stored commits of row t and has yet to insert the snapshot
Snaps(p, t) == pc[p] \in SnapPhases /\ mem[p].base = t

Covered(t) ==
  stored[t] # {} => l1snap[t] # NoSnapshot /\ \A c \in stored[t] : c <= l1snap[t]

CoverAt(t) ==
  /\ \A p, q \in Pipelines : Snaps(p, t) /\ Snaps(q, t) => p = q
  /\ (\A p \in Pipelines : ~Snaps(p, t)) => Covered(t)
  /\ \A p \in Pipelines : Snaps(p, t) /\ pc[p] \in {"put", "putF"} =>
       \A c \in stored[t] : c <= mem[p].held

(* The inductive form of LatestCovers: of a row whose ingestions neither     *)
(* overlapped nor failed at most one pipeline is making a snapshot, and what *)
(* that pipeline read, or else the latest snapshot, is no older than the     *)
(* commits stored.                                                           *)
CoverInv == \A t \in Rows \ clouded : CoverAt(t)

Others(p) == \A q \in Pipelines \ {p} : pc'[q] = pc[q] /\ mem'[q] = mem[q]

(* Whoever is making a snapshot is ingesting the row for SyncL1 to see.      *)
LEMMA SnapsIngests ==
  ASSUME LayersInv, NEW p \in Pipelines, NEW t, Snaps(p, t)
  PROVE  Ingests(p, t)
<1>1. mem[p] \in Hands /\ Fits(pc[p], mem[p])
  BY HandOf DEF LayersInv
<1>2. QED
  BY <1>1 DEF Snaps, SnapPhases, Ingests, Fits, OwnPhases

(* A step that leaves row t as it is, by a pipeline that makes no snapshot   *)
(* of it before or after.                                                    *)
LEMMA CoverElsewhere ==
  ASSUME NEW p \in Pipelines, NEW t, CoverAt(t), Others(p),
         stored'[t] = stored[t], l1snap'[t] = l1snap[t],
         ~Snaps(p, t), ~Snaps(p, t)'
  PROVE  CoverAt(t)'
<1>1. \A q \in Pipelines \ {p} :
        (Snaps(q, t)' <=> Snaps(q, t)) /\ pc'[q] = pc[q] /\ mem'[q] = mem[q]
  BY DEF Others, Snaps
<1>2. \A q, r \in Pipelines : Snaps(q, t)' /\ Snaps(r, t)' => q = r
  BY <1>1 DEF CoverAt
<1>3. (\A q \in Pipelines : ~Snaps(q, t)') => Covered(t)'
  <2>1. (\A q \in Pipelines : ~Snaps(q, t)') => \A q \in Pipelines : ~Snaps(q, t)
    BY <1>1
  <2>2. QED
    BY <2>1 DEF CoverAt, Covered
<1>4. ASSUME NEW q \in Pipelines, Snaps(q, t)', pc'[q] \in {"put", "putF"}
      PROVE  \A c \in stored'[t] : c <= mem'[q].held
  <2>1. q # p
    BY <1>4
  <2>2. Snaps(q, t) /\ pc'[q] = pc[q] /\ mem'[q] = mem[q]
    BY <1>1, <1>4, <2>1
  <2>3. QED
    BY <1>4, <2>2 DEF CoverAt
<1>5. QED
  BY <1>2, <1>3, <1>4 DEF CoverAt

(* p stores commits of row t and will insert a snapshot, alone.              *)
LEMMA CoverBegins ==
  ASSUME LayersInv, NEW p \in Pipelines, NEW t, Others(p),
         \A q \in Pipelines \ {p} : ~Ingests(q, t),
         pc'[p] \in {"spec", "specF"}, mem'[p].base = t
  PROVE  CoverAt(t)'
<1>1. \A q \in Pipelines \ {p} : ~Snaps(q, t)
  BY SnapsIngests
<1>2. \A q \in Pipelines \ {p} : ~Snaps(q, t)'
  BY <1>1 DEF Others, Snaps
<1>3. Snaps(p, t)' /\ pc'[p] \notin {"put", "putF"}
  BY DEF Snaps, SnapPhases
<1>4. QED
  BY <1>2, <1>3 DEF CoverAt

LEMMA CoverRead ==
  ASSUME NEW p \in Pipelines, NEW t, CoverAt(t), Others(p), Snaps(p, t),
         Snaps(p, t)', \A c \in stored'[t] : c <= mem'[p].held
  PROVE  CoverAt(t)'
<1>1. \A q \in Pipelines \ {p} : ~Snaps(q, t)
  BY DEF CoverAt
<1>2. \A q \in Pipelines \ {p} : ~Snaps(q, t)'
  BY <1>1 DEF Others, Snaps
<1>3. QED
  BY <1>2 DEF CoverAt

LEMMA CoverEnds ==
  ASSUME NEW p \in Pipelines, NEW t, CoverAt(t), Others(p), Snaps(p, t),
         ~Snaps(p, t)', Covered(t)'
  PROVE  CoverAt(t)'
<1>1. \A q \in Pipelines \ {p} : ~Snaps(q, t)
  BY DEF CoverAt
<1>2. \A q \in Pipelines : ~Snaps(q, t)'
  BY <1>1 DEF Others, Snaps
<1>3. QED
  BY <1>2 DEF CoverAt

(* The steps that leave the ingestion of the L1 rows alone.                  *)
QuietStep(p) ==
  \/ \E t \in Rows : PipeStart(p, t)
  \/ ReuseL2(p) \/ ReadL2Spec(p) \/ ReadLogSpec(p) \/ PersistL2(p) \/ PutL2(p)
  \/ ReadL1(p) \/ ReadL2(p) \/ FindFallback(p) \/ MakeFallback(p)
  \/ LatestFallback(p) \/ ReadL2Version(p) \/ MatchCommits(p)

LEMMA QuietSteps ==
  ASSUME HandsTyped, NEW p \in Pipelines, QuietStep(p)
  PROVE  /\ UNCHANGED <<stored, l1snap, clouded>>
         /\ Others(p)
         /\ pc[p] \notin SnapPhases /\ pc'[p] \notin SnapPhases
<1>h. pc \in [Pipelines -> Phases] /\ mem \in [Pipelines -> Hands] /\ mem[p] \in Hands
  BY HandOf DEF HandsTyped
<1> USE DEF SnapPhases, Others
<1>1. ASSUME NEW t \in Rows, PipeStart(p, t)
      PROVE  /\ UNCHANGED <<stored, l1snap, clouded>>
             /\ Others(p)
             /\ pc[p] \notin SnapPhases /\ pc'[p] \notin SnapPhases
  BY <1>h, <1>1 DEF PipeStart, Goto
<1>2. CASE ReuseL2(p) \/ ReadL2Spec(p) \/ ReadLogSpec(p)
  BY <1>h, <1>2 DEF ReuseL2, ReadL2Spec, ReadLogSpec, Goto, Quit, ghosts
<1>3. CASE PersistL2(p) \/ PutL2(p)
  BY <1>h, <1>3 DEF PersistL2, PutL2, Goto, ghosts
<1>4. CASE ReadL1(p) \/ ReadL2(p)
  BY <1>h, <1>4 DEF ReadL1, ReadL2, Goto, Quit, ghosts
<1>5. CASE FindFallback(p) \/ MakeFallback(p)
  BY <1>h, <1>5 DEF FindFallback, MakeFallback, Goto, ghosts
<1>6. CASE LatestFallback(p)
  BY <1>h, <1>6 DEF LatestFallback, Goto, Quit, ghosts
<1>7. CASE ReadL2Version(p) \/ MatchCommits(p)
  BY <1>h, <1>7 DEF ReadL2Version, MatchCommits, Goto, Quit, ghosts
<1>8. QED
  BY <1>1, <1>2, <1>3, <1>4, <1>5, <1>6, <1>7 DEF QuietStep

(* A pipeline fails: the row it was making a snapshot of is clouded.         *)
LEMMA CoverFails ==
  ASSUME LayersInv, CoverInv, NEW p \in Pipelines,
         \/ \E n \in 0..Tip(mem[p].row) : SyncFails(p, n)
         \/ \E n \in 0..Tip(mem[p].base) : FallbackFails(p, n)
         \/ StageFails(p)
  PROVE  CoverInv'
<1>h. /\ pc \in [Pipelines -> Phases] /\ mem \in [Pipelines -> Hands]
      /\ mem[p] \in Hands /\ Fits(pc[p], mem[p])
      /\ stored \in [Rows -> SUBSET Nat]
  BY HandOf DEF LayersInv, HandsTyped, TablesTyped
<1>1. /\ Quit(p) /\ l1snap' = l1snap
      /\ \A t \in Rows \ clouded' : t \notin clouded /\ stored'[t] = stored[t] /\ ~Snaps(p, t)
  <2>1. ASSUME NEW n, SyncFails(p, n)
        PROVE  /\ Quit(p) /\ l1snap' = l1snap
               /\ \A t \in Rows \ clouded' :
                    t \notin clouded /\ stored'[t] = stored[t] /\ ~Snaps(p, t)
    BY <1>h, <2>1 DEF SyncFails, StoreSome, Store, Cloud, Snaps, SnapPhases
  <2>2. ASSUME NEW n, FallbackFails(p, n)
        PROVE  /\ Quit(p) /\ l1snap' = l1snap
               /\ \A t \in Rows \ clouded' :
                    t \notin clouded /\ stored'[t] = stored[t] /\ ~Snaps(p, t)
    BY <1>h, <2>2 DEF FallbackFails, StoreSome, Store, Cloud, Snaps, SnapPhases
  <2>3. CASE StageFails(p)
    <3>1. Quit(p) /\ l1snap' = l1snap /\ stored' = stored
      BY <2>3 DEF StageFails
    <3>2. ASSUME NEW t \in Rows \ clouded' PROVE t \notin clouded /\ ~Snaps(p, t)
      BY <1>h, <2>3, <3>2 DEF StageFails, Cloud, Snaps, SnapPhases, Fits, OwnPhases
    <3>3. QED
      BY <3>1, <3>2
  <2>4. QED
    BY <2>1, <2>2, <2>3
<1>2. Others(p) /\ pc'[p] = "off"
  BY <1>h, <1>1 DEF Quit, Goto, Others
<1>3. \A t : ~Snaps(p, t)'
  BY <1>2 DEF Snaps, SnapPhases
<1>4. ASSUME NEW t \in Rows \ clouded' PROVE CoverAt(t)'
  BY <1>1, <1>2, <1>3, CoverElsewhere DEF CoverInv
<1>5. QED
  BY <1>4 DEF CoverInv

(* Commits are stored, by the sync of the tracking or of its fallback row.   *)
LEMMA CoverSyncs ==
  ASSUME LayersInv, CoverInv, NEW p \in Pipelines, SyncL1(p) \/ FetchFallback(p)
  PROVE  CoverInv'
<1> DEFINE r == mem[p].base
<1>h. /\ pc \in [Pipelines -> Phases] /\ mem \in [Pipelines -> Hands]
      /\ mem[p] \in Hands /\ Fits(pc[p], mem[p])
      /\ stored \in [Rows -> SUBSET Nat] /\ r \in Rows
  BY HandOf DEF LayersInv, HandsTyped, TablesTyped, Hands
<1>1. /\ pc[p] \in {"sync", "fetch"} /\ l1snap' = l1snap /\ clouded \subseteq clouded'
      /\ stored' = [stored EXCEPT ![r] = @ \cup Listing(r)]
  BY <1>h DEF SyncL1, FetchFallback, StoreAll, Store, Cloud, Fits, OwnPhases
<1>2. Others(p)
  BY <1>h DEF SyncL1, FetchFallback, Goto, Quit, Others
<1>3. \A t \in Rows : ~Snaps(p, t)
  BY <1>1 DEF Snaps, SnapPhases
<1>4. CASE mem' = mem /\ pc'[p] \in {"spec", "specF"}
           /\ ((\E q \in Pipelines \ {p} : Ingests(q, r)) => r \in clouded')
  <2>1. ASSUME NEW t \in Rows \ clouded', t # r PROVE CoverAt(t)'
    <3>1. stored'[t] = stored[t] /\ l1snap'[t] = l1snap[t] /\ CoverAt(t) /\ ~Snaps(p, t)
      BY <1>h, <1>1, <1>3, <2>1 DEF CoverInv
    <3>2. ~Snaps(p, t)'
      BY <1>4, <2>1 DEF Snaps
    <3>3. QED
      BY <1>2, <3>1, <3>2, CoverElsewhere
  <2>2. ASSUME r \notin clouded' PROVE \A t \in {r} : CoverAt(t)'
    <3>1. TAKE t \in {r}
    <3>2. \A q \in Pipelines \ {p} : ~Ingests(q, t)
      BY <1>4, <2>2
    <3>3. mem'[p].base = t
      BY <1>4
    <3>4. QED
      BY <1>2, <1>4, <3>2, <3>3, CoverBegins
  <2>3. QED
    BY <2>1, <2>2 DEF CoverInv
<1>5. CASE Quit(p) /\ Listing(r) \subseteq stored[r]
  <2>1. stored' = stored
    BY <1>h, <1>1, <1>5
  <2>2. \A t : ~Snaps(p, t)'
    BY <1>h, <1>5 DEF Quit, Goto, Snaps, SnapPhases
  <2>3. ASSUME NEW t \in Rows \ clouded' PROVE CoverAt(t)'
    BY <1>1, <1>2, <1>3, <2>1, <2>2, <2>3, CoverElsewhere DEF CoverInv
  <2>4. QED
    BY <2>3 DEF CoverInv
<1>6. QED
  <2>1. CASE SyncL1(p)
    <3>1. mem[p].row = r
      BY <1>h, <2>1 DEF SyncL1, Fits, OwnPhases
    <3>2. QED
      BY <1>h, <1>4, <1>5, <2>1, <3>1 DEF SyncL1, Goto, Cloud
  <2>2. CASE FetchFallback(p)
    BY <1>h, <1>4, <2>2 DEF FetchFallback, Goto, Cloud
  <2>3. QED
    BY <2>1, <2>2

(* The spec file is read at the tip, so the snapshot covers what was listed  *)
(* before, and it is inserted with nobody else at it.                        *)
LEMMA CoverInserts ==
  ASSUME LayersInv, CoverInv, NEW p \in Pipelines,
         ReadSpec(p) \/ SpecMissing(p) \/ PutL1(p)
  PROVE  CoverInv'
<1> DEFINE r == mem[p].base
           m == mem[p]
<1>h. /\ pc \in [Pipelines -> Phases] /\ mem \in [Pipelines -> Hands]
      /\ m \in Hands /\ Fits(pc[p], m)
      /\ stored \in [Rows -> SUBSET Nat] /\ l1snap \in [Rows -> {NoSnapshot} \cup Nat]
      /\ r \in Rows
  BY HandOf DEF LayersInv, HandsTyped, TablesTyped, Hands
<1>1. /\ pc[p] \in SnapPhases /\ stored' = stored /\ clouded \subseteq clouded'
      /\ \A t \in Rows \ {r} : l1snap'[t] = l1snap[t]
  BY <1>h DEF ReadSpec, SpecMissing, PutL1, Cloud, SnapPhases, ghosts
<1>2. Others(p) /\ mem'[p].base = r
  BY <1>h DEF ReadSpec, SpecMissing, PutL1, Goto, Others, Hands
<1>3. ASSUME NEW t \in Rows \ clouded', t # r PROVE CoverAt(t)'
  <2>1. ~Snaps(p, t) /\ ~Snaps(p, t)'
    BY <1>2, <1>3 DEF Snaps
  <2>2. QED
    BY <1>1, <1>2, <1>3, <2>1, CoverElsewhere DEF CoverInv
<1>4. ASSUME NEW t \in Rows \ clouded', t = r PROVE CoverAt(t)'
  <2>1. CoverAt(t) /\ Snaps(p, t)
    BY <1>1, <1>4 DEF CoverInv, Snaps
  <2>2. CASE ReadSpec(p)
    <3>1. mem'[p].held = Tip(t) /\ pc'[p] \in {"put", "putF"}
      BY <1>h, <1>4, <2>2 DEF ReadSpec, Goto, Hands
    <3>2. stored[t] \subseteq 1..Tip(t) /\ Tip(t) \in Nat
      BY TipType DEF LayersInv, TablesTyped
    <3>3. \A c \in stored'[t] : c <= mem'[p].held
      BY <1>1, <3>1, <3>2
    <3>4. Snaps(p, t)'
      BY <1>2, <1>4, <3>1 DEF Snaps, SnapPhases
    <3>5. QED
      BY <1>2, <2>1, <3>3, <3>4, CoverRead
  <2>3. CASE SpecMissing(p)
    BY <1>4, <2>3 DEF SpecMissing, Cloud
  <2>4. CASE PutL1(p)
    <3>1. l1snap'[t] = m.held /\ pc[p] \in {"put", "putF"} /\ pc'[p] \in {"l2", "again"}
      BY <1>h, <1>4, <2>4 DEF PutL1, Goto
    <3>2. m.held # NoSnapshot
      BY <1>h, LayersAssumption DEF Hands
    <3>3. \A c \in stored[t] : c <= m.held
      BY <2>1, <3>1 DEF CoverAt
    <3>4. Covered(t)'
      BY <1>1, <3>1, <3>2, <3>3 DEF Covered
    <3>5. ~Snaps(p, t)'
      BY <3>1 DEF Snaps, SnapPhases
    <3>6. QED
      BY <1>2, <2>1, <3>4, <3>5, CoverEnds
  <2>5. QED
    BY <2>2, <2>3, <2>4
<1>5. QED
  BY <1>3, <1>4 DEF CoverInv

LEMMA CoverStep ==
  ASSUME LayersInv, CoverInv, [LayersNext]_layerVars
  PROVE  CoverInv'
<1>1. CASE UNCHANGED <<stored, l1snap, clouded, pc, mem>>
  BY <1>1 DEF CoverInv, CoverAt, Covered, Snaps
<1>2. CASE \/ \E b \in {"l1", "fallback"} : L1Commit(b)
           \/ L2Commit
           \/ \E n \in DOMAIN L2Line : PushL2(n)
           \/ UNCHANGED layerVars
  BY <1>1, <1>2 DEF L1Commit, L2Commit, PushL2, layerVars, ghosts
<1>3. ASSUME NEW p \in Pipelines, QuietStep(p) PROVE CoverInv'
  <2>1. /\ UNCHANGED <<stored, l1snap, clouded>> /\ Others(p)
        /\ pc[p] \notin SnapPhases /\ pc'[p] \notin SnapPhases
    BY <1>3, QuietSteps DEF LayersInv
  <2>2. ASSUME NEW t \in Rows \ clouded' PROVE CoverAt(t)'
    <3>1. ~Snaps(p, t) /\ ~Snaps(p, t)' /\ CoverAt(t)
      BY <2>1, <2>2 DEF Snaps, CoverInv
    <3>2. QED
      BY <2>1, <3>1, CoverElsewhere
  <2>3. QED
    BY <2>2 DEF CoverInv
<1>4. ASSUME NEW p \in Pipelines, PipeStep(p) \/ \E t \in Rows : PipeStart(p, t)
      PROVE  CoverInv'
  BY <1>3, <1>4, CoverFails, CoverSyncs, CoverInserts DEF PipeStep, QuietStep
<1>5. QED
  BY <1>2, <1>4 DEF LayersNext

(* However many pipelines ingest a row, unless their ingestions overlapped   *)
(* or one failed, the snapshot inserted last is no older than the newest     *)
(* commit stored (LatestCovers).                                             *)
THEOREM LatestCoversStored == LayersSpec => []LatestCovers
<1>1. LayersInit => CoverInv
  BY DEF LayersInit, CoverInv, CoverAt, Covered, Snaps, SnapPhases
<1>2. LayersInv /\ CoverInv => LatestCovers
  <2> SUFFICES ASSUME LayersInv, CoverInv, NEW t \in 0..rows, t \notin clouded,
                      stored[t] # {}, \A p \in Pipelines : ~Ingests(p, t)
               PROVE  l1snap[t] # NoSnapshot /\ \A c \in stored[t] : c <= l1snap[t]
    BY DEF LatestCovers
  <2>1. t \in Rows
    BY LayersAssumption DEF LayersInv, TablesTyped, Rows
  <2>2. \A p \in Pipelines : ~Snaps(p, t)
    BY SnapsIngests
  <2>3. QED
    BY <2>1, <2>2 DEF CoverInv, CoverAt, Covered
<1>3. QED
  BY <1>1, <1>2, CoverStep, Invariant, PTL DEF LayersSpec
=============================================================================
