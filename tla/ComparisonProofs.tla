-------------------------- MODULE ComparisonProofs --------------------------
(***************************************************************************)
(* The parts of MCComparison that compute on lists: the advice of a        *)
(* comparison (LayerDiff), for any files and contents, and what the        *)
(* reports take from a list of version tags (VersionOrder), for any tags;  *)
(* then when a tracking is due (SyncTiming), and the composition of all    *)
(* parts.                                                                  *)
(*                                                                         *)
(* The lists are built by folds of the community modules.  A fold is a     *)
(* choice of a function on sets of positions, so the first lemmas show     *)
(* that such a function exists and what it gives one position after the    *)
(* other; an induction, stated for a set, does the rest.  Of the advice    *)
(* generated no two pieces share a key, those on the spec file excepted.   *)
(* Version tags are compared through the key SortKey, number by number.    *)
(***************************************************************************)
EXTENDS MCComparison, LayerReportsProofs, MirrorCacheProofs, SequenceTheorems, TLAPS

(* Numbers, maxima and folds *)

LEMMA LeastNumber ==
  ASSUME NEW S \in SUBSET Nat, S # {}
  PROVE  \E n \in S : \A m \in S : n <= m
<1>1. PICK n \in S : \A m \in S : ~(<<m, n>> \in OpToRel(<, Nat))
  BY WFMin, NatLessThanWellFounded
<1>2. \A m \in S : ~(m < n)
  BY <1>1 DEF OpToRel
<1>3. QED
  BY <1>2

(* Induction, stated for a set.                                             *)
LEMMA Counting ==
  ASSUME NEW n \in Nat, NEW Good, 0 \in Good,
         \A k \in 0..n : k + 1 \in 0..n /\ k \in Good => k + 1 \in Good
  PROVE  0..n \subseteq Good
<1> SUFFICES ASSUME (0..n) \ Good # {} PROVE FALSE
  OBVIOUS
<1>1. PICK k \in (0..n) \ Good : \A m \in (0..n) \ Good : k <= m
  <2>1. (0..n) \ Good \in SUBSET Nat
    OBVIOUS
  <2>2. QED
    BY <2>1, LeastNumber
<1>2. k # 0 /\ k - 1 \in 0..n /\ k - 1 \notin (0..n) \ Good
  BY <1>1
<1>3. QED
  BY <1>1, <1>2

LEMMA MaxOf ==
  ASSUME NEW S \in SUBSET Nat, NEW m \in S, \A k \in S : k <= m
  PROVE  Max(S) = m
<1>1. \E x \in S : \A y \in S : x >= y
  OBVIOUS
<1>2. Max(S) = CHOOSE x \in S : \A y \in S : x >= y
  BY DEF Max
<1>3. PICK x \in S : x = Max(S) /\ \A y \in S : x >= y
  BY <1>1, <1>2
<1>4. QED
  BY <1>3

LEMMA MaxExists ==
  ASSUME NEW n \in Nat, NEW S \in SUBSET (1..n), S # {}
  PROVE  \E m \in S : \A k \in S : k <= m
<1>1. PICK j \in {n - k : k \in S} : \A i \in {n - k : k \in S} : j <= i
  <2>1. \A k \in S : n - k \in Nat
    OBVIOUS
  <2>2. {n - k : k \in S} \in SUBSET Nat /\ {n - k : k \in S} # {}
    BY <2>1
  <2>3. QED
    BY <2>2, LeastNumber
<1>2. PICK m \in S : j = n - m
  OBVIOUS
<1>3. \A k \in S : k <= m
  <2> TAKE k \in S
  <2>1. n - k \in {n - i : i \in S}
    OBVIOUS
  <2>2. n - m <= n - k
    BY <1>1, <1>2, <2>1
  <2>3. QED
    BY <2>2
<1>4. QED
  BY <1>3

LEMMA MaxInside ==
  ASSUME NEW n \in Nat, NEW S \in SUBSET (1..n), S # {}
  PROVE  Max(S) \in S
<1>1. PICK m \in S : \A k \in S : k <= m
  BY MaxExists
<1>2. QED
  BY <1>1, MaxOf

(* What the folds of the community modules iterate: `it` gives the value    *)
(* for every set of positions folded, the last of them being folded last.   *)
Iterates(it, n, A, b, g) ==
  /\ it \in [SUBSET (1..n) -> A]
  /\ it[{}] = b
  /\ \A s \in SUBSET (1..n) : s # {} => it[s] = g[<<it[s \ {Max(s)}], Max(s)>>]

LEMMA FoldExists ==
  ASSUME NEW n \in Nat, NEW A, NEW b \in A, NEW g \in [A \X (1..n) -> A]
  PROVE  \E it : Iterates(it, n, A, b, g)
<1> DEFINE Good == {k \in 0..n : \E it : Iterates(it, k, A, b, g)}
<1>1. 0 \in Good
  <2> DEFINE it == [s \in SUBSET (1..0) |-> b]
  <2>1. 1..0 = {} /\ 0 \in 0..n
    OBVIOUS
  <2>2. Iterates(it, 0, A, b, g)
    BY <2>1 DEF Iterates
  <2>3. QED
    BY <2>1, <2>2
<1>2. ASSUME NEW k \in 0..n, k + 1 \in 0..n, k \in Good PROVE k + 1 \in Good
  <2>1. PICK it : Iterates(it, k, A, b, g)
    BY <1>2
  <2> DEFINE Value(s) == IF k + 1 \in s THEN g[<<it[s \ {k + 1}], k + 1>>] ELSE it[s]
             jt == [s \in SUBSET (1..(k + 1)) |-> Value(s)]
  <2>2. 1..(k + 1) = (1..k) \cup {k + 1} /\ k + 1 \in 1..n /\ k + 1 \notin 1..k
    BY <1>2
  <2>3. ASSUME NEW s \in SUBSET (1..(k + 1)) PROVE Value(s) \in A
    <3>1. CASE k + 1 \in s
      <4>1. s \ {k + 1} \in SUBSET (1..k)
        BY <2>2
      <4>2. it[s \ {k + 1}] \in A
        BY <2>1, <4>1 DEF Iterates
      <4>3. QED
        BY <2>2, <3>1, <4>2
    <3>2. CASE k + 1 \notin s
      <4>1. s \in SUBSET (1..k)
        BY <2>2, <3>2
      <4>2. QED
        BY <2>1, <3>2, <4>1 DEF Iterates
    <3>3. QED
      BY <3>1, <3>2
  <2>4. ASSUME NEW s \in SUBSET (1..(k + 1)), s # {}
        PROVE  jt[s] = g[<<jt[s \ {Max(s)}], Max(s)>>]
    <3>1. CASE k + 1 \in s
      <4>1. Max(s) = k + 1
        BY <3>1, MaxOf
      <4>2. s \ {k + 1} \in SUBSET (1..k) /\ s \ {k + 1} \in SUBSET (1..(k + 1))
            /\ k + 1 \notin s \ {k + 1}
        BY <2>2
      <4>3. jt[s \ {k + 1}] = it[s \ {k + 1}]
        BY <4>2
      <4>4. jt[s] = g[<<it[s \ {k + 1}], k + 1>>]
        BY <3>1
      <4>5. QED
        BY <4>1, <4>3, <4>4
    <3>2. CASE k + 1 \notin s
      <4>1. s \in SUBSET (1..k) /\ s \ {Max(s)} \in SUBSET (1..k)
            /\ k + 1 \notin s \ {Max(s)} /\ s \ {Max(s)} \in SUBSET (1..(k + 1))
        BY <2>2, <3>2
      <4>2. jt[s] = it[s] /\ jt[s \ {Max(s)}] = it[s \ {Max(s)}]
        BY <3>2, <4>1
      <4>3. it[s] = g[<<it[s \ {Max(s)}], Max(s)>>]
        BY <2>1, <2>4, <4>1 DEF Iterates
      <4>4. QED
        BY <4>2, <4>3
    <3>3. QED
      BY <3>1, <3>2
  <2>5. jt[{}] = b
    <3>1. {} \in SUBSET (1..(k + 1)) /\ {} \in SUBSET (1..k) /\ k + 1 \notin {}
      OBVIOUS
    <3>2. QED
      BY <2>1, <3>1 DEF Iterates
  <2>6. jt \in [SUBSET (1..(k + 1)) -> A]
    BY <2>3
  <2>7. Iterates(jt, k + 1, A, b, g)
    <3> HIDE DEF jt
    <3>1. QED
      BY <2>4, <2>5, <2>6 DEF Iterates
  <2>8. QED
    BY <1>2, <2>7
<1>3. n \in Good
  <2> HIDE DEF Good
  <2>1. 0..n \subseteq Good
    BY <1>1, <1>2, Counting
  <2>2. QED
    BY <2>1
<1>4. QED
  BY <1>3
(* The same one position after the other: f[k] is the value when k are done. *)
Runs(f, n, A, b, g, result) ==
  /\ f \in [0..n -> A]
  /\ f[0] = b /\ f[n] = result
  /\ \A k \in 1..n : f[k] = g[<<f[k - 1], k>>]

\* what is known of the function a fold chooses
Obeys(jt, n, A, b, g) ==
  /\ jt[{}] = b
  /\ \A s \in SUBSET (1..n) :
       s # {} /\ jt[s \ {Max(s)}] \in A => jt[s] = g[<<jt[s \ {Max(s)}], Max(s)>>]

LEMMA FoldRuns ==
  ASSUME NEW n \in Nat, NEW A, NEW b \in A, NEW g \in [A \X (1..n) -> A], NEW jt,
         Obeys(jt, n, A, b, g)
  PROVE  \E f : Runs(f, n, A, b, g, jt[1..n])
<1> DEFINE Good == {k \in 0..n : jt[1..k] \in A}
<1>1. ASSUME NEW k \in 1..n, jt[1..(k - 1)] \in A
      PROVE  jt[1..k] = g[<<jt[1..(k - 1)], k>>]
  <2>1. Max(1..k) = k
    <3>1. k \in 1..k /\ 1..k \in SUBSET Nat /\ \A m \in 1..k : m <= k
      OBVIOUS
    <3>2. QED
      BY <3>1, MaxOf
  <2>2. (1..k) \ {k} = 1..(k - 1) /\ 1..k # {} /\ 1..k \in SUBSET (1..n)
    <3>1. (1..k) \ {k} = 1..(k - 1)
      OBVIOUS
    <3>2. 1..k # {} /\ 1..k \in SUBSET (1..n)
      OBVIOUS
    <3>3. QED
      BY <3>1, <3>2
  <2>3. QED
    BY <1>1, <2>1, <2>2 DEF Obeys
<1>2. 0..n \subseteq Good
  <2>1. 0 \in Good
    <3>1. 1..0 = {} /\ 0 \in 0..n
      OBVIOUS
    <3>2. QED
      BY <3>1 DEF Obeys
  <2>2. ASSUME NEW k \in 0..n, k + 1 \in 0..n, k \in Good PROVE k + 1 \in Good
    <3>1. k + 1 \in 1..n /\ (k + 1) - 1 = k /\ jt[1..k] \in A
      BY <2>2
    <3>2. jt[1..(k + 1)] = g[<<jt[1..k], k + 1>>]
      BY <1>1, <3>1
    <3>3. QED
      BY <2>2, <3>1, <3>2
  <2>3. QED
    <3> HIDE DEF Good
    <3>1. QED
      BY <2>1, <2>2, Counting
<1> DEFINE f == [k \in 0..n |-> jt[1..k]]
<1>3. f \in [0..n -> A]
  BY <1>2
<1>4. f[0] = b /\ f[n] = jt[1..n]
  <2>1. 1..0 = {} /\ 0 \in 0..n /\ n \in 0..n
    OBVIOUS
  <2>2. QED
    BY <2>1 DEF Obeys
<1>5. ASSUME NEW k \in 1..n PROVE f[k] = g[<<f[k - 1], k>>]
  <2>1. k \in 0..n /\ k - 1 \in 0..n
    OBVIOUS
  <2>2. f[k] = jt[1..k] /\ f[k - 1] = jt[1..(k - 1)] /\ jt[1..(k - 1)] \in A
    BY <1>2, <2>1
  <2>3. QED
    BY <1>1, <2>2
<1>6. QED
  <2> HIDE DEF f
  <2>1. QED
    BY <1>3, <1>4, <1>5 DEF Runs
-----------------------------------------------------------------------------
(* The folds of LayerDiff, element by element.                              *)

PickStep(n, out, a) == IF a.priority = n THEN Append(out, a) ELSE out
KeepStep(kept, a) == IF \E i \in DOMAIN kept : SameKey(kept[i], a) THEN kept ELSE Append(kept, a)

\* f[k] is what the first k elements of the list give
PickRun(f, R, list, n) ==
  /\ f \in [0..Len(list) -> Seq(R)]
  /\ f[0] = <<>> /\ f[Len(list)] = OfPriority(list, n)
  /\ \A k \in 1..Len(list) : f[k] = PickStep(n, f[k - 1], list[k])
KeepRun(f, R, list) ==
  /\ f \in [0..Len(list) -> Seq(R)]
  /\ f[0] = <<>> /\ f[Len(list)] = Deduplicated(list)
  /\ \A k \in 1..Len(list) : f[k] = KeepStep(f[k - 1], list[k])

LEMMA OfPrioritySteps ==
  ASSUME NEW R, NEW list \in Seq(R), NEW n
  PROVE  \E f : PickRun(f, R, list, n)
<1> DEFINE N == Len(list)
           Body(it) == [s \in SUBSET (DOMAIN list) |->
                          IF s = {} THEN <<>>
                          ELSE LET x == Max(s) IN PickStep(n, it[s \ {x}], list[x])]
           g == [p \in Seq(R) \X (1..N) |-> PickStep(n, p[1], list[p[2]])]
           jt == CHOOSE kt : kt = Body(kt)
<1>1. /\ N \in Nat /\ DOMAIN list = 1..N /\ <<>> \in Seq(R)
      /\ {} \in SUBSET (1..N)
  OBVIOUS
<1>2. g \in [Seq(R) \X (1..N) -> Seq(R)]
  BY DEF PickStep
<1>3. \A s \in SUBSET (1..N) : s # {} => Max(s) \in 1..N
  BY <1>1, MaxInside
<1>4. ASSUME NEW out \in Seq(R), NEW k \in 1..N
      PROVE  g[<<out, k>>] = PickStep(n, out, list[k])
  OBVIOUS
<1>5. PICK it : Iterates(it, N, Seq(R), <<>>, g)
  <2> HIDE DEF g, N
  <2>1. QED
    BY <1>1, <1>2, FoldExists
<1>6. it = Body(it)
  <2>1. ASSUME NEW s \in SUBSET (1..N), s # {}
        PROVE  it[s] = PickStep(n, it[s \ {Max(s)}], list[Max(s)])
    <3>1. it[s \ {Max(s)}] \in Seq(R) /\ it[s] = g[<<it[s \ {Max(s)}], Max(s)>>]
      BY <1>5, <2>1 DEF Iterates
    <3>2. QED
      BY <1>3, <1>4, <2>1, <3>1
  <2>2. QED
    BY <1>1, <1>5, <2>1 DEF Iterates
<1>7. jt = Body(jt)
  <2> HIDE DEF Body
  <2>1. QED
    BY <1>6
<1>8. Obeys(jt, N, Seq(R), <<>>, g)
  <2> HIDE DEF jt, g
  <2>1. QED
    BY <1>1, <1>3, <1>4, <1>7 DEF Obeys
<1>9. PICK f : Runs(f, N, Seq(R), <<>>, g, jt[1..N])
  <2> HIDE DEF jt, g, N
  <2>1. QED
    BY <1>1, <1>2, <1>8, FoldRuns
<1>10. OfPriority(list, n) = jt[1..N]
  BY <1>1 DEF OfPriority, FoldLeft, MapThenFoldSet, PickStep
<1>11. \A k \in 1..N : f[k] = PickStep(n, f[k - 1], list[k])
  <2> HIDE DEF jt, g
  <2>1. ASSUME NEW k \in 1..N PROVE f[k - 1] \in Seq(R)
    BY <1>9 DEF Runs
  <2>2. QED
    BY <1>4, <1>9, <2>1 DEF Runs
<1>12. QED
  <2> HIDE DEF jt, g
  <2>1. QED
    BY <1>9, <1>10, <1>11 DEF Runs, PickRun

LEMMA DeduplicatedSteps ==
  ASSUME NEW R, NEW list \in Seq(R)
  PROVE  \E f : KeepRun(f, R, list)
<1> DEFINE N == Len(list)
           Body(it) == [s \in SUBSET (DOMAIN list) |->
                          IF s = {} THEN <<>>
                          ELSE LET x == Max(s) IN KeepStep(it[s \ {x}], list[x])]
           g == [p \in Seq(R) \X (1..N) |-> KeepStep(p[1], list[p[2]])]
           jt == CHOOSE kt : kt = Body(kt)
<1>1. /\ N \in Nat /\ DOMAIN list = 1..N /\ <<>> \in Seq(R)
      /\ {} \in SUBSET (1..N)
  OBVIOUS
<1>2. g \in [Seq(R) \X (1..N) -> Seq(R)]
  BY DEF KeepStep
<1>3. \A s \in SUBSET (1..N) : s # {} => Max(s) \in 1..N
  BY <1>1, MaxInside
<1>4. ASSUME NEW out \in Seq(R), NEW k \in 1..N
      PROVE  g[<<out, k>>] = KeepStep(out, list[k])
  OBVIOUS
<1>5. PICK it : Iterates(it, N, Seq(R), <<>>, g)
  <2> HIDE DEF g, N
  <2>1. QED
    BY <1>1, <1>2, FoldExists
<1>6. it = Body(it)
  <2>1. ASSUME NEW s \in SUBSET (1..N), s # {}
        PROVE  it[s] = KeepStep(it[s \ {Max(s)}], list[Max(s)])
    <3>1. it[s \ {Max(s)}] \in Seq(R) /\ it[s] = g[<<it[s \ {Max(s)}], Max(s)>>]
      BY <1>5, <2>1 DEF Iterates
    <3>2. QED
      BY <1>3, <1>4, <2>1, <3>1
  <2>2. QED
    BY <1>1, <1>5, <2>1 DEF Iterates
<1>7. jt = Body(jt)
  <2> HIDE DEF Body
  <2>1. QED
    BY <1>6
<1>8. Obeys(jt, N, Seq(R), <<>>, g)
  <2> HIDE DEF jt, g
  <2>1. QED
    BY <1>1, <1>3, <1>4, <1>7 DEF Obeys
<1>9. PICK f : Runs(f, N, Seq(R), <<>>, g, jt[1..N])
  <2> HIDE DEF jt, g, N
  <2>1. QED
    BY <1>1, <1>2, <1>8, FoldRuns
<1>10. Deduplicated(list) = jt[1..N]
  BY <1>1 DEF Deduplicated, FoldLeft, MapThenFoldSet, KeepStep
<1>11. \A k \in 1..N : f[k] = KeepStep(f[k - 1], list[k])
  <2> HIDE DEF jt, g
  <2>1. ASSUME NEW k \in 1..N PROVE f[k - 1] \in Seq(R)
    BY <1>9 DEF Runs
  <2>2. QED
    BY <1>4, <1>9, <2>1 DEF Runs
<1>12. QED
  <2> HIDE DEF jt, g
  <2>1. QED
    BY <1>9, <1>10, <1>11 DEF Runs, KeepRun

(* A list by priority: what has the priority, and nothing else.             *)
LEMMA OfPriorityPicks ==
  ASSUME NEW R, NEW list \in Seq(R), NEW n
  PROVE  LET r == OfPriority(list, n) IN
         /\ r \in Seq(R)
         /\ \A j \in 1..Len(r) : r[j].priority = n /\ \E i \in 1..Len(list) : r[j] = list[i]
         /\ \A i \in 1..Len(list) :
              list[i].priority = n => \E j \in 1..Len(r) : r[j] = list[i]
<1> DEFINE N == Len(list)
           From(out, k) == \A j \in 1..Len(out) :
             out[j].priority = n /\ \E i \in 1..k : out[j] = list[i]
           All(out, k) == \A i \in 1..k :
             list[i].priority = n => \E j \in 1..Len(out) : out[j] = list[i]
<1>0. PICK f : PickRun(f, R, list, n)
  BY OfPrioritySteps
<1>1. /\ f \in [0..N -> Seq(R)]
      /\ f[0] = <<>> /\ f[N] = OfPriority(list, n)
      /\ \A k \in 1..N : f[k] = PickStep(n, f[k - 1], list[k])
  BY <1>0 DEF PickRun
<1> DEFINE Good == {k \in 0..N : From(f[k], k) /\ All(f[k], k)}
<1>2. N \in Nat /\ 0 \in Good
  <2>1. N \in Nat /\ 0 \in 0..N /\ 1..0 = {} /\ Len(<<>>) = 0
    OBVIOUS
  <2>2. QED
    BY <1>1, <2>1
<1>3. ASSUME NEW k \in 0..N, k + 1 \in 0..N, k \in Good PROVE k + 1 \in Good
  <2> DEFINE a == list[k + 1]
             out == f[k]
  <2>1. /\ k + 1 \in 1..N /\ (k + 1) - 1 = k /\ 1..(k + 1) = (1..k) \cup {k + 1}
        /\ out \in Seq(R) /\ Len(out) \in Nat /\ a \in R
    <3>1. k + 1 \in 1..N /\ (k + 1) - 1 = k
      BY <1>2, <1>3
    <3>2. 1..(k + 1) = (1..k) \cup {k + 1}
      BY <1>2
    <3>3. f[k] \in Seq(R)
      BY <1>1
    <3>4. QED
      BY <3>1, <3>2, <3>3
  <2>2. f[k + 1] = PickStep(n, out, a)
    BY <1>1, <2>1
  <2>3. From(out, k) /\ All(out, k)
    BY <1>3
  <2>4. CASE a.priority = n
    <3>1. f[k + 1] = Append(out, a)
      BY <2>2, <2>4 DEF PickStep
    <3>2. /\ Len(Append(out, a)) = Len(out) + 1 /\ Append(out, a)[Len(out) + 1] = a
          /\ \A j \in 1..Len(out) : Append(out, a)[j] = out[j]
          /\ 1..(Len(out) + 1) = (1..Len(out)) \cup {Len(out) + 1}
      BY <2>1
    <3> HIDE DEF out
    <3>3. From(Append(out, a), k + 1)
      BY <2>1, <2>3, <2>4, <3>2
    <3>4. All(Append(out, a), k + 1)
      BY <2>1, <2>3, <2>4, <3>2
    <3>5. QED
      BY <1>3, <3>1, <3>3, <3>4
  <2>5. CASE a.priority # n
    <3>1. f[k + 1] = out
      BY <2>2, <2>5 DEF PickStep
    <3> HIDE DEF out
    <3>2. From(out, k + 1) /\ All(out, k + 1)
      BY <2>1, <2>3, <2>5
    <3>3. QED
      BY <1>3, <3>1, <3>2
  <2>6. QED
    BY <2>4, <2>5
<1>4. N \in Good
  <2> HIDE DEF Good, N
  <2>1. 0..N \subseteq Good
    BY <1>2, <1>3, Counting
  <2>2. QED
    BY <1>2, <2>1
<1>5. f[N] \in Seq(R)
  BY <1>1, <1>2
<1>6. QED
  BY <1>1, <1>4, <1>5

(* Removing duplicates: of each key the first one stays.                    *)
LEMMA DeduplicatedKeeps ==
  ASSUME NEW R, NEW list \in Seq(R)
  PROVE  LET r == Deduplicated(list) IN
         /\ r \in Seq(R)
         /\ \A j \in 1..Len(r) : \E i \in 1..Len(list) : r[j] = list[i]
         /\ \A i \in 1..Len(list) : \E j \in 1..Len(r), m \in 1..i :
              r[j] = list[m] /\ SameKey(list[m], list[i])
<1> DEFINE N == Len(list)
           From(kept, k) == \A j \in 1..Len(kept) : \E i \in 1..k : kept[j] = list[i]
           All(kept, k) == \A i \in 1..k : \E j \in 1..Len(kept), m \in 1..i :
             kept[j] = list[m] /\ SameKey(list[m], list[i])
<1>0. PICK f : KeepRun(f, R, list)
  BY DeduplicatedSteps
<1>1. /\ f \in [0..N -> Seq(R)]
      /\ f[0] = <<>> /\ f[N] = Deduplicated(list)
      /\ \A k \in 1..N : f[k] = KeepStep(f[k - 1], list[k])
  BY <1>0 DEF KeepRun
<1> DEFINE Good == {k \in 0..N : From(f[k], k) /\ All(f[k], k)}
<1>2. N \in Nat /\ 0 \in Good
  <2>1. N \in Nat /\ 0 \in 0..N /\ 1..0 = {} /\ Len(<<>>) = 0
    OBVIOUS
  <2>2. QED
    BY <1>1, <2>1
<1>3. ASSUME NEW k \in 0..N, k + 1 \in 0..N, k \in Good PROVE k + 1 \in Good
  <2> DEFINE a == list[k + 1]
             kept == f[k]
  <2>1. /\ k + 1 \in 1..N /\ (k + 1) - 1 = k /\ 1..(k + 1) = (1..k) \cup {k + 1}
        /\ kept \in Seq(R) /\ Len(kept) \in Nat /\ DOMAIN kept = 1..Len(kept)
        /\ 1..k \subseteq 1..(k + 1) /\ \A i \in 1..k : 1..i \subseteq 1..(k + 1)
    <3>1. k + 1 \in 1..N /\ (k + 1) - 1 = k
      BY <1>2, <1>3
    <3>2. 1..(k + 1) = (1..k) \cup {k + 1}
      BY <1>2
    <3>3. f[k] \in Seq(R)
      BY <1>1
    <3>4. 1..k \subseteq 1..(k + 1) /\ \A i \in 1..k : 1..i \subseteq 1..(k + 1)
      BY <1>2
    <3>5. QED
      BY <3>1, <3>2, <3>3, <3>4
  <2>2. f[k + 1] = KeepStep(kept, a)
    BY <1>1, <2>1
  <2>3. From(kept, k) /\ All(kept, k)
    BY <1>3
  <2>4. CASE \E i \in 1..Len(kept) : SameKey(kept[i], a)
    <3>1. f[k + 1] = kept
      BY <2>1, <2>2, <2>4 DEF KeepStep
    <3> HIDE DEF kept
    <3>2. From(kept, k + 1)
      BY <2>1, <2>3
    <3>3. \E j \in 1..Len(kept), m \in 1..(k + 1) : kept[j] = list[m] /\ SameKey(list[m], a)
      BY <2>1, <2>3, <2>4
    <3>4. All(kept, k + 1)
      BY <2>1, <2>3, <3>3
    <3>5. QED
      BY <1>3, <3>1, <3>2, <3>4
  <2>5. CASE \A i \in 1..Len(kept) : ~SameKey(kept[i], a)
    <3>1. f[k + 1] = Append(kept, a)
      BY <2>1, <2>2, <2>5 DEF KeepStep
    <3>2. a \in R
      BY <2>1
    <3>3. /\ Len(Append(kept, a)) = Len(kept) + 1 /\ Append(kept, a)[Len(kept) + 1] = a
          /\ \A j \in 1..Len(kept) : Append(kept, a)[j] = kept[j]
          /\ 1..(Len(kept) + 1) = (1..Len(kept)) \cup {Len(kept) + 1}
      BY <2>1, <3>2
    <3> DEFINE more == Append(kept, a)
    <3> HIDE DEF kept, more
    <3>4. From(more, k + 1)
      <4>1. \A j \in 1..Len(kept) : \E i \in 1..(k + 1) : more[j] = list[i]
        BY <2>1, <2>3, <3>3 DEF more
      <4>2. k + 1 \in 1..(k + 1) /\ more[Len(kept) + 1] = list[k + 1]
        BY <2>1, <3>3 DEF more
      <4>3. 1..Len(more) = (1..Len(kept)) \cup {Len(kept) + 1}
        BY <3>3 DEF more
      <4>4. QED
        BY <4>1, <4>2, <4>3
    <3>5. k + 1 \in 1..(k + 1) /\ SameKey(a, a)
      BY <2>1 DEF SameKey
    <3>6. All(more, k + 1)
      <4>1. 1..Len(more) = (1..Len(kept)) \cup {Len(kept) + 1}
            /\ \A j \in 1..Len(kept) : more[j] = kept[j]
        BY <3>3 DEF more
      <4>2. \A i \in 1..k : \E j \in 1..Len(more), m \in 1..i :
              more[j] = list[m] /\ SameKey(list[m], list[i])
        BY <2>3, <4>1
      <4>3. \E j \in 1..Len(more), m \in 1..(k + 1) : more[j] = list[m] /\ SameKey(list[m], a)
        BY <3>3, <3>5, <4>1 DEF more
      <4>4. QED
        BY <2>1, <4>2, <4>3
    <3>7. f[k + 1] = more
      BY <3>1 DEF more
    <3>8. QED
      BY <1>3, <3>4, <3>6, <3>7
  <2>6. QED
    BY <2>4, <2>5
<1>4. N \in Good
  <2> HIDE DEF Good, N
  <2>1. 0..N \subseteq Good
    BY <1>2, <1>3, Counting
  <2>2. QED
    BY <1>2, <2>1
<1>5. f[N] \in Seq(R)
  BY <1>1, <1>2
<1>6. QED
  BY <1>1, <1>4, <1>5

(* A stable sort by priority: a permutation of the list, in order.          *)
InOrder(list) == \A i, j \in 1..Len(list) : i < j => list[i].priority <= list[j].priority
UpTo(list, n) == \A i \in 1..Len(list) : list[i].priority \in 1..n
SameItems(r, list) ==
  /\ \A j \in 1..Len(r) : \E i \in 1..Len(list) : r[j] = list[i]
  /\ \A i \in 1..Len(list) : \E j \in 1..Len(r) : r[j] = list[i]

LEMMA Joined ==
  ASSUME NEW R, NEW s \in Seq(R), NEW t \in Seq(R)
  PROVE  /\ s \o t \in Seq(R) /\ Len(s \o t) = Len(s) + Len(t)
         /\ Len(s) \in Nat /\ Len(t) \in Nat
         /\ \A i \in 1..Len(s) : (s \o t)[i] = s[i]
         /\ \A i \in 1..Len(t) : Len(s) + i \in 1..Len(s \o t) /\ (s \o t)[Len(s) + i] = t[i]
         /\ \A k \in 1..Len(s \o t) : k \in 1..Len(s) \/ k - Len(s) \in 1..Len(t)
         /\ \A k \in 1..Len(s \o t) :
              k - Len(s) \in 1..Len(t) => (s \o t)[k] = t[k - Len(s)]
<1>1. s \o t \in Seq(R) /\ Len(s \o t) = Len(s) + Len(t) /\ Len(s) \in Nat /\ Len(t) \in Nat
  OBVIOUS
<1>2. \A i \in 1..(Len(s) + Len(t)) : (s \o t)[i] = IF i <= Len(s) THEN s[i] ELSE t[i - Len(s)]
  BY ConcatProperties
<1>3. QED
  BY <1>1, <1>2

LEMMA JoinedInOrder ==
  ASSUME NEW R, NEW s \in Seq(R), NEW t \in Seq(R), NEW n \in Nat,
         InOrder(s), UpTo(s, n), \A i \in 1..Len(t) : t[i].priority = n + 1
  PROVE  InOrder(s \o t) /\ UpTo(s \o t, n + 1)
<1>1. ASSUME NEW k \in 1..Len(s \o t)
      PROVE  /\ k \in 1..Len(s) => (s \o t)[k].priority \in 1..n /\ (s \o t)[k] = s[k]
             /\ k \notin 1..Len(s) => (s \o t)[k].priority = n + 1
  BY Joined DEF UpTo
<1>2. UpTo(s \o t, n + 1)
  BY <1>1 DEF UpTo
<1>3. ASSUME NEW i \in 1..Len(s \o t), NEW j \in 1..Len(s \o t), i < j
      PROVE  (s \o t)[i].priority <= (s \o t)[j].priority
  <2>1. CASE j \in 1..Len(s)
    <3>1. i \in 1..Len(s)
      BY <1>3, <2>1, Joined
    <3>2. QED
      BY <1>1, <1>3, <2>1, <3>1 DEF InOrder
  <2>2. CASE j \notin 1..Len(s)
    BY <1>1, <1>2, <2>2 DEF UpTo
  <2>3. QED
    BY <2>1, <2>2
<1>4. QED
  BY <1>2, <1>3 DEF InOrder

LEMMA ByPrioritySorts ==
  ASSUME NEW R, NEW list \in Seq(R), UpTo(list, 4)
  PROVE  LET r == ByPriority(list) IN
         r \in Seq(R) /\ InOrder(r) /\ UpTo(r, 4) /\ SameItems(r, list)
<1> DEFINE Of(n) == OfPriority(list, n)
           r2 == Of(1) \o Of(2)
           r3 == r2 \o Of(3)
           r == r3 \o Of(4)
           In(s) == \A j \in 1..Len(s) : \E i \in 1..Len(list) : s[j] = list[i]
           Has4(n, s) == \A i \in 1..Len(list) :
             list[i].priority = n => \E j \in 1..Len(s) : s[j] = list[i]
<1>1. ASSUME NEW n \in 1..4
      PROVE  /\ Of(n) \in Seq(R) /\ \A j \in 1..Len(Of(n)) : Of(n)[j].priority = n
             /\ In(Of(n)) /\ Has4(n, Of(n))
  BY OfPriorityPicks
<1>2. ASSUME NEW s \in Seq(R), NEW t \in Seq(R), In(s), In(t)
      PROVE  /\ s \o t \in Seq(R) /\ In(s \o t)
             /\ \A n : Has4(n, s) \/ Has4(n, t) => Has4(n, s \o t)
  <2> DEFINE u == s \o t
  <2>1. /\ u \in Seq(R) /\ Len(s) \in Nat
        /\ \A i \in 1..Len(s) : i \in 1..Len(u) /\ u[i] = s[i]
        /\ \A i \in 1..Len(t) : Len(s) + i \in 1..Len(u) /\ u[Len(s) + i] = t[i]
        /\ \A k \in 1..Len(u) : (k \in 1..Len(s) /\ u[k] = s[k])
                               \/ (k - Len(s) \in 1..Len(t) /\ u[k] = t[k - Len(s)])
    BY Joined
  <2> HIDE DEF u
  <2>2. In(u)
    <3> SUFFICES ASSUME NEW k \in 1..Len(u) PROVE \E i \in 1..Len(list) : u[k] = list[i]
      OBVIOUS
    <3>1. CASE k \in 1..Len(s) /\ u[k] = s[k]
      BY <1>2, <3>1
    <3>2. CASE k - Len(s) \in 1..Len(t) /\ u[k] = t[k - Len(s)]
      BY <1>2, <3>2
    <3>3. QED
      BY <2>1, <3>1, <3>2
  <2>3. ASSUME NEW n, Has4(n, s) PROVE Has4(n, u)
    BY <2>1, <2>3
  <2>4. ASSUME NEW n, Has4(n, t) PROVE Has4(n, u)
    BY <2>1, <2>4
  <2>5. QED
    BY <2>1, <2>2, <2>3, <2>4 DEF u
<1>3. InOrder(Of(1)) /\ UpTo(Of(1), 1)
  BY <1>1 DEF InOrder, UpTo
<1> HIDE DEF Of, In, Has4
<1>4. /\ r2 \in Seq(R) /\ In(r2) /\ Has4(1, r2) /\ Has4(2, r2)
      /\ InOrder(r2) /\ UpTo(r2, 2)
  BY <1>1, <1>2, <1>3, JoinedInOrder
<1> HIDE DEF r2
<1>5. /\ r3 \in Seq(R) /\ In(r3) /\ Has4(1, r3) /\ Has4(2, r3) /\ Has4(3, r3)
      /\ InOrder(r3) /\ UpTo(r3, 3)
  <2>1. /\ 3 \in 1..4 /\ 2 \in Nat /\ 3 = 2 + 1
        /\ Of(3) \in Seq(R) /\ In(Of(3)) /\ Has4(3, Of(3))
        /\ \A j \in 1..Len(Of(3)) : Of(3)[j].priority = 2 + 1
    BY <1>1
  <2>2. InOrder(r3) /\ UpTo(r3, 2 + 1)
    BY <1>4, <2>1, JoinedInOrder
  <2>3. QED
    BY <1>2, <1>4, <2>1, <2>2
<1> HIDE DEF r3
<1>6. /\ r \in Seq(R) /\ In(r) /\ Has4(1, r) /\ Has4(2, r) /\ Has4(3, r) /\ Has4(4, r)
      /\ InOrder(r) /\ UpTo(r, 4)
  <2>1. /\ 4 \in 1..4 /\ 3 \in Nat /\ 4 = 3 + 1
        /\ Of(4) \in Seq(R) /\ In(Of(4)) /\ Has4(4, Of(4))
        /\ \A j \in 1..Len(Of(4)) : Of(4)[j].priority = 3 + 1
    BY <1>1
  <2>2. InOrder(r) /\ UpTo(r, 3 + 1)
    BY <1>5, <2>1, JoinedInOrder
  <2>3. QED
    BY <1>2, <1>5, <2>1, <2>2
<1>7. ByPriority(list) = r
  BY DEF ByPriority, r3, r2, Of
<1> HIDE DEF r
<1>8. \A i \in 1..Len(list) : list[i].priority \in 1..4
  BY DEF UpTo
<1>9. QED
  BY <1>6, <1>7, <1>8 DEF SameItems, In, Has4

(* generate_sync_recommendations on any list of advice.                     *)
LEMMA RecommendationsKeep ==
  ASSUME NEW R, Generated \in Seq(R), UpTo(Generated, 4)
  PROVE  LET kept == Recommendations IN
         /\ kept \in Seq(R) /\ InOrder(kept) /\ UpTo(kept, 4)
         /\ \A j \in 1..Len(kept) : \E i \in 1..Len(Generated) : kept[j] = Generated[i]
         /\ \A i \in 1..Len(Generated) : \E j \in 1..Len(kept) :
              /\ SameKey(kept[j], Generated[i])
              /\ kept[j].priority <= Generated[i].priority
<1> DEFINE g == Generated
           sorted == ByPriority(g)
           once == Deduplicated(sorted)
           kept == ByPriority(once)
<1>1. sorted \in Seq(R) /\ InOrder(sorted) /\ UpTo(sorted, 4) /\ SameItems(sorted, g)
  BY ByPrioritySorts
<1> HIDE DEF sorted
<1>2. /\ once \in Seq(R)
      /\ \A j \in 1..Len(once) : \E i \in 1..Len(sorted) : once[j] = sorted[i]
      /\ \A i \in 1..Len(sorted) : \E j \in 1..Len(once), m \in 1..i :
           once[j] = sorted[m] /\ SameKey(sorted[m], sorted[i])
  BY <1>1, DeduplicatedKeeps
<1> HIDE DEF once
<1>3. UpTo(once, 4)
  BY <1>1, <1>2 DEF UpTo
<1>4. kept \in Seq(R) /\ InOrder(kept) /\ UpTo(kept, 4) /\ SameItems(kept, once)
  BY <1>2, <1>3, ByPrioritySorts
<1> HIDE DEF kept
<1>5. \A j \in 1..Len(kept) : \E i \in 1..Len(g) : kept[j] = g[i]
  BY <1>1, <1>2, <1>4 DEF SameItems
<1>6. ASSUME NEW i \in 1..Len(g)
      PROVE  \E j \in 1..Len(kept) : SameKey(kept[j], g[i]) /\ kept[j].priority <= g[i].priority
  <2>1. PICK k \in 1..Len(sorted) : sorted[k] = g[i]
    BY <1>1 DEF SameItems
  <2>2. PICK j \in 1..Len(once), m \in 1..k : once[j] = sorted[m] /\ SameKey(sorted[m], sorted[k])
    BY <1>2
  <2>3. sorted[m].priority <= sorted[k].priority
    <3>1. Len(sorted) \in Nat /\ m \in 1..Len(sorted) /\ (m < k \/ m = k)
      BY <1>1
    <3>2. QED
      BY <1>1, <3>1 DEF InOrder, UpTo
  <2>4. PICK l \in 1..Len(kept) : kept[l] = once[j]
    BY <1>4 DEF SameItems
  <2>5. QED
    BY <2>1, <2>2, <2>3, <2>4
<1>7. Recommendations = kept
  BY DEF Recommendations, kept, once, sorted
<1>8. QED
  BY <1>4, <1>5, <1>6, <1>7
-----------------------------------------------------------------------------
(* The advice generated: each kind under the condition its generator has.   *)
Given(cond, a) == {x \in {a} : cond}
Pool ==
       Given(SecurityPatches # {}, Advice(1, "SecurityPatch", SecurityPatches, "missing"))
  \cup Given(ahead = "l1", Advice(2, "VersionUpgrade", {"*.spec"}, "upgrade"))
  \cup Given(ahead = "l2", Advice(4, "VersionUpgrade", {"*.spec"}, "contribute"))
  \cup Given(BugfixPatches # {}, Advice(3, "BugFix", BugfixPatches, "missing"))
  \cup Given(Modified(Patches) # {}, Advice(3, "BugFix", Modified(Patches), "modified"))
  \cup Given(FeaturePatches # {}, Advice(3, "NewFeature", FeaturePatches, "missing"))
  \cup Given(Added(Sources) # {}, Advice(4, "NewFeature", Added(Sources), "source"))
  \cup Given(Modified(Sources) # {}, Advice(4, "ConfigUpdate", Modified(Sources), "source"))
  \cup {Advice(3, "ConfigUpdate", {"*.spec"}, piece) : piece \in SpecParts}
  \cup {Advice(IF custom = "security" THEN 2 ELSE 4, "ConfigUpdate", {}, "custom")}

\* advice on security patches comes first
Leads(list) ==
  /\ list # <<>>
  /\ list[1] = Advice(1, "SecurityPatch", SecurityPatches, "missing")

LEMMA PoolGenerated ==
  Generated \in Seq(Pool) /\ (SecurityPatches # {} => Leads(Generated))
<1>1. \A a : a \in Pool => <<a>> \in Seq(Pool)
  OBVIOUS
<1>2. <<>> \in Seq(Pool) /\ \A x, y \in Seq(Pool) : x \o y \in Seq(Pool)
  OBVIOUS
<1>3. SecurityAdvice \in Seq(Pool)
  <2>1. SecurityPatches # {} =>
         Advice(1, "SecurityPatch", SecurityPatches, "missing") \in Pool
    BY Zenon DEF Pool, Given
  <2>2. QED
    BY <1>1, <1>2, <2>1 DEF SecurityAdvice, When
<1>4. VersionAdvice \in Seq(Pool)
  <2>1. ahead = "l1" =>
         Advice(2, "VersionUpgrade", {"*.spec"}, "upgrade") \in Pool
    BY Zenon DEF Pool, Given
  <2>2. ahead = "l2" =>
         Advice(4, "VersionUpgrade", {"*.spec"}, "contribute") \in Pool
    BY Zenon DEF Pool, Given
  <2>3. QED
    BY <1>1, <1>2, <2>1, <2>2 DEF VersionAdvice, When
<1>5. BugfixAdvice \in Seq(Pool)
  <2>1. BugfixPatches # {} =>
         Advice(3, "BugFix", BugfixPatches, "missing") \in Pool
    BY Zenon DEF Pool, Given
  <2>2. Modified(Patches) # {} =>
         Advice(3, "BugFix", Modified(Patches), "modified") \in Pool
    BY Zenon DEF Pool, Given
  <2>3. QED
    BY <1>1, <1>2, <2>1, <2>2 DEF BugfixAdvice, When
<1>6. FeatureAdvice \in Seq(Pool)
  <2>1. FeaturePatches # {} =>
         Advice(3, "NewFeature", FeaturePatches, "missing") \in Pool
    BY Zenon DEF Pool, Given
  <2>2. QED
    BY <1>1, <1>2, <2>1 DEF FeatureAdvice, When
<1>7. SourceAdvice \in Seq(Pool)
  <2>1. Added(Sources) # {} =>
         Advice(4, "NewFeature", Added(Sources), "source") \in Pool
    BY Zenon DEF Pool, Given
  <2>2. Modified(Sources) # {} =>
         Advice(4, "ConfigUpdate", Modified(Sources), "source") \in Pool
    BY Zenon DEF Pool, Given
  <2>3. QED
    BY <1>1, <1>2, <2>1, <2>2 DEF SourceAdvice, When
<1>8. ASSUME NEW piece \in SpecParts PROVE SpecAdvice(piece) \in Seq(Pool)
  <2>1. Advice(3, "ConfigUpdate", {"*.spec"}, piece) \in Pool
    BY Zenon DEF Pool
  <2>2. QED
    BY <1>1, <1>2, <2>1 DEF SpecAdvice, When
<1>9. CustomAdvice \in Seq(Pool)
  <2>1. Advice(IF custom = "security" THEN 2 ELSE 4, "ConfigUpdate", {}, "custom") \in Pool
    BY Zenon DEF Pool
  <2>2. QED
    BY <1>1, <1>2, <2>1 DEF CustomAdvice, When
<1>10. {"buildRequires", "configure", "requires"} \subseteq SpecParts
  BY DEF SpecParts
<1>11. Generated \in Seq(Pool)
  BY <1>2, <1>3, <1>4, <1>5, <1>6, <1>7, <1>8, <1>9, <1>10 DEF Generated
<1>12. ASSUME NEW x \in Seq(Pool), NEW y \in Seq(Pool), Leads(x) PROVE Leads(x \o y)
  <2>1. 1 \in 1..Len(x) /\ Len(x \o y) = Len(x) + Len(y)
        /\ Len(y) \in Nat /\ x \o y \in Seq(Pool)
    BY <1>12 DEF Leads
  <2>2. (x \o y)[1] = x[1]
    BY <2>1, Joined
  <2>3. QED
    BY <1>12, <2>1, <2>2 DEF Leads
<1>13. SecurityPatches # {} => Leads(SecurityAdvice)
  BY DEF SecurityAdvice, When, Leads
<1>14. SecurityPatches # {} => Leads(Generated)
  <2> DEFINE x1 == SecurityAdvice \o VersionAdvice
             x2 == x1 \o BugfixAdvice
             x3 == x2 \o FeatureAdvice
             x4 == x3 \o SpecAdvice("buildRequires")
             x5 == x4 \o SpecAdvice("configure")
             x6 == x5 \o SourceAdvice
             x7 == x6 \o CustomAdvice
  <2>1. /\ x1 \in Seq(Pool) /\ x2 \in Seq(Pool) /\ x3 \in Seq(Pool) /\ x4 \in Seq(Pool)
        /\ x5 \in Seq(Pool) /\ x6 \in Seq(Pool) /\ x7 \in Seq(Pool)
    BY <1>2, <1>3, <1>4, <1>5, <1>6, <1>7, <1>8, <1>9, <1>10
  <2> SUFFICES ASSUME SecurityPatches # {} PROVE Leads(Generated)
    OBVIOUS
  <2>2. Leads(x1)
    BY <1>3, <1>4, <1>12, <1>13
  <2>3. Leads(x2)
    <3> HIDE DEF x1
    <3>1. QED
      BY <1>5, <1>12, <2>1, <2>2
  <2>4. Leads(x3)
    <3> HIDE DEF x2
    <3>1. QED
      BY <1>6, <1>12, <2>1, <2>3
  <2>5. Leads(x4)
    <3> HIDE DEF x3
    <3>1. QED
      BY <1>8, <1>10, <1>12, <2>1, <2>4
  <2>6. Leads(x5)
    <3> HIDE DEF x4
    <3>1. QED
      BY <1>8, <1>10, <1>12, <2>1, <2>5
  <2>7. Leads(x6)
    <3> HIDE DEF x5
    <3>1. QED
      BY <1>7, <1>12, <2>1, <2>6
  <2>8. Leads(x7)
    <3> HIDE DEF x6
    <3>1. QED
      BY <1>9, <1>12, <2>1, <2>7
  <2>9. Generated = x7 \o SpecAdvice("requires")
    BY DEF Generated
  <2>10. QED
    <3> HIDE DEF x7
    <3>1. QED
      BY <1>8, <1>10, <1>12, <2>1, <2>8, <2>9
<1>15. QED
  BY <1>11, <1>14

LEMMA PoolPriorities ==
  \A x \in Pool : x.priority \in 1..4 /\ (x.priority = 1 =>
    SecurityPatches # {} /\ x = Advice(1, "SecurityPatch", SecurityPatches, "missing"))
BY DEF Pool, Given, Advice

(* Only advice on the spec file shares its key with other advice.           *)
LEMMA PoolKeys ==
  ASSUME NEW x \in Pool, NEW y \in Pool, SameKey(x, y), y.about \notin SpecParts
  PROVE  x = y
<1>1. x.type = y.type /\ x.files = y.files
  BY DEF SameKey
<1>2. /\ FeaturePatches \subseteq Patches /\ Added(Sources) \subseteq Sources
      /\ Modified(Sources) \subseteq Sources /\ BugfixPatches \cap Modified(Patches) = {}
      /\ Added(Sources) \cap Modified(Sources) = {}
      /\ Patches \cap Sources = {} /\ "*.spec" \notin Sources
  BY FilesAssumption DEF FeaturePatches, Added, Removed, Modified, BugfixPatches
<1>3. CASE y.type \in {"SecurityPatch", "VersionUpgrade"}
  BY <1>1, <1>3 DEF Pool, Given, Advice
<1>4. CASE y.type = "BugFix"
  <2>1. \A z \in Pool : z.type = "BugFix" =>
           \/ z = Advice(3, "BugFix", BugfixPatches, "missing") /\ BugfixPatches # {}
           \/ z = Advice(3, "BugFix", Modified(Patches), "modified") /\ Modified(Patches) # {}
    BY DEF Pool, Given, Advice
  <2>2. QED
    BY <1>1, <1>2, <1>4, <2>1 DEF Advice
<1>5. CASE y.type = "NewFeature"
  <2>1. \A z \in Pool : z.type = "NewFeature" =>
           \/ z = Advice(3, "NewFeature", FeaturePatches, "missing") /\ FeaturePatches # {}
           \/ z = Advice(4, "NewFeature", Added(Sources), "source") /\ Added(Sources) # {}
    BY DEF Pool, Given, Advice
  <2>2. QED
    BY <1>1, <1>2, <1>5, <2>1 DEF Advice
<1>6. CASE y.type = "ConfigUpdate"
  <2>1. \A z \in Pool : z.type = "ConfigUpdate" =>
           \/ z = Advice(4, "ConfigUpdate", Modified(Sources), "source") /\ Modified(Sources) # {}
           \/ z.files = {"*.spec"} /\ z.about \in SpecParts
           \/ z = Advice(IF custom = "security" THEN 2 ELSE 4, "ConfigUpdate", {}, "custom")
    BY DEF Pool, Given, Advice
  <2>2. QED
    BY <1>1, <1>2, <1>6, <2>1 DEF Advice
<1>7. QED
  BY <1>3, <1>4, <1>5, <1>6 DEF Pool, Given, Advice

(* Whatever the two layers hold (AdviceKept).                               *)
LEMMA AlwaysKept == AdviceKept
<1> DEFINE kept == Recommendations
           g == Generated
<1>1. g \in Seq(Pool) /\ UpTo(g, 4)
  BY PoolGenerated, PoolPriorities DEF UpTo
<1>2. /\ kept \in Seq(Pool) /\ InOrder(kept) /\ UpTo(kept, 4)
      /\ \A j \in 1..Len(kept) : \E i \in 1..Len(g) : kept[j] = g[i]
      /\ \A i \in 1..Len(g) : \E j \in 1..Len(kept) :
           SameKey(kept[j], g[i]) /\ kept[j].priority <= g[i].priority
  BY <1>1, RecommendationsKeep
<1>3. DOMAIN g = 1..Len(g) /\ DOMAIN kept = 1..Len(kept) /\ Len(kept) \in Nat
  BY <1>1, <1>2
<1>4. ASSUME NEW i \in DOMAIN g
      PROVE  \E j \in DOMAIN kept :
               /\ kept[j].type = g[i].type /\ kept[j].files = g[i].files
               /\ kept[j].priority <= g[i].priority
  BY <1>2, <1>3 DEF SameKey
<1>5. ASSUME NEW i \in DOMAIN g, g[i].about \notin SpecParts
      PROVE  \E j \in DOMAIN kept : kept[j] = g[i]
  <2>1. PICK j \in DOMAIN kept : SameKey(kept[j], g[i])
    BY <1>2, <1>3
  <2>2. kept[j] \in Pool /\ g[i] \in Pool
    BY <1>1, <1>2, <1>3
  <2>3. QED
    BY <1>5, <2>1, <2>2, PoolKeys
<1>6. ASSUME NEW p \in SecurityPatches PROVE p \in kept[1].files
  <2> DEFINE a == Advice(1, "SecurityPatch", SecurityPatches, "missing")
  <2>1. \E i \in DOMAIN g : g[i] = a
    <3>1. g # <<>> /\ g[1] = a
      BY <1>6, PoolGenerated DEF Leads
    <3>2. QED
      BY <1>1, <3>1
  <2>2. PICK j \in 1..Len(kept) : kept[j].priority <= 1
    <3>1. a.priority = 1
      BY DEF Advice
    <3>2. QED
      BY <1>2, <1>3, <2>1, <3>1
  <2>3. 1 \in 1..Len(kept) /\ (1 < j \/ 1 = j)
    BY <1>3
  <2>4. kept[1].priority <= 1 /\ kept[1].priority \in 1..4 /\ kept[1] \in Pool
    <3>1. kept[1].priority \in 1..4 /\ kept[1] \in Pool
      BY <1>2, <1>3, <2>3 DEF UpTo
    <3>2. 1 < j => kept[1].priority <= kept[j].priority
      BY <1>2, <1>3, <2>2, <2>3 DEF InOrder
    <3>3. kept[j].priority \in 1..4
      BY <1>2, <2>2 DEF UpTo
    <3> HIDE DEF kept
    <3>4. QED
      BY <2>2, <2>3, <3>1, <3>2, <3>3
  <2>5. kept[1] = a
    BY <2>4, PoolPriorities
  <2>6. QED
    BY <1>6, <2>5 DEF Advice
<1>7. \A i, j \in DOMAIN kept : i < j => kept[i].priority <= kept[j].priority
  BY <1>2, <1>3 DEF InOrder
<1>8. QED
  BY <1>4, <1>5, <1>6, <1>7 DEF AdviceKept

(* Whatever is generated for two layers stays represented at its priority or *)
(* a higher one, only advice on the spec file is dropped, and the security   *)
(* patches that L2 lacks lead the list (AdviceKept).                         *)
THEOREM AdviceIsKept == DiffSpec => []AdviceKept
BY AlwaysKept, PTL
-----------------------------------------------------------------------------
(* The order of versions, spelled out.                                      *)
ParsedTags == {t \in Tags : Parses(t)}
Numbered(t) == IsStable(t) \/ t.pre.number >= 0

Above(a, b) ==
  \/ a[1] > b[1]
  \/ a[1] = b[1] /\ a[2] > b[2]
  \/ a[1] = b[1] /\ a[2] = b[2] /\ a[3] > b[3]
PreAbove(x, y) ==
  ~IsStable(y) /\ (IsStable(x) \/ ComparePreRelease(x.pre, y.pre) = 1)

LEMMA CoreNumbers ==
  ASSUME NEW t \in ParsedTags
  PROVE  /\ Core(t) \in [1..3 -> Nat]
         /\ Core(t)[1] \in Nat /\ Core(t)[2] \in Nat /\ Core(t)[3] \in Nat
<1>1. t.parts \in Seq(Nat) /\ Len(t.parts) \in 1..3
  BY TagsAssumption DEF ParsedTags, Parses
<1>2. \A i \in 1..Len(t.parts) : t.parts[i] \in Nat
  BY <1>1
<1>3. \A i \in 1..3 : (IF i <= Len(t.parts) THEN t.parts[i] ELSE 0) \in Nat
  BY <1>1, <1>2
<1>4. QED
  BY <1>3 DEF Core

LEMMA NewerCases ==
  ASSUME NEW x \in ParsedTags, NEW y \in ParsedTags
  PROVE  IsNewer(x, y) <=> Above(Core(x), Core(y)) \/ (Core(x) = Core(y) /\ PreAbove(x, y))
<1> DEFINE a == Core(x)
           b == Core(y)
           differ == {i \in 1..3 : a[i] # b[i]}
           i == CHOOSE d \in differ : \A e \in differ : d <= e
<1>1. /\ a \in [1..3 -> Nat] /\ a[1] \in Nat /\ a[2] \in Nat /\ a[3] \in Nat
      /\ b \in [1..3 -> Nat] /\ b[1] \in Nat /\ b[2] \in Nat /\ b[3] \in Nat
  BY CoreNumbers
<1>2. CASE differ # {}
  <2>1. IsNewer(x, y) <=> Compare(a[i], b[i]) = 1
    BY <1>2 DEF IsNewer, CompareVersions
  <2>2. i \in differ /\ \A e \in differ : i <= e
    <3>1. \E d \in differ : \A e \in differ : d <= e
      BY <1>2, LeastNumber
    <3> HIDE DEF differ
    <3>2. QED
      BY <3>1
  <2> HIDE DEF a, b, i
  <2>3. /\ i \in 1..3 /\ a[i] # b[i]
        /\ \A e \in 1..3 : e < i => a[e] = b[e]
    BY <2>2
  <2>4. Compare(a[i], b[i]) = 1 <=> a[i] > b[i]
    BY <1>1, <2>3 DEF Compare
  <2>5. i = 1 \/ i = 2 \/ i = 3
    BY <2>3
  <2>6. a # b
    BY <2>3
  <2>7. QED
    BY <1>1, <2>1, <2>3, <2>4, <2>5, <2>6 DEF Above, a, b
<1>3. CASE differ = {}
  <2>1. a = b
    BY <1>1, <1>3
  <2>2. IsNewer(x, y) <=> PreAbove(x, y)
    BY <1>3 DEF IsNewer, CompareVersions, PreAbove
  <2>3. ~Above(a, b)
    BY <1>1, <2>1 DEF Above
  <2>4. QED
    BY <2>1, <2>2, <2>3
<1>4. QED
  BY <1>2, <1>3

Placed(R, s, t) ==
  /\ s \o t \in Seq(R) /\ Len(s \o t) = Len(s) + Len(t)
  /\ \A i \in 1..Len(s) : (s \o t)[i] = s[i]
  /\ \A i \in 1..Len(t) : (s \o t)[Len(s) + i] = t[i]

LEMMA AllPlaced ==
  ASSUME NEW R, NEW s \in Seq(R), NEW t \in Seq(R)
  PROVE  Placed(R, s, t)
BY Joined DEF Placed

LEMMA FiveParts ==
  ASSUME NEW R, NEW c \in Seq(R), NEW d \in Seq(R), Len(c) = 3, Len(d) = 2
  PROVE  LET k == c \o d IN
         /\ k \in Seq(R) /\ Len(k) = 5
         /\ k[1] = c[1] /\ k[2] = c[2] /\ k[3] = c[3] /\ k[4] = d[1] /\ k[5] = d[2]
<1> DEFINE k == c \o d
<1>1. Placed(R, c, d)
  BY AllPlaced
<1>2. /\ k \in Seq(R) /\ Len(k) = 3 + 2
      /\ \A i \in 1..3 : k[i] = c[i]
      /\ \A i \in 1..2 : k[3 + i] = d[i]
  BY <1>1 DEF Placed
<1> HIDE DEF k
<1>3. k[1] = c[1] /\ k[2] = c[2] /\ k[3] = c[3] /\ k[3 + 1] = d[1] /\ k[3 + 2] = d[2]
  BY <1>2
<1>4. k[4] = d[1] /\ k[5] = d[2] /\ Len(k) = 5
  BY <1>2, <1>3
<1>5. QED
  BY <1>2, <1>3, <1>4 DEF k

(* The key of a tag, place by place.                                        *)
LEMMA KeyParts ==
  ASSUME NEW t \in ParsedTags, Numbered(t)
  PROVE  LET k == SortKey(t) IN
         /\ DOMAIN k = 1..5
         /\ k[1] = Core(t)[1] /\ k[2] = Core(t)[2] /\ k[3] = Core(t)[3]
         /\ k[1] \in Int /\ k[2] \in Int /\ k[3] \in Int /\ k[4] \in 1..5 /\ k[5] \in Int
         /\ IF IsStable(t) THEN k[4] = 5 /\ k[5] = 0
            ELSE k[4] = KindRank[t.pre.kind] /\ k[4] \in 1..4 /\ k[5] = t.pre.number
<1> DEFINE rest == IF IsStable(t) THEN <<5, 0>> ELSE <<KindRank[t.pre.kind], t.pre.number>>
           k == SortKey(t)
<1>1. Core(t) \in Seq(Int) /\ Len(Core(t)) = 3
  <2> DEFINE c == Core(t)
  <2>1. c \in [1..3 -> Nat]
    BY CoreNumbers
  <2> HIDE DEF c
  <2>2. c \in [1..3 -> Int] /\ DOMAIN c = 1..3 /\ 3 \in Nat
    BY <2>1
  <2>3. c \in Seq(Int)
    BY <2>2, SeqDef
  <2>4. Len(c) \in Nat /\ DOMAIN c = 1..Len(c)
    BY <2>3, LenProperties
  <2>5. Len(c) = 3
    BY <2>2, <2>4
  <2>6. QED
    BY <2>3, <2>5 DEF c
<1>2. ~IsStable(t) => KindRank[t.pre.kind] \in 1..4 /\ t.pre.number \in Int
  <2>1. ~IsStable(t) => t.pre \in [kind : DOMAIN KindRank, number : Int, text : Int]
    BY TagsAssumption DEF ParsedTags, IsStable
  <2>2. \A w \in DOMAIN KindRank : KindRank[w] \in 1..4
    BY DEF KindRank
  <2>3. QED
    BY <2>1, <2>2
<1>3. rest \in Seq(Int) /\ Len(rest) = 2
  BY <1>2
<1>4. k = Core(t) \o rest
  BY DEF SortKey
<1>5. /\ k \in Seq(Int) /\ Len(k) = 5
      /\ k[1] = Core(t)[1] /\ k[2] = Core(t)[2] /\ k[3] = Core(t)[3]
      /\ k[4] = rest[1] /\ k[5] = rest[2]
  <2> HIDE DEF k, rest
  <2>1. QED
    BY <1>1, <1>3, <1>4, FiveParts
<1>6. QED
  BY <1>2, <1>5, CoreNumbers

LEMMA BelowCases ==
  ASSUME NEW k, NEW l, DOMAIN k = 1..5
  PROVE  KeyBelow(k, l) <=>
           \/ k[1] < l[1]
           \/ k[1] = l[1] /\ k[2] < l[2]
           \/ k[1] = l[1] /\ k[2] = l[2] /\ k[3] < l[3]
           \/ k[1] = l[1] /\ k[2] = l[2] /\ k[3] = l[3] /\ k[4] < l[4]
           \/ k[1] = l[1] /\ k[2] = l[2] /\ k[3] = l[3] /\ k[4] = l[4] /\ k[5] < l[5]
<1> DEFINE P(i) == k[i] < l[i] /\ \A j \in 1..(i - 1) : k[j] = l[j]
<1>1. KeyBelow(k, l) <=> P(1) \/ P(2) \/ P(3) \/ P(4) \/ P(5)
  <2>1. \A i \in 1..5 : i = 1 \/ i = 2 \/ i = 3 \/ i = 4 \/ i = 5
    OBVIOUS
  <2>2. 1 \in 1..5 /\ 2 \in 1..5 /\ 3 \in 1..5 /\ 4 \in 1..5 /\ 5 \in 1..5
    OBVIOUS
  <2>3. KeyBelow(k, l) <=> \E i \in 1..5 : P(i)
    BY DEF KeyBelow
  <2> HIDE DEF P
  <2>4. QED
    BY <2>1, <2>2, <2>3
<1>2. /\ 1..(1 - 1) = {} /\ 1..(2 - 1) = {1} /\ 1..(3 - 1) = {1, 2}
      /\ 1..(4 - 1) = {1, 2, 3} /\ 1..(5 - 1) = {1, 2, 3, 4}
  OBVIOUS
<1>3. QED
  BY <1>1, <1>2

LEMMA NewerIsAbove ==
  ASSUME NEW x \in ParsedTags, NEW y \in ParsedTags, Numbered(x), Numbered(y)
  PROVE  IsNewer(x, y) <=> KeyBelow(SortKey(y), SortKey(x))
<1> DEFINE a == Core(x)
           b == Core(y)
           k == SortKey(x)
           l == SortKey(y)
<1>1. /\ DOMAIN l = 1..5 /\ DOMAIN k = 1..5
      /\ k[1] = a[1] /\ k[2] = a[2] /\ k[3] = a[3] /\ l[1] = b[1] /\ l[2] = b[2] /\ l[3] = b[3]
      /\ k[4] \in 1..5 /\ k[5] \in Int /\ l[4] \in 1..5 /\ l[5] \in Int
      /\ IF IsStable(x) THEN k[4] = 5 /\ k[5] = 0
         ELSE k[4] = KindRank[x.pre.kind] /\ k[4] \in 1..4 /\ k[5] = x.pre.number
      /\ IF IsStable(y) THEN l[4] = 5 /\ l[5] = 0
         ELSE l[4] = KindRank[y.pre.kind] /\ l[4] \in 1..4 /\ l[5] = y.pre.number
  BY KeyParts
<1>2. /\ a \in [1..3 -> Nat] /\ a[1] \in Nat /\ a[2] \in Nat /\ a[3] \in Nat
      /\ b \in [1..3 -> Nat] /\ b[1] \in Nat /\ b[2] \in Nat /\ b[3] \in Nat
  BY CoreNumbers
<1>3. a = b <=> a[1] = b[1] /\ a[2] = b[2] /\ a[3] = b[3]
  <2> HIDE DEF a, b
  <2>1. \A i \in 1..3 : i = 1 \/ i = 2 \/ i = 3
    OBVIOUS
  <2>2. QED
    BY <1>2, <2>1
<1> HIDE DEF a, b, k, l
<1>4. PreAbove(x, y) <=> k[4] > l[4] \/ (k[4] = l[4] /\ k[5] > l[5])
  <2>1. CASE IsStable(x) \/ IsStable(y)
    BY <1>1, <2>1 DEF PreAbove
  <2>2. CASE ~IsStable(x) /\ ~IsStable(y)
    <3>1. x.pre.number >= 0 /\ y.pre.number >= 0
      BY <2>2 DEF Numbered
    <3>2. ComparePreRelease(x.pre, y.pre) = 1 <=> k[4] > l[4] \/ (k[4] = l[4] /\ k[5] > l[5])
      BY <1>1, <2>2, <3>1 DEF ComparePreRelease, Compare
    <3>3. QED
      BY <2>2, <3>2 DEF PreAbove
  <2>3. QED
    BY <2>1, <2>2
<1>5. IsNewer(x, y) <=> Above(a, b) \/ (a = b /\ PreAbove(x, y))
  BY NewerCases DEF a, b
<1>6. KeyBelow(l, k) <=>
           \/ l[1] < k[1]
           \/ l[1] = k[1] /\ l[2] < k[2]
           \/ l[1] = k[1] /\ l[2] = k[2] /\ l[3] < k[3]
           \/ l[1] = k[1] /\ l[2] = k[2] /\ l[3] = k[3] /\ l[4] < k[4]
           \/ l[1] = k[1] /\ l[2] = k[2] /\ l[3] = k[3] /\ l[4] = k[4] /\ l[5] < k[5]
  BY <1>1, BelowCases
<1>7. IsNewer(x, y) <=> KeyBelow(l, k)
  BY <1>1, <1>2, <1>3, <1>4, <1>5, <1>6 DEF Above
<1>8. QED
  BY <1>7 DEF k, l

(* Tags whose order a sort or a search for the newest can rely on.          *)
Orderly(R) ==
  /\ \A x \in R : ~IsNewer(x, x)
  /\ \A x, y \in R : IsNewer(x, y) => ~IsNewer(y, x)
  /\ \A x, y, z \in R : ~IsNewer(x, y) /\ ~IsNewer(y, z) => ~IsNewer(x, z)

LEMMA NumberedAreOrderly ==
  ASSUME NEW R \in SUBSET ParsedTags, \A t \in R : Numbered(t)
  PROVE  Orderly(R)
<1>1. ASSUME NEW x \in R, NEW y \in R
      PROVE  LET k == SortKey(x) l == SortKey(y) IN
             /\ IsNewer(x, y) <=>
                  \/ l[1] < k[1]
                  \/ l[1] = k[1] /\ l[2] < k[2]
                  \/ l[1] = k[1] /\ l[2] = k[2] /\ l[3] < k[3]
                  \/ l[1] = k[1] /\ l[2] = k[2] /\ l[3] = k[3] /\ l[4] < k[4]
                  \/ l[1] = k[1] /\ l[2] = k[2] /\ l[3] = k[3] /\ l[4] = k[4] /\ l[5] < k[5]
             /\ k[1] \in Int /\ k[2] \in Int /\ k[3] \in Int /\ k[4] \in Int /\ k[5] \in Int
  <2>1. IsNewer(x, y) <=> KeyBelow(SortKey(y), SortKey(x))
    BY NewerIsAbove
  <2>2. DOMAIN SortKey(y) = 1..5
    BY KeyParts
  <2>3. QED
    BY <2>1, <2>2, KeyParts, BelowCases
<1>2. \A x \in R : ~IsNewer(x, x)
  BY <1>1
<1>3. \A x, y \in R : IsNewer(x, y) => ~IsNewer(y, x)
  <2> SUFFICES ASSUME NEW x \in R, NEW y \in R PROVE IsNewer(x, y) => ~IsNewer(y, x)
    OBVIOUS
  <2> DEFINE k == SortKey(x)
             l == SortKey(y)
  <2>1. QED
    BY <1>1
<1>4. \A x, y, z \in R : ~IsNewer(x, y) /\ ~IsNewer(y, z) => ~IsNewer(x, z)
  <2> SUFFICES ASSUME NEW x \in R, NEW y \in R, NEW z \in R
               PROVE  ~IsNewer(x, y) /\ ~IsNewer(y, z) => ~IsNewer(x, z)
    OBVIOUS
  <2>1. QED
    BY <1>1
<1>5. QED
  BY <1>2, <1>3, <1>4 DEF Orderly

(* The folds of VersionOrder, element by element.                           *)

FilterStep(S, out, t) == IF t \in S THEN Append(out, t) ELSE out
NewestStep(best, t) == IF CompareVersions(best, t) = 1 THEN best ELSE t
SortStep(out, t) ==
  InsertAt(out, Cardinality({i \in DOMAIN out : ~IsNewer(out[i], t)}) + 1, t)

FilterRun(f, R, list, S) ==
  /\ f \in [0..Len(list) -> Seq(R)]
  /\ f[0] = <<>> /\ f[Len(list)] = Filtered(list, S)
  /\ \A k \in 1..Len(list) : f[k] = FilterStep(S, f[k - 1], list[k])
NewestRun(f, R, list) ==
  /\ f \in [0..Len(list) -> R]
  /\ f[0] = list[1] /\ f[Len(list)] = MaxBy(list)
  /\ \A k \in 1..Len(list) : f[k] = NewestStep(f[k - 1], list[k])
SortRun(f, R, list) ==
  /\ f \in [0..Len(list) -> Seq(R)]
  /\ f[0] = <<>> /\ f[Len(list)] = Sorted(list)
  /\ \A k \in 1..Len(list) : f[k] = SortStep(f[k - 1], list[k])

LEMMA FilteredSteps ==
  ASSUME NEW R, NEW list \in Seq(R), NEW S
  PROVE  \E f : FilterRun(f, R, list, S)
<1> DEFINE N == Len(list)
           Body(it) == [s \in SUBSET (DOMAIN list) |->
                          IF s = {} THEN <<>>
                          ELSE LET x == Max(s) IN FilterStep(S, it[s \ {x}], list[x])]
           g == [p \in Seq(R) \X (1..N) |-> FilterStep(S, p[1], list[p[2]])]
           jt == CHOOSE kt : kt = Body(kt)
<1>1. /\ N \in Nat /\ DOMAIN list = 1..N /\ <<>> \in Seq(R)
      /\ {} \in SUBSET (1..N)
  OBVIOUS
<1>2. g \in [Seq(R) \X (1..N) -> Seq(R)]
  BY DEF FilterStep
<1>3. \A s \in SUBSET (1..N) : s # {} => Max(s) \in 1..N
  BY <1>1, MaxInside
<1>4. ASSUME NEW out \in Seq(R), NEW k \in 1..N
      PROVE  g[<<out, k>>] = FilterStep(S, out, list[k])
  OBVIOUS
<1>5. PICK it : Iterates(it, N, Seq(R), <<>>, g)
  <2> HIDE DEF g, N
  <2>1. QED
    BY <1>1, <1>2, FoldExists
<1>6. it = Body(it)
  <2>1. ASSUME NEW s \in SUBSET (1..N), s # {}
        PROVE  it[s] = FilterStep(S, it[s \ {Max(s)}], list[Max(s)])
    <3>1. it[s \ {Max(s)}] \in Seq(R) /\ it[s] = g[<<it[s \ {Max(s)}], Max(s)>>]
      BY <1>5, <2>1 DEF Iterates
    <3>2. QED
      BY <1>3, <1>4, <2>1, <3>1
  <2>2. QED
    BY <1>1, <1>5, <2>1 DEF Iterates
<1>7. jt = Body(jt)
  <2> HIDE DEF Body
  <2>1. QED
    BY <1>6
<1>8. Obeys(jt, N, Seq(R), <<>>, g)
  <2> HIDE DEF jt, g
  <2>1. QED
    BY <1>1, <1>3, <1>4, <1>7 DEF Obeys
<1>9. PICK f : Runs(f, N, Seq(R), <<>>, g, jt[1..N])
  <2> HIDE DEF jt, g, N
  <2>1. QED
    BY <1>1, <1>2, <1>8, FoldRuns
<1>10. Filtered(list, S) = jt[1..N]
  BY <1>1 DEF Filtered, FoldLeft, MapThenFoldSet, FilterStep
<1>11. \A k \in 1..N : f[k] = FilterStep(S, f[k - 1], list[k])
  <2> HIDE DEF jt, g
  <2>1. ASSUME NEW k \in 1..N PROVE f[k - 1] \in Seq(R)
    BY <1>9 DEF Runs
  <2>2. QED
    BY <1>4, <1>9, <2>1 DEF Runs
<1>12. QED
  <2> HIDE DEF jt, g
  <2>1. QED
    BY <1>9, <1>10, <1>11 DEF Runs, FilterRun

LEMMA MaxBySteps ==
  ASSUME NEW R, NEW list \in Seq(R), list # <<>>
  PROVE  \E f : NewestRun(f, R, list)
<1> DEFINE N == Len(list)
           Body(it) == [s \in SUBSET (DOMAIN list) |->
                          IF s = {} THEN list[1]
                          ELSE LET x == Max(s) IN NewestStep(it[s \ {x}], list[x])]
           g == [p \in R \X (1..N) |-> NewestStep(p[1], list[p[2]])]
           jt == CHOOSE kt : kt = Body(kt)
<1>1. /\ N \in Nat /\ DOMAIN list = 1..N /\ list[1] \in R
      /\ {} \in SUBSET (1..N)
  OBVIOUS
<1>2. g \in [R \X (1..N) -> R]
  BY DEF NewestStep
<1>3. \A s \in SUBSET (1..N) : s # {} => Max(s) \in 1..N
  BY <1>1, MaxInside
<1>4. ASSUME NEW out \in R, NEW k \in 1..N
      PROVE  g[<<out, k>>] = NewestStep(out, list[k])
  OBVIOUS
<1>5. PICK it : Iterates(it, N, R, list[1], g)
  <2> HIDE DEF g, N
  <2>1. QED
    BY <1>1, <1>2, FoldExists
<1>6. it = Body(it)
  <2>1. ASSUME NEW s \in SUBSET (1..N), s # {}
        PROVE  it[s] = NewestStep(it[s \ {Max(s)}], list[Max(s)])
    <3>1. it[s \ {Max(s)}] \in R /\ it[s] = g[<<it[s \ {Max(s)}], Max(s)>>]
      BY <1>5, <2>1 DEF Iterates
    <3>2. QED
      BY <1>3, <1>4, <2>1, <3>1
  <2>2. QED
    BY <1>1, <1>5, <2>1 DEF Iterates
<1>7. jt = Body(jt)
  <2> HIDE DEF Body
  <2>1. QED
    BY <1>6
<1>8. Obeys(jt, N, R, list[1], g)
  <2> HIDE DEF jt, g
  <2>1. QED
    BY <1>1, <1>3, <1>4, <1>7 DEF Obeys
<1>9. PICK f : Runs(f, N, R, list[1], g, jt[1..N])
  <2> HIDE DEF jt, g, N
  <2>1. QED
    BY <1>1, <1>2, <1>8, FoldRuns
<1>10. MaxBy(list) = jt[1..N]
  BY <1>1 DEF MaxBy, FoldLeft, MapThenFoldSet, NewestStep
<1>11. \A k \in 1..N : f[k] = NewestStep(f[k - 1], list[k])
  <2> HIDE DEF jt, g
  <2>1. ASSUME NEW k \in 1..N PROVE f[k - 1] \in R
    BY <1>9 DEF Runs
  <2>2. QED
    BY <1>4, <1>9, <2>1 DEF Runs
<1>12. QED
  <2> HIDE DEF jt, g
  <2>1. QED
    BY <1>9, <1>10, <1>11 DEF Runs, NewestRun

(* Inserting after the first p elements.                                    *)
Inserted(R, out, p, t, r) ==
  /\ r \in Seq(R) /\ Len(r) = Len(out) + 1
  /\ \A i \in 1..p : r[i] = out[i]
  /\ r[p + 1] = t
  /\ \A i \in (p + 1)..Len(out) : r[i + 1] = out[i]

LEMMA InsertPlaces ==
  ASSUME NEW R, NEW out \in Seq(R), NEW t \in R, NEW p \in 0..Len(out)
  PROVE  Inserted(R, out, p, t, InsertAt(out, p + 1, t))
<1> DEFINE N == Len(out)
           a == SubSeq(out, 1, p)
           b == SubSeq(out, p + 1, N)
           ab == a \o <<t>>
           r == ab \o b
<1>1. N \in Nat /\ p \in Nat /\ p <= N /\ \A i \in 1..N : out[i] \in R
  OBVIOUS
<1>2. a \in Seq(R) /\ Len(a) = p /\ \A i \in 1..p : a[i] = out[i]
  <2>1. 1 \in Int /\ p \in Int /\ \A i \in 1..p : out[i] \in R
    BY <1>1
  <2>2. /\ a \in Seq(R) /\ Len(a) = (IF 1 <= p THEN p - 1 + 1 ELSE 0)
        /\ \A i \in 1..(p - 1 + 1) : a[i] = out[1 + i - 1]
    BY <2>1, SubSeqProperties
  <2> HIDE DEF a
  <2>3. QED
    BY <1>1, <2>2
<1>3. b \in Seq(R) /\ Len(b) = N - p /\ \A i \in 1..(N - p) : b[i] = out[p + i]
  <2>1. p + 1 \in Int /\ N \in Int /\ \A i \in (p + 1)..N : out[i] \in R
    BY <1>1
  <2>2. /\ b \in Seq(R) /\ Len(b) = (IF p + 1 <= N THEN N - (p + 1) + 1 ELSE 0)
        /\ \A i \in 1..(N - (p + 1) + 1) : b[i] = out[(p + 1) + i - 1]
    BY <2>1, SubSeqProperties
  <2> HIDE DEF b, N
  <2>3. QED
    BY <1>1, <2>2
<1> HIDE DEF a, b, N
<1>4. /\ ab \in Seq(R) /\ Len(ab) = p + 1
      /\ \A i \in 1..p : ab[i] = out[i]
      /\ ab[p + 1] = t
  <2>1. <<t>> \in Seq(R) /\ Len(<<t>>) = 1 /\ <<t>>[1] = t /\ 1 \in 1..1
    OBVIOUS
  <2>2. Placed(R, a, <<t>>)
    BY <1>2, <2>1, AllPlaced
  <2>3. QED
    BY <1>2, <2>1, <2>2 DEF Placed
<1> HIDE DEF ab
<1>5. /\ r \in Seq(R) /\ Len(r) = (p + 1) + (N - p)
      /\ \A i \in 1..(p + 1) : r[i] = ab[i]
      /\ \A i \in 1..(N - p) : r[(p + 1) + i] = b[i]
  <2>1. Placed(R, ab, b)
    BY <1>3, <1>4, AllPlaced
  <2>2. QED
    BY <1>3, <1>4, <2>1 DEF Placed
<1> HIDE DEF r
<1>6. Len(r) = N + 1 /\ r[p + 1] = t /\ \A i \in 1..p : r[i] = out[i]
  BY <1>1, <1>4, <1>5
<1>7. ASSUME NEW i \in (p + 1)..N PROVE r[i + 1] = out[i]
  <2>1. i - p \in 1..(N - p) /\ (p + 1) + (i - p) = i + 1 /\ p + (i - p) = i
    BY <1>1
  <2>2. r[(p + 1) + (i - p)] = b[i - p]
    BY <1>5, <2>1
  <2>3. b[i - p] = out[p + (i - p)]
    BY <1>3, <2>1
  <2>4. QED
    BY <2>1, <2>2, <2>3
<1>8. r = InsertAt(out, p + 1, t)
  <2>1. (p + 1) - 1 = p
    BY <1>1
  <2>2. QED
    BY <2>1 DEF InsertAt, r, ab, a, b, N
<1>9. QED
  BY <1>5, <1>6, <1>7, <1>8 DEF Inserted, N

\* how many of the sorted ones a new one goes behind
NotOlder(out, t) == {i \in DOMAIN out : ~IsNewer(out[i], t)}

LEMMA NotOlderCount ==
  ASSUME NEW R, NEW out \in Seq(R), NEW t
  PROVE  Cardinality(NotOlder(out, t)) \in 0..Len(out)
<1>1. Len(out) \in Nat /\ DOMAIN out = 1..Len(out)
  OBVIOUS
<1>2. IsFiniteSet(1..Len(out)) /\ Cardinality(1..Len(out)) = Len(out)
  BY <1>1, FS_Interval
<1>3. NotOlder(out, t) \in SUBSET (1..Len(out))
  BY <1>1 DEF NotOlder
<1> DEFINE D == NotOlder(out, t)
<1> HIDE DEF D
<1>4. IsFiniteSet(D) /\ Cardinality(D) <= Len(out)
  BY <1>2, <1>3, FS_Subset DEF D
<1>5. Cardinality(D) \in Nat
  BY <1>4, FS_CardinalityType
<1>6. QED
  BY <1>1, <1>4, <1>5 DEF D

LEMMA SortInserts ==
  ASSUME NEW R, NEW out \in Seq(R), NEW t \in R
  PROVE  Inserted(R, out, Cardinality(NotOlder(out, t)), t, SortStep(out, t))
<1>1. Cardinality(NotOlder(out, t)) \in 0..Len(out)
  BY NotOlderCount
<1>2. SortStep(out, t) = InsertAt(out, Cardinality(NotOlder(out, t)) + 1, t)
  BY DEF SortStep, NotOlder
<1>3. QED
  BY <1>1, <1>2, InsertPlaces

LEMMA SortedSteps ==
  ASSUME NEW R, NEW list \in Seq(R)
  PROVE  \E f : SortRun(f, R, list)
<1> DEFINE N == Len(list)
           Body(it) == [s \in SUBSET (DOMAIN list) |->
                          IF s = {} THEN <<>>
                          ELSE LET x == Max(s) IN SortStep(it[s \ {x}], list[x])]
           g == [p \in Seq(R) \X (1..N) |-> SortStep(p[1], list[p[2]])]
           jt == CHOOSE kt : kt = Body(kt)
<1>1. /\ N \in Nat /\ DOMAIN list = 1..N /\ <<>> \in Seq(R)
      /\ {} \in SUBSET (1..N)
  OBVIOUS
<1>2. g \in [Seq(R) \X (1..N) -> Seq(R)]
  <2>1. ASSUME NEW out \in Seq(R), NEW k \in 1..N PROVE SortStep(out, list[k]) \in Seq(R)
    <3>1. list[k] \in R
      OBVIOUS
    <3>2. Inserted(R, out, Cardinality(NotOlder(out, list[k])), list[k], SortStep(out, list[k]))
      BY <3>1, SortInserts
    <3>3. QED
      BY <3>2 DEF Inserted
  <2>2. QED
    BY <2>1
<1>3. \A s \in SUBSET (1..N) : s # {} => Max(s) \in 1..N
  BY <1>1, MaxInside
<1>4. ASSUME NEW out \in Seq(R), NEW k \in 1..N
      PROVE  g[<<out, k>>] = SortStep(out, list[k])
  OBVIOUS
<1>5. PICK it : Iterates(it, N, Seq(R), <<>>, g)
  <2> HIDE DEF g, N
  <2>1. QED
    BY <1>1, <1>2, FoldExists
<1>6. it = Body(it)
  <2>1. ASSUME NEW s \in SUBSET (1..N), s # {}
        PROVE  it[s] = SortStep(it[s \ {Max(s)}], list[Max(s)])
    <3>1. it[s \ {Max(s)}] \in Seq(R) /\ it[s] = g[<<it[s \ {Max(s)}], Max(s)>>]
      BY <1>5, <2>1 DEF Iterates
    <3>2. QED
      BY <1>3, <1>4, <2>1, <3>1
  <2>2. QED
    BY <1>1, <1>5, <2>1 DEF Iterates
<1>7. jt = Body(jt)
  <2> HIDE DEF Body
  <2>1. QED
    BY <1>6
<1>8. Obeys(jt, N, Seq(R), <<>>, g)
  <2> HIDE DEF jt, g
  <2>1. QED
    BY <1>1, <1>3, <1>4, <1>7 DEF Obeys
<1>9. PICK f : Runs(f, N, Seq(R), <<>>, g, jt[1..N])
  <2> HIDE DEF jt, g, N
  <2>1. QED
    BY <1>1, <1>2, <1>8, FoldRuns
<1>10. Sorted(list) = jt[1..N]
  BY <1>1 DEF Sorted, FoldLeft, MapThenFoldSet, SortStep
<1>11. \A k \in 1..N : f[k] = SortStep(f[k - 1], list[k])
  <2> HIDE DEF jt, g
  <2>1. ASSUME NEW k \in 1..N PROVE f[k - 1] \in Seq(R)
    BY <1>9 DEF Runs
  <2>2. QED
    BY <1>4, <1>9, <2>1 DEF Runs
<1>12. QED
  <2> HIDE DEF jt, g
  <2>1. QED
    BY <1>9, <1>10, <1>11 DEF Runs, SortRun

(* Filtering: what is in S, and nothing else.                               *)
Chosen(list, S, k) == {i \in 1..k : list[i] \in S}
Filters(r, list, S) ==
  /\ \A j \in 1..Len(r) : r[j] \in S /\ \E i \in 1..Len(list) : r[j] = list[i]
  /\ \A i \in 1..Len(list) : list[i] \in S => \E j \in 1..Len(r) : r[j] = list[i]
  /\ Len(r) = Cardinality(Chosen(list, S, Len(list)))

LEMMA FilteredPicks ==
  ASSUME NEW R, NEW list \in Seq(R), NEW S
  PROVE  Filtered(list, S) \in Seq(R \cap S) /\ Filters(Filtered(list, S), list, S)
<1> DEFINE N == Len(list)
           From(out, k) == \A j \in 1..Len(out) :
             out[j] \in S /\ \E i \in 1..k : out[j] = list[i]
           All(out, k) == \A i \in 1..k :
             list[i] \in S => \E j \in 1..Len(out) : out[j] = list[i]
           Many(out, k) == Len(out) = Cardinality(Chosen(list, S, k))
<1>0. PICK f : FilterRun(f, R, list, S)
  BY FilteredSteps
<1>1. /\ f \in [0..N -> Seq(R)]
      /\ f[0] = <<>> /\ f[N] = Filtered(list, S)
      /\ \A k \in 1..N : f[k] = FilterStep(S, f[k - 1], list[k])
  BY <1>0 DEF FilterRun
<1> DEFINE Good == {k \in 0..N : From(f[k], k) /\ All(f[k], k) /\ Many(f[k], k)}
<1>2. N \in Nat /\ 0 \in Good
  <2>1. N \in Nat /\ 0 \in 0..N /\ 1..0 = {} /\ Len(<<>>) = 0
    OBVIOUS
  <2>2. Chosen(list, S, 0) = {} /\ Cardinality({}) = 0
    BY <2>1, FS_EmptySet DEF Chosen
  <2>3. QED
    BY <1>1, <2>1, <2>2
<1>3. ASSUME NEW k \in 0..N, k + 1 \in 0..N, k \in Good PROVE k + 1 \in Good
  <2> DEFINE a == list[k + 1]
             out == f[k]
             C == Chosen(list, S, k)
  <2>1. /\ k + 1 \in 1..N /\ (k + 1) - 1 = k /\ 1..(k + 1) = (1..k) \cup {k + 1}
        /\ out \in Seq(R) /\ Len(out) \in Nat /\ a \in R
    <3>1. k + 1 \in 1..N /\ (k + 1) - 1 = k
      BY <1>2, <1>3
    <3>2. 1..(k + 1) = (1..k) \cup {k + 1}
      BY <1>2
    <3>3. f[k] \in Seq(R)
      BY <1>1
    <3>4. QED
      BY <3>1, <3>2, <3>3
  <2>2. f[k + 1] = FilterStep(S, out, a)
    BY <1>1, <2>1
  <2>3. From(out, k) /\ All(out, k) /\ Len(out) = Cardinality(C)
    BY <1>3
  <2>4. IsFiniteSet(C) /\ k + 1 \notin C
    <3>1. C \in SUBSET (1..k) /\ k + 1 \notin 1..k
      BY DEF Chosen
    <3>2. IsFiniteSet(1..k)
      BY FS_Interval
    <3> HIDE DEF C
    <3>3. QED
      BY <3>1, <3>2, FS_Subset
  <2>5. CASE a \in S
    <3>1. f[k + 1] = Append(out, a)
      BY <2>2, <2>5 DEF FilterStep
    <3>2. /\ Len(Append(out, a)) = Len(out) + 1 /\ Append(out, a)[Len(out) + 1] = a
          /\ \A j \in 1..Len(out) : Append(out, a)[j] = out[j]
          /\ 1..(Len(out) + 1) = (1..Len(out)) \cup {Len(out) + 1}
      BY <2>1
    <3>3. Chosen(list, S, k + 1) = C \cup {k + 1}
      BY <2>1, <2>5 DEF Chosen
    <3> HIDE DEF out, C
    <3>4. From(Append(out, a), k + 1)
      <4>0. \A j \in 1..Len(out) : out[j] \in S /\ \E i \in 1..(k + 1) : out[j] = list[i]
        BY <2>1, <2>3
      <4>1. \A j \in 1..Len(out) : Append(out, a)[j] \in S
              /\ \E i \in 1..(k + 1) : Append(out, a)[j] = list[i]
        BY <3>2, <4>0
      <4>2. k + 1 \in 1..(k + 1) /\ Append(out, a)[Len(out) + 1] = list[k + 1]
        BY <2>1, <3>2
      <4>3. QED
        BY <2>5, <3>2, <4>1, <4>2
    <3>5. All(Append(out, a), k + 1)
      BY <2>1, <2>3, <2>5, <3>2
    <3>6. Many(Append(out, a), k + 1)
      <4>1. Cardinality(C \cup {k + 1}) = Cardinality(C) + 1
        BY <2>4, FS_AddElement
      <4>2. QED
        BY <2>3, <3>2, <3>3, <4>1
    <3>7. QED
      BY <1>3, <3>1, <3>4, <3>5, <3>6
  <2>6. CASE a \notin S
    <3>1. f[k + 1] = out
      BY <2>2, <2>6 DEF FilterStep
    <3>2. Chosen(list, S, k + 1) = C
      BY <2>1, <2>6 DEF Chosen
    <3> HIDE DEF out, C
    <3>3. From(out, k + 1) /\ All(out, k + 1) /\ Many(out, k + 1)
      BY <2>1, <2>3, <2>6, <3>2
    <3>4. QED
      BY <1>3, <3>1, <3>3
  <2>7. QED
    BY <2>5, <2>6
<1>4. N \in Good
  <2> HIDE DEF Good, N
  <2>1. 0..N \subseteq Good
    BY <1>2, <1>3, Counting
  <2>2. QED
    BY <1>2, <2>1
<1>5. f[N] \in Seq(R)
  BY <1>1, <1>2
<1> DEFINE r == Filtered(list, S)
<1>6. r \in Seq(R) /\ Filters(r, list, S)
  BY <1>1, <1>4, <1>5 DEF Filters
<1> HIDE DEF r
<1>7. r \in Seq(R \cap S)
  <2>1. Len(r) \in Nat /\ r = [i \in 1..Len(r) |-> r[i]] /\ \A i \in 1..Len(r) : r[i] \in R \cap S
    BY <1>6 DEF Filters
  <2>2. r \in [1..Len(r) -> R \cap S]
    BY <2>1
  <2>3. QED
    BY <2>1, <2>2, SeqDef
<1>8. QED
  BY <1>6, <1>7 DEF r

(* max_by over orderly tags: a tag of the list, and none is newer.          *)
LEMMA MaxByNewest ==
  ASSUME NEW R, Orderly(R), NEW list \in Seq(R), list # <<>>
  PROVE  /\ MaxBy(list) \in R
         /\ \E i \in 1..Len(list) : MaxBy(list) = list[i]
         /\ \A i \in 1..Len(list) : ~IsNewer(list[i], MaxBy(list))
<1> DEFINE N == Len(list)
<1>0. PICK f : NewestRun(f, R, list)
  BY MaxBySteps
<1>1. /\ f \in [0..N -> R]
      /\ f[0] = list[1] /\ f[N] = MaxBy(list)
      /\ \A k \in 1..N : f[k] = NewestStep(f[k - 1], list[k])
  BY <1>0 DEF NewestRun
<1> DEFINE Good == {k \in 0..N : /\ \E i \in 1..N : f[k] = list[i]
                                /\ \A i \in 1..k : ~IsNewer(list[i], f[k])}
<1>2. N \in Nat /\ 1 \in 1..N /\ 0 \in Good /\ \A i \in 1..N : list[i] \in R
  <2>1. N \in Nat /\ 1 \in 1..N /\ 0 \in 0..N /\ 1..0 = {} /\ \A i \in 1..N : list[i] \in R
    OBVIOUS
  <2>2. QED
    BY <1>1, <2>1
<1>3. ASSUME NEW k \in 0..N, k + 1 \in 0..N, k \in Good PROVE k + 1 \in Good
  <2>1. k + 1 \in 1..N /\ (k + 1) - 1 = k /\ 1..(k + 1) = (1..k) \cup {k + 1}
    <3>1. k + 1 \in 1..N /\ (k + 1) - 1 = k
      BY <1>2, <1>3
    <3>2. 1..(k + 1) = (1..k) \cup {k + 1}
      BY <1>2
    <3>3. QED
      BY <3>1, <3>2
  <2> DEFINE best == f[k]
             t == list[k + 1]
  <2>2. best \in R /\ t \in R /\ \A i \in 1..k : list[i] \in R
    <3>1. \A i \in 1..k : i \in 1..N
      BY <1>2
    <3>2. QED
      BY <1>1, <1>2, <2>1, <3>1
  <2>3. f[k + 1] = IF IsNewer(best, t) THEN best ELSE t
    BY <1>1, <2>1 DEF NewestStep, IsNewer
  <2>4. (\E i \in 1..N : best = list[i]) /\ \A i \in 1..k : ~IsNewer(list[i], best)
    BY <1>3
  <2> HIDE DEF best
  <2>5. CASE IsNewer(best, t)
    <3>1. ~IsNewer(t, best)
      BY <2>2, <2>5 DEF Orderly
    <3>2. QED
      BY <1>3, <2>1, <2>3, <2>4, <2>5, <3>1
  <2>6. CASE ~IsNewer(best, t)
    <3>1. ~IsNewer(t, t) /\ \A i \in 1..k : ~IsNewer(list[i], t)
      BY <2>2, <2>4, <2>6 DEF Orderly
    <3>2. QED
      BY <1>3, <2>1, <2>3, <2>6, <3>1
  <2>7. QED
    BY <2>5, <2>6
<1>4. N \in Good
  <2> HIDE DEF Good, N
  <2>1. 0..N \subseteq Good
    BY <1>2, <1>3, Counting
  <2>2. QED
    BY <1>2, <2>1
<1>5. f[N] \in R
  BY <1>1, <1>2
<1>6. QED
  BY <1>1, <1>4, <1>5

(* A stable tag passes over pre-releases in any order, though these are not  *)
(* ordered among themselves.                                                *)
StableFirst(x, y, t) ==
  /\ IsNewer(y, x) => ~IsNewer(x, y)
  /\ ~IsNewer(x, y) /\ ~IsNewer(y, t) => ~IsNewer(x, t)

LEMMA StablePasses ==
  ASSUME NEW x \in ParsedTags, IsStable(x), NEW y \in ParsedTags, NEW t \in ParsedTags
  PROVE  StableFirst(x, y, t)
<1> DEFINE a == Core(x)
           b == Core(y)
           c == Core(t)
<1>1. /\ a \in [1..3 -> Nat] /\ a[1] \in Nat /\ a[2] \in Nat /\ a[3] \in Nat
      /\ b \in [1..3 -> Nat] /\ b[1] \in Nat /\ b[2] \in Nat /\ b[3] \in Nat
      /\ c \in [1..3 -> Nat] /\ c[1] \in Nat /\ c[2] \in Nat /\ c[3] \in Nat
  BY CoreNumbers
<1>2. /\ IsNewer(x, y) <=> Above(a, b) \/ (a = b /\ PreAbove(x, y))
      /\ IsNewer(y, x) <=> Above(b, a) \/ (b = a /\ PreAbove(y, x))
      /\ IsNewer(y, t) <=> Above(b, c) \/ (b = c /\ PreAbove(y, t))
      /\ IsNewer(x, t) <=> Above(a, c) \/ (a = c /\ PreAbove(x, t))
  BY NewerCases
<1>3. /\ ~PreAbove(y, x)
      /\ PreAbove(x, y) <=> ~IsStable(y)
      /\ PreAbove(x, t) <=> ~IsStable(t)
      /\ IsStable(y) /\ ~IsStable(t) => PreAbove(y, t)
  BY DEF PreAbove
<1> HIDE DEF a, b, c
<1>4. /\ a[1] = b[1] /\ a[2] = b[2] /\ a[3] = b[3] => a = b
      /\ b[1] = c[1] /\ b[2] = c[2] /\ b[3] = c[3] => b = c
  <2>1. \A i \in 1..3 : i = 1 \/ i = 2 \/ i = 3
    OBVIOUS
  <2>2. QED
    BY <1>1, <2>1
<1>5. IsNewer(y, x) => ~IsNewer(x, y)
  <2>1. ASSUME Above(b, a) PROVE ~Above(a, b) /\ a # b
    BY <1>1, <2>1 DEF Above
  <2>2. QED
    BY <1>2, <1>3, <2>1
<1>6. ASSUME ~IsNewer(x, y), ~IsNewer(y, t) PROVE ~IsNewer(x, t)
  <2>1. /\ Above(b, a) \/ (a = b /\ IsStable(y))
        /\ Above(c, b) \/ (b = c /\ ~PreAbove(y, t))
    BY <1>1, <1>2, <1>3, <1>4, <1>6 DEF Above
  <2>2. CASE a = b /\ b = c /\ IsStable(y) /\ ~PreAbove(y, t)
    <3>1. ~Above(a, c)
      BY <1>1, <2>2 DEF Above
    <3>2. QED
      BY <1>2, <1>3, <2>2, <3>1
  <2>3. CASE Above(c, a)
    <3>1. ~Above(a, c) /\ a # c
      BY <1>1, <2>3 DEF Above
    <3>2. QED
      BY <1>2, <3>1
  <2>4. Above(c, a) \/ (a = b /\ b = c /\ IsStable(y) /\ ~PreAbove(y, t))
    BY <1>1, <2>1 DEF Above
  <2>5. QED
    BY <2>2, <2>3, <2>4
<1>7. QED
  BY <1>5, <1>6 DEF StableFirst

LEMMA StableIrreflexive ==
  ASSUME NEW x \in ParsedTags, IsStable(x)
  PROVE  ~IsNewer(x, x)
BY StablePasses DEF StableFirst

(* max_by over any tags: a tag of the list, and no stable one is newer.      *)
LEMMA MaxByPassed ==
  ASSUME NEW list \in Seq(ParsedTags), list # <<>>
  PROVE  /\ MaxBy(list) \in ParsedTags
         /\ \E i \in 1..Len(list) : MaxBy(list) = list[i]
         /\ \A i \in 1..Len(list) : IsStable(list[i]) => ~IsNewer(list[i], MaxBy(list))
<1> DEFINE N == Len(list)
<1>0. PICK f : NewestRun(f, ParsedTags, list)
  BY MaxBySteps
<1>1. /\ f \in [0..N -> ParsedTags]
      /\ f[0] = list[1] /\ f[N] = MaxBy(list)
      /\ \A k \in 1..N : f[k] = NewestStep(f[k - 1], list[k])
  BY <1>0 DEF NewestRun
<1> DEFINE Good == {k \in 0..N : /\ \E i \in 1..N : f[k] = list[i]
                                /\ \A i \in 1..k : IsStable(list[i]) => ~IsNewer(list[i], f[k])}
<1>2. N \in Nat /\ 1 \in 1..N /\ 0 \in Good /\ \A i \in 1..N : list[i] \in ParsedTags
  <2>1. N \in Nat /\ 1 \in 1..N /\ 0 \in 0..N /\ 1..0 = {}
        /\ \A i \in 1..N : list[i] \in ParsedTags
    OBVIOUS
  <2>2. QED
    BY <1>1, <2>1
<1>3. ASSUME NEW k \in 0..N, k + 1 \in 0..N, k \in Good PROVE k + 1 \in Good
  <2>1. k + 1 \in 1..N /\ (k + 1) - 1 = k /\ 1..(k + 1) = (1..k) \cup {k + 1}
    <3>1. k + 1 \in 1..N /\ (k + 1) - 1 = k
      BY <1>2, <1>3
    <3>2. 1..(k + 1) = (1..k) \cup {k + 1}
      BY <1>2
    <3>3. QED
      BY <3>1, <3>2
  <2> DEFINE best == f[k]
             t == list[k + 1]
  <2>2. best \in ParsedTags /\ t \in ParsedTags /\ \A i \in 1..k : list[i] \in ParsedTags
    <3>1. \A i \in 1..k : i \in 1..N
      BY <1>2
    <3>2. QED
      BY <1>1, <1>2, <2>1, <3>1
  <2>3. f[k + 1] = IF IsNewer(best, t) THEN best ELSE t
    BY <1>1, <2>1 DEF NewestStep, IsNewer
  <2>4. /\ \E i \in 1..N : best = list[i]
        /\ \A i \in 1..k : IsStable(list[i]) => ~IsNewer(list[i], best)
    BY <1>3
  <2> HIDE DEF best
  <2>5. CASE IsNewer(best, t)
    <3>1. IsStable(t) => ~IsNewer(t, best)
      BY <2>2, <2>5, StablePasses DEF StableFirst
    <3>2. QED
      BY <1>3, <2>1, <2>3, <2>4, <2>5, <3>1
  <2>6. CASE ~IsNewer(best, t)
    <3>1. IsStable(t) => ~IsNewer(t, t)
      BY <2>2, StableIrreflexive
    <3>2. \A i \in 1..k : IsStable(list[i]) => ~IsNewer(list[i], t)
      BY <2>2, <2>4, <2>6, StablePasses DEF StableFirst
    <3>3. QED
      BY <1>3, <2>1, <2>3, <2>6, <3>1, <3>2
  <2>7. QED
    BY <2>5, <2>6
<1>4. N \in Good
  <2> HIDE DEF Good, N
  <2>1. 0..N \subseteq Good
    BY <1>2, <1>3, Counting
  <2>2. QED
    BY <1>2, <2>1
<1>5. f[N] \in ParsedTags
  BY <1>1, <1>2
<1>6. QED
  BY <1>1, <1>4, <1>5

(* A set of positions with no gap before any of them.                       *)
LEMMA NoGaps ==
  ASSUME NEW n \in Nat, NEW D \in SUBSET (1..n), \A j \in D : 1..j \subseteq D
  PROVE  Cardinality(D) \in 0..n /\ D = 1..Cardinality(D)
<1>1. CASE D = {}
  <2>1. Cardinality(D) = 0 /\ 1..0 = {}
    BY <1>1, FS_EmptySet
  <2>2. QED
    BY <1>1, <2>1
<1>2. CASE D # {}
  <2>1. PICK m \in D : \A k \in D : k <= m
    BY <1>2, MaxExists
  <2>2. D = 1..m /\ m \in 1..n
    <3>1. 1..m \subseteq D
      OBVIOUS
    <3>2. D \subseteq 1..m
      BY <2>1
    <3>3. QED
      BY <3>1, <3>2
  <2>3. Cardinality(D) = m
    BY <2>2, FS_Interval
  <2>4. QED
    BY <2>2, <2>3
<1>3. QED
  BY <1>1, <1>2

(* The sort: as long as the list, and no element newer than a later one.    *)
Rising(r) == \A i, j \in 1..Len(r) : i < j => ~IsNewer(r[i], r[j])

LEMMA InsertedRises ==
  ASSUME NEW R, Orderly(R), NEW out \in Seq(R), Rising(out), NEW t \in R
  PROVE  Rising(SortStep(out, t))
<1> DEFINE N == Len(out)
           D == NotOlder(out, t)
           p == Cardinality(D)
           r == SortStep(out, t)
<1>1. N \in Nat /\ DOMAIN out = 1..N /\ \A i \in 1..N : out[i] \in R
  OBVIOUS
<1>2. D \in SUBSET (1..N) /\ \A i \in 1..N : i \in D <=> ~IsNewer(out[i], t)
  BY <1>1 DEF NotOlder
<1>3. \A j \in D : 1..j \subseteq D
  <2> SUFFICES ASSUME NEW j \in D, NEW i \in 1..j PROVE i \in D
    OBVIOUS
  <2>1. j \in 1..N /\ i \in 1..N /\ (i < j \/ i = j)
    BY <1>1, <1>2
  <2>2. CASE i < j
    <3>1. ~IsNewer(out[i], out[j]) /\ ~IsNewer(out[j], t)
      BY <1>2, <2>1, <2>2 DEF Rising
    <3>2. ~IsNewer(out[i], t)
      BY <1>1, <2>1, <3>1 DEF Orderly
    <3>3. QED
      BY <1>2, <2>1, <3>2
  <2>3. QED
    BY <2>1, <2>2
<1>4. Inserted(R, out, p, t, r)
  BY SortInserts
<1> HIDE DEF D, r, N
<1>5. p \in 0..N /\ D = 1..p
  BY <1>1, <1>2, <1>3, NoGaps
<1> HIDE DEF p
<1>6. /\ Len(r) = N + 1
      /\ \A i \in 1..p : r[i] = out[i]
      /\ r[p + 1] = t
      /\ \A i \in (p + 1)..N : r[i + 1] = out[i]
  BY <1>4 DEF Inserted, N
<1>7. \A i \in 1..p : i \in 1..N /\ ~IsNewer(out[i], t)
  BY <1>1, <1>2, <1>5
<1>8. \A i \in (p + 1)..N : i \in 1..N /\ ~IsNewer(t, out[i])
  <2> TAKE i \in (p + 1)..N
  <2>1. i \in 1..N /\ i \notin D
    BY <1>1, <1>5
  <2>2. IsNewer(out[i], t)
    BY <1>2, <2>1
  <2>3. QED
    BY <1>1, <2>1, <2>2 DEF Orderly
<1>9. ASSUME NEW k \in 1..(N + 1)
      PROVE  \/ k \in 1..p /\ r[k] = out[k]
             \/ k = p + 1 /\ r[k] = t
             \/ k > p + 1 /\ k - 1 \in (p + 1)..N /\ r[k] = out[k - 1]
  <2>1. p \in Nat /\ N \in Nat /\ p <= N
    BY <1>1, <1>5
  <2>2. CASE k \in 1..p
    BY <1>6, <2>2
  <2>3. CASE k = p + 1
    BY <1>6, <2>3
  <2>4. CASE k > p + 1
    <3>1. k - 1 \in (p + 1)..N /\ (k - 1) + 1 = k
      BY <2>1, <2>4
    <3>2. r[(k - 1) + 1] = out[k - 1]
      BY <1>6, <3>1
    <3>3. QED
      BY <2>4, <3>1, <3>2
  <2>5. QED
    BY <2>1, <2>2, <2>3, <2>4
<1>10. ASSUME NEW i \in 1..(N + 1), NEW j \in 1..(N + 1), i < j
       PROVE  ~IsNewer(r[i], r[j])
  <2>0. p \in Nat /\ N \in Nat /\ p <= N
    BY <1>1, <1>5
  <2>r. \A a, b \in 1..N : a < b => ~IsNewer(out[a], out[b])
    BY DEF Rising, N
  <2>1. CASE i \in 1..p /\ r[i] = out[i]
    <3>1. CASE j \in 1..p /\ r[j] = out[j]
      BY <1>7, <1>10, <2>r, <2>1, <3>1
    <3>2. CASE j = p + 1 /\ r[j] = t
      BY <1>7, <2>1, <3>2
    <3>3. CASE j > p + 1 /\ j - 1 \in (p + 1)..N /\ r[j] = out[j - 1]
      <4>1. i \in 1..N /\ j - 1 \in 1..N /\ i < j - 1
        BY <2>0, <2>1, <3>3
      <4>2. QED
        BY <2>r, <2>1, <3>3, <4>1
    <3>4. QED
      BY <1>9, <3>1, <3>2, <3>3
  <2>2. CASE i = p + 1 /\ r[i] = t
    <3>1. j > p + 1 /\ j \notin 1..p /\ j # p + 1
      BY <1>10, <2>0, <2>2
    <3>2. j - 1 \in (p + 1)..N /\ r[j] = out[j - 1]
      BY <1>9, <3>1
    <3>3. QED
      BY <1>8, <2>2, <3>2
  <2>3. CASE i > p + 1 /\ i - 1 \in (p + 1)..N /\ r[i] = out[i - 1]
    <3>1. j > p + 1 /\ j \notin 1..p /\ j # p + 1
      BY <1>10, <2>0, <2>3
    <3>2. j - 1 \in (p + 1)..N /\ r[j] = out[j - 1]
      BY <1>9, <3>1
    <3>3. i - 1 \in 1..N /\ j - 1 \in 1..N /\ i - 1 < j - 1
      BY <1>8, <1>10, <2>3, <3>2
    <3>4. QED
      BY <2>r, <2>3, <3>2, <3>3
  <2>4. QED
    BY <1>9, <2>1, <2>2, <2>3
<1>11. QED
  BY <1>6, <1>10 DEF Rising, r

LEMMA SortedInOrder ==
  ASSUME NEW R, Orderly(R), NEW list \in Seq(R)
  PROVE  Len(Sorted(list)) = Len(list) /\ Rising(Sorted(list)) /\ Sorted(list) \in Seq(R)
<1> DEFINE N == Len(list)
<1>0. PICK f : SortRun(f, R, list)
  BY SortedSteps
<1>1. /\ f \in [0..N -> Seq(R)]
      /\ f[0] = <<>> /\ f[N] = Sorted(list)
      /\ \A k \in 1..N : f[k] = SortStep(f[k - 1], list[k])
  BY <1>0 DEF SortRun
<1> DEFINE Good == {k \in 0..N : Len(f[k]) = k /\ Rising(f[k])}
<1>2. N \in Nat /\ 0 \in Good /\ \A i \in 1..N : list[i] \in R
  <2>1. N \in Nat /\ 0 \in 0..N /\ Len(<<>>) = 0 /\ 1..0 = {} /\ \A i \in 1..N : list[i] \in R
    OBVIOUS
  <2>2. Rising(<<>>)
    BY <2>1 DEF Rising
  <2>3. QED
    BY <1>1, <2>1, <2>2
<1>3. ASSUME NEW k \in 0..N, k + 1 \in 0..N, k \in Good PROVE k + 1 \in Good
  <2> DEFINE out == f[k]
             t == list[k + 1]
  <2>1. k + 1 \in 1..N /\ (k + 1) - 1 = k
    BY <1>2, <1>3
  <2>2. out \in Seq(R) /\ t \in R /\ Rising(out) /\ Len(out) = k
    BY <1>1, <1>2, <1>3, <2>1
  <2>3. f[k + 1] = SortStep(out, t)
    BY <1>1, <2>1
  <2> HIDE DEF out, t
  <2>4. Rising(SortStep(out, t))
    BY <2>2, InsertedRises
  <2>5. Inserted(R, out, Cardinality(NotOlder(out, t)), t, SortStep(out, t))
    BY <2>2, SortInserts
  <2>6. Len(SortStep(out, t)) = k + 1
    BY <2>2, <2>5 DEF Inserted
  <2>7. QED
    BY <1>3, <2>3, <2>4, <2>6
<1>4. N \in Good
  <2> HIDE DEF Good, N
  <2>1. 0..N \subseteq Good
    BY <1>2, <1>3, Counting
  <2>2. QED
    BY <1>2, <2>1
<1>5. f[N] \in Seq(R)
  BY <1>1, <1>2
<1>6. QED
  BY <1>1, <1>4, <1>5

(* Filtering and sorting keep distinct elements distinct.                   *)
Distinct(r) == \A i, j \in 1..Len(r) : i # j => r[i] # r[j]
OneOf(t, r) == \E i \in 1..Len(r) : r[i] = t

LEMMA AppendDistinct ==
  ASSUME NEW R, NEW out \in Seq(R), NEW t \in R, Distinct(out), ~OneOf(t, out)
  PROVE  Distinct(Append(out, t)) /\ Append(out, t) \in Seq(R)
<1>1. /\ Len(out) \in Nat /\ Append(out, t) \in Seq(R)
      /\ Len(Append(out, t)) = Len(out) + 1 /\ Append(out, t)[Len(out) + 1] = t
      /\ \A j \in 1..Len(out) : Append(out, t)[j] = out[j]
  OBVIOUS
<1>2. 1..(Len(out) + 1) = (1..Len(out)) \cup {Len(out) + 1}
  BY <1>1
<1>3. QED
  BY <1>1, <1>2 DEF Distinct, OneOf

LEMMA FilteredDistinct ==
  ASSUME NEW R, NEW list \in Seq(R), NEW S, Distinct(list)
  PROVE  Distinct(Filtered(list, S))
<1> DEFINE N == Len(list)
           From(out, k) == \A j \in 1..Len(out) : \E i \in 1..k : out[j] = list[i]
<1>0. PICK f : FilterRun(f, R, list, S)
  BY FilteredSteps
<1>1. /\ f \in [0..N -> Seq(R)]
      /\ f[0] = <<>> /\ f[N] = Filtered(list, S)
      /\ \A k \in 1..N : f[k] = FilterStep(S, f[k - 1], list[k])
  BY <1>0 DEF FilterRun
<1> DEFINE Good == {k \in 0..N : From(f[k], k) /\ Distinct(f[k])}
<1>2. N \in Nat /\ 0 \in Good /\ \A i \in 1..N : list[i] \in R
  <2>1. N \in Nat /\ 0 \in 0..N /\ 1..0 = {} /\ Len(<<>>) = 0 /\ \A i \in 1..N : list[i] \in R
    OBVIOUS
  <2>2. Distinct(<<>>)
    BY <2>1 DEF Distinct
  <2>3. QED
    BY <1>1, <2>1, <2>2
<1>3. ASSUME NEW k \in 0..N, k + 1 \in 0..N, k \in Good PROVE k + 1 \in Good
  <2> DEFINE a == list[k + 1]
             out == f[k]
  <2>1. k + 1 \in 1..N /\ (k + 1) - 1 = k
    BY <1>2, <1>3
  <2>2. 1..(k + 1) = (1..k) \cup {k + 1} /\ k + 1 \notin 1..k /\ 1..k \subseteq 1..N
    BY <1>2, <2>1
  <2>3. out \in Seq(R) /\ a \in R /\ f[k + 1] = FilterStep(S, out, a)
    BY <1>1, <1>2, <2>1
  <2>4. From(out, k) /\ Distinct(out)
    BY <1>3
  <2>5. ~OneOf(a, out)
    <3>1. \A i \in 1..k : list[i] # a
      BY <2>1, <2>2 DEF Distinct
    <3>2. QED
      BY <2>4, <3>1 DEF OneOf
  <2>6. CASE a \in S
    <3>1. f[k + 1] = Append(out, a)
      BY <2>3, <2>6 DEF FilterStep
    <3> HIDE DEF out
    <3>2. Distinct(Append(out, a))
      BY <2>3, <2>4, <2>5, AppendDistinct
    <3>3. /\ Len(out) \in Nat /\ Len(Append(out, a)) = Len(out) + 1
          /\ Append(out, a)[Len(out) + 1] = a
          /\ \A j \in 1..Len(out) : Append(out, a)[j] = out[j]
      BY <2>3
    <3>4. 1..(Len(out) + 1) = (1..Len(out)) \cup {Len(out) + 1}
      BY <3>3
    <3>5. \A j \in 1..Len(out) : \E i \in 1..(k + 1) : out[j] = list[i]
      BY <2>2, <2>4
    <3>6. From(Append(out, a), k + 1)
      BY <2>2, <3>3, <3>4, <3>5
    <3>7. QED
      BY <1>3, <3>1, <3>2, <3>6
  <2>7. CASE a \notin S
    <3>1. f[k + 1] = out
      BY <2>3, <2>7 DEF FilterStep
    <3> HIDE DEF out
    <3>2. From(out, k + 1)
      BY <2>2, <2>4
    <3>3. QED
      BY <1>3, <2>4, <3>1, <3>2
  <2>8. QED
    BY <2>6, <2>7
<1>4. N \in Good
  <2> HIDE DEF Good, N
  <2>1. 0..N \subseteq Good
    BY <1>2, <1>3, Counting
  <2>2. QED
    BY <1>2, <2>1
<1>5. QED
  BY <1>1, <1>4

(* an insertion keeps the elements and adds one *)
Keeps(r, out, t) ==
  /\ Distinct(out) /\ ~OneOf(t, out) => Distinct(r)
  /\ OneOf(t, r)
  /\ \A x : OneOf(x, out) => OneOf(x, r)
  /\ \A x : OneOf(x, r) => x = t \/ OneOf(x, out)

LEMMA InsertedKeeps ==
  ASSUME NEW R, NEW out \in Seq(R), NEW t \in R, NEW p \in 0..Len(out), NEW r,
         Inserted(R, out, p, t, r)
  PROVE  Keeps(r, out, t)
<1> DEFINE N == Len(out)
<1>1. N \in Nat /\ p \in Nat /\ p <= N
  OBVIOUS
<1>2. /\ Len(r) = N + 1
      /\ \A i \in 1..p : r[i] = out[i]
      /\ r[p + 1] = t
      /\ \A i \in (p + 1)..N : r[i + 1] = out[i]
  BY DEF Inserted
<1> HIDE DEF N
<1>3. ASSUME NEW k \in 1..(N + 1)
      PROVE  \/ k \in 1..p /\ k \in 1..N /\ r[k] = out[k]
             \/ k = p + 1 /\ r[k] = t
             \/ k > p + 1 /\ k - 1 \in 1..N /\ r[k] = out[k - 1]
  <2>1. CASE k \in 1..p
    BY <1>1, <1>2, <2>1
  <2>2. CASE k = p + 1
    BY <1>2, <2>2
  <2>3. CASE k > p + 1
    <3>1. k - 1 \in (p + 1)..N /\ (k - 1) + 1 = k /\ k - 1 \in 1..N
      BY <1>1, <2>3
    <3>2. r[(k - 1) + 1] = out[k - 1]
      BY <1>2, <3>1
    <3>3. QED
      BY <2>3, <3>1, <3>2
  <2>4. QED
    BY <1>1, <2>1, <2>2, <2>3
<1>4. OneOf(t, r)
  <2>1. p + 1 \in 1..(N + 1)
    BY <1>1
  <2>2. QED
    BY <1>2, <2>1 DEF OneOf
<1>5. ASSUME NEW x, OneOf(x, out) PROVE OneOf(x, r)
  <2>1. PICK i \in 1..N : out[i] = x
    BY <1>5 DEF OneOf, N
  <2>2. CASE i \in 1..p
    <3>1. i \in 1..(N + 1) /\ r[i] = x
      BY <1>1, <1>2, <2>1, <2>2
    <3>2. QED
      BY <1>2, <3>1 DEF OneOf
  <2>3. CASE i \in (p + 1)..N
    <3>1. i + 1 \in 1..(N + 1) /\ r[i + 1] = x
      BY <1>1, <1>2, <2>1, <2>3
    <3>2. QED
      BY <1>2, <3>1 DEF OneOf
  <2>4. QED
    BY <1>1, <2>1, <2>2, <2>3
<1>6. ASSUME NEW x, OneOf(x, r) PROVE x = t \/ OneOf(x, out)
  <2>1. PICK k \in 1..(N + 1) : r[k] = x
    BY <1>2, <1>6 DEF OneOf
  <2>2. QED
    BY <1>3, <2>1 DEF OneOf, N
<1>7. ASSUME Distinct(out), ~OneOf(t, out), NEW i \in 1..(N + 1), NEW j \in 1..(N + 1), i < j
      PROVE  r[i] # r[j]
  <2>1. (\A a, b \in 1..N : a # b => out[a] # out[b]) /\ \A a \in 1..N : out[a] # t
    BY <1>7 DEF Distinct, OneOf, N
  <2>2. CASE i \in 1..p /\ i \in 1..N /\ r[i] = out[i]
    <3>1. CASE j > p + 1 /\ j - 1 \in 1..N /\ r[j] = out[j - 1]
      <4>1. i # j - 1
        BY <1>1, <2>2, <3>1
      <4>2. QED
        BY <2>1, <2>2, <3>1, <4>1
    <3>2. CASE j \in 1..p /\ j \in 1..N /\ r[j] = out[j]
      BY <1>7, <2>1, <2>2, <3>2
    <3>3. QED
      BY <1>3, <2>1, <2>2, <3>1, <3>2
  <2>3. CASE i = p + 1 /\ r[i] = t
    <3>1. j > p + 1 /\ j \notin 1..p /\ j # p + 1
      BY <1>1, <1>7, <2>3
    <3>2. QED
      BY <1>3, <2>1, <2>3, <3>1
  <2>4. CASE i > p + 1 /\ i - 1 \in 1..N /\ r[i] = out[i - 1]
    <3>1. j > p + 1 /\ j \notin 1..p /\ j # p + 1 /\ i - 1 # j - 1
      BY <1>1, <1>7, <2>4
    <3>2. j - 1 \in 1..N /\ r[j] = out[j - 1]
      BY <1>3, <3>1
    <3>3. QED
      BY <2>1, <2>4, <3>1, <3>2
  <2>5. QED
    BY <1>3, <2>2, <2>3, <2>4
<1>8. Distinct(out) /\ ~OneOf(t, out) => Distinct(r)
  <2> SUFFICES ASSUME Distinct(out), ~OneOf(t, out), NEW i \in 1..(N + 1), NEW j \in 1..(N + 1),
                      i # j
               PROVE  r[i] # r[j]
    BY <1>2 DEF Distinct
  <2>1. i < j \/ j < i
    BY <1>1
  <2>2. QED
    BY <1>7, <2>1
<1>9. QED
  BY <1>4, <1>5, <1>6, <1>8 DEF Keeps

LEMMA SortedKeeps ==
  ASSUME NEW R, NEW list \in Seq(R)
  PROVE  /\ Distinct(list) => Distinct(Sorted(list))
         /\ \A x : OneOf(x, Sorted(list)) <=> OneOf(x, list)
<1> DEFINE N == Len(list)
           Same(out, k) == \A x : OneOf(x, out) <=> \E i \in 1..k : list[i] = x
<1>0. PICK f : SortRun(f, R, list)
  BY SortedSteps
<1>1. /\ f \in [0..N -> Seq(R)]
      /\ f[0] = <<>> /\ f[N] = Sorted(list)
      /\ \A k \in 1..N : f[k] = SortStep(f[k - 1], list[k])
  BY <1>0 DEF SortRun
<1> DEFINE Good == {k \in 0..N : Same(f[k], k) /\ (Distinct(list) => Distinct(f[k]))}
<1>2. N \in Nat /\ 0 \in Good /\ \A i \in 1..N : list[i] \in R
  <2>1. N \in Nat /\ 0 \in 0..N /\ Len(<<>>) = 0 /\ 1..0 = {} /\ \A i \in 1..N : list[i] \in R
    OBVIOUS
  <2>2. Distinct(<<>>) /\ Same(<<>>, 0)
    BY <2>1 DEF Distinct, OneOf
  <2>3. QED
    BY <1>1, <2>1, <2>2
<1>3. ASSUME NEW k \in 0..N, k + 1 \in 0..N, k \in Good PROVE k + 1 \in Good
  <2> DEFINE out == f[k]
             t == list[k + 1]
             r == SortStep(out, t)
  <2>1. k + 1 \in 1..N /\ (k + 1) - 1 = k
    BY <1>2, <1>3
  <2>2. 1..(k + 1) = (1..k) \cup {k + 1} /\ k + 1 \notin 1..k /\ 1..k \subseteq 1..N
    BY <1>2, <2>1
  <2>3. out \in Seq(R) /\ t \in R /\ f[k + 1] = r
    BY <1>1, <1>2, <2>1
  <2>4. Same(out, k) /\ (Distinct(list) => Distinct(out))
    BY <1>3
  <2> HIDE DEF out
  <2>5. Cardinality(NotOlder(out, t)) \in 0..Len(out)
    BY <2>3, NotOlderCount
  <2>6. Inserted(R, out, Cardinality(NotOlder(out, t)), t, r)
    BY <2>3, SortInserts
  <2> DEFINE p == Cardinality(NotOlder(out, t))
  <2> HIDE DEF p, r
  <2>7. p \in 0..Len(out) /\ Inserted(R, out, p, t, r)
    BY <2>5, <2>6 DEF p
  <2>8. Keeps(r, out, t)
    BY <2>3, <2>7, InsertedKeeps
  <2>9. Same(r, k + 1)
    BY <2>2, <2>4, <2>8 DEF Keeps
  <2>10. Distinct(list) => Distinct(r)
    <3> SUFFICES ASSUME Distinct(list) PROVE Distinct(r)
      OBVIOUS
    <3>1. \A i \in 1..k : list[i] # t
      BY <2>1, <2>2 DEF Distinct
    <3>2. ~OneOf(t, out)
      BY <2>4, <3>1
    <3>3. QED
      BY <2>4, <2>8, <3>2 DEF Keeps
  <2>11. QED
    BY <1>3, <2>3, <2>9, <2>10
<1>4. N \in Good
  <2> HIDE DEF Good, N
  <2>1. 0..N \subseteq Good
    BY <1>2, <1>3, Counting
  <2>2. QED
    BY <1>2, <2>1
<1>5. QED
  BY <1>1, <1>4 DEF OneOf

(* What the versions and the component always are: no version is listed     *)
(* twice.                                                                   *)
TagsKnown ==
  /\ tags \in Seq(Tags) /\ component \in ParsedTags
  /\ mainline \in Seq(Tags) /\ Distinct(mainline)

LEMMA TagsInductive == TagsSpec => []TagsKnown
<1>1. TagsInit => TagsKnown
  BY DEF TagsInit, TagsKnown, ParsedTags, Distinct
<1>2. TagsKnown /\ [TagsNext]_tagVars => TagsKnown'
  <2> SUFFICES ASSUME TagsKnown, [TagsNext]_tagVars PROVE TagsKnown'
    OBVIOUS
  <2>1. ASSUME NEW t \in Tags, AddTag(t) PROVE TagsKnown'
    BY <2>1 DEF TagsKnown, AddTag
  <2>2. ASSUME NEW t \in Tags, AddMainline(t) PROVE TagsKnown'
    <3>1. ~OneOf(t, mainline)
      BY <2>2 DEF AddMainline, New, OneOf, TagsKnown
    <3>2. Distinct(Append(mainline, t)) /\ Append(mainline, t) \in Seq(Tags)
      BY <3>1, AppendDistinct DEF TagsKnown
    <3>3. QED
      BY <2>2, <3>2 DEF TagsKnown, AddMainline
  <2>3. CASE UNCHANGED tagVars
    BY <2>3 DEF TagsKnown, tagVars
  <2>4. QED
    BY <2>1, <2>2, <2>3 DEF TagsNext
<1>3. QED
  BY <1>1, <1>2, PTL DEF TagsSpec

StableOnes == {t \in Tags : Parses(t) /\ IsStable(t)}
NumberedOnes == {t \in ParsedTags : Numbered(t)}
CandidateOnes == {t \in Tags : Parses(t) /\ t.parts[1] < MajorLimit}

LEMMA OnesAreOrderly ==
  Orderly(NumberedOnes) /\ Orderly(StableOnes) /\ StableOnes \subseteq ParsedTags
<1>1. NumberedOnes \in SUBSET ParsedTags /\ StableOnes \in SUBSET ParsedTags
  BY DEF NumberedOnes, StableOnes, ParsedTags
<1>2. (\A t \in NumberedOnes : Numbered(t)) /\ (\A t \in StableOnes : Numbered(t))
  BY DEF NumberedOnes, StableOnes, Numbered
<1>3. QED
  BY <1>1, <1>2, NumberedAreOrderly

LEMMA CandidatesParse ==
  ASSUME TagsKnown
  PROVE  /\ Candidates(tags) \in Seq(ParsedTags)
         /\ Filters(Candidates(tags), tags, CandidateOnes)
<1> DEFINE p == Candidates(tags)
<1>1. tags \in Seq(Tags) /\ p = Filtered(tags, CandidateOnes)
  BY DEF TagsKnown, Candidates, CandidateOnes
<1>2. p \in Seq(Tags \cap CandidateOnes) /\ Filters(p, tags, CandidateOnes)
  BY <1>1, FilteredPicks
<1>3. Tags \cap CandidateOnes \subseteq ParsedTags
  BY DEF CandidateOnes, ParsedTags
<1> HIDE DEF p
<1>4. Len(p) \in Nat /\ p \in [1..Len(p) -> ParsedTags]
  BY <1>2, <1>3
<1>5. p \in Seq(ParsedTags)
  BY <1>4, SeqDef
<1>6. QED
  BY <1>2, <1>5 DEF p

(* A tag that a stable one is not newer than is newer than what that is     *)
(* newer than.                                                              *)
LEMMA StableNewer ==
  ASSUME NEW x \in StableOnes, NEW m \in ParsedTags, NEW z \in ParsedTags,
         IsNewer(x, z), ~IsNewer(x, m)
  PROVE  IsNewer(m, z)
<1>1. x \in ParsedTags /\ IsStable(x)
  BY DEF StableOnes, ParsedTags
<1>2. StableFirst(x, m, z)
  BY <1>1, StablePasses
<1>3. QED
  BY <1>2 DEF StableFirst

(* The latest of the candidates, where they are numbered.                   *)
LEMMA LatestIsAbove ==
  ASSUME TagsKnown
  PROVE  LatestAbove
<1> DEFINE p == Candidates(tags)
           m == MaxBy(p)
<1>1. p \in Seq(ParsedTags)
  BY CandidatesParse
<1>2. p # <<>> => FindLatest(tags) = m
  BY DEF FindLatest
<1> HIDE DEF p
<1>3. ASSUME p # <<>>, \A i \in DOMAIN p : IsStable(p[i]) \/ p[i].pre.number >= 0
      PROVE  \A i \in DOMAIN p : ~KeyBelow(SortKey(m), SortKey(p[i]))
  <2>1. Len(p) \in Nat /\ DOMAIN p = 1..Len(p) /\ p \in [1..Len(p) -> ParsedTags]
    BY <1>1
  <2>2. \A i \in 1..Len(p) : p[i] \in NumberedOnes
    BY <1>3, <2>1 DEF NumberedOnes, Numbered
  <2>3. p \in [1..Len(p) -> NumberedOnes]
    BY <2>1, <2>2
  <2>4. p \in Seq(NumberedOnes)
    BY <2>1, <2>3, SeqDef
  <2>5. m \in NumberedOnes /\ \A i \in 1..Len(p) : ~IsNewer(p[i], m)
    BY <1>3, <2>4, OnesAreOrderly, MaxByNewest
  <2>6. ASSUME NEW i \in 1..Len(p) PROVE ~KeyBelow(SortKey(m), SortKey(p[i]))
    <3>1. p[i] \in ParsedTags /\ m \in ParsedTags /\ Numbered(p[i]) /\ Numbered(m)
      BY <2>2, <2>5 DEF NumberedOnes
    <3>2. IsNewer(p[i], m) <=> KeyBelow(SortKey(m), SortKey(p[i]))
      BY <3>1, NewerIsAbove
    <3>3. QED
      BY <2>5, <3>2
  <2>7. QED
    BY <2>1, <2>6
<1>4. QED
  BY <1>2, <1>3 DEF LatestAbove, p

(* The stable tags newer than a version, and when any is counted.           *)
NewerOnes(c) == {t \in Tags : Parses(t) /\ IsStable(t) /\ IsNewer(t, c)}

LEMMA CountedIsThere ==
  ASSUME NEW list \in Seq(Tags), NEW c
  PROVE  CountBehind(c, list) > 0 <=> \E i \in 1..Len(list) : list[i] \in NewerOnes(c)
<1> DEFINE N == Len(list)
           C == {i \in DOMAIN list :
                   Parses(list[i]) /\ IsStable(list[i]) /\ IsNewer(list[i], c)}
<1>1. N \in Nat /\ DOMAIN list = 1..N /\ \A i \in 1..N : list[i] \in Tags
  OBVIOUS
<1>2. CountBehind(c, list) = Cardinality(C)
  BY DEF CountBehind
<1>3. C \in SUBSET (1..N) /\ (C # {} <=> \E i \in 1..N : list[i] \in NewerOnes(c))
  BY <1>1 DEF NewerOnes
<1> HIDE DEF N, C
<1>4. IsFiniteSet(C)
  <2>1. IsFiniteSet(1..N)
    BY <1>1, FS_Interval
  <2>2. QED
    BY <1>3, <2>1, FS_Subset
<1>5. Cardinality(C) \in Nat /\ (Cardinality(C) = 0 <=> C = {})
  BY <1>4, FS_CardinalityType, FS_EmptySet
<1>6. CountBehind(c, list) > 0 <=> C # {}
  BY <1>2, <1>5
<1>7. QED
  BY <1>3, <1>6 DEF N

(* The count and is_outdated.                                               *)
LEMMA BehindDoesAgree ==
  ASSUME TagsKnown, tags # <<>>
  PROVE  BehindAgrees
<1> DEFINE p == Candidates(tags)
           m == FindLatest(tags)
<1>1. tags \in Seq(Tags) /\ component \in ParsedTags /\ 1 \in 1..Len(tags) /\ tags[1] \in Tags
  BY DEF TagsKnown
<1>2. p \in Seq(ParsedTags) /\ Filters(p, tags, CandidateOnes)
  BY CandidatesParse
<1>3. /\ p # <<>> => m = MaxBy(p)
      /\ p = <<>> => m = tags[1]
  BY DEF FindLatest
<1> HIDE DEF p, m
<1>4. ASSUME CountBehind(component, p) > 0 PROVE IsOutdated(component, m)
  <2>1. p \in Seq(Tags)
    <3>1. Len(p) \in Nat /\ p \in [1..Len(p) -> Tags]
      BY <1>2 DEF ParsedTags
    <3>2. QED
      BY <3>1, SeqDef
  <2>2. PICK i \in 1..Len(p) : p[i] \in NewerOnes(component)
    BY <1>4, <2>1, CountedIsThere
  <2>3. p # <<>>
    BY <2>2
  <2>4. m \in ParsedTags /\ (IsStable(p[i]) => ~IsNewer(p[i], m))
    BY <1>2, <1>3, <2>3, MaxByPassed
  <2>5. p[i] \in StableOnes /\ IsNewer(p[i], component) /\ IsStable(p[i])
    BY <2>2 DEF NewerOnes, StableOnes
  <2>6. IsNewer(m, component)
    BY <1>1, <2>4, <2>5, StableNewer
  <2>7. QED
    BY <2>4, <2>6 DEF IsOutdated, ParsedTags
<1>5. ASSUME IsOutdated(component, m), IsStable(m) PROVE CountBehind(component, tags) > 0
  <2>1. \E i \in 1..Len(tags) : tags[i] = m
    <3>1. CASE p = <<>>
      BY <1>1, <1>3, <3>1
    <3>2. CASE p # <<>>
      <4>1. PICK j \in 1..Len(p) : m = p[j]
        BY <1>2, <1>3, <3>2, MaxByPassed
      <4>2. QED
        BY <1>2, <4>1 DEF Filters
    <3>3. QED
      BY <3>1, <3>2
  <2>2. m \in NewerOnes(component)
    BY <1>1, <1>5, <2>1 DEF NewerOnes, IsOutdated
  <2>3. QED
    BY <1>1, <2>1, <2>2, CountedIsThere
<1>6. QED
  BY <1>4, <1>5 DEF BehindAgrees, p, m

(* The versions offered.                                                    *)
LEMMA UpgradesAreOffered ==
  ASSUME TagsKnown
  PROVE  UpgradesOffered
<1> DEFINE S == NewerOnes(tags[1])
           l == Filtered(mainline, S)
           u == Sorted(l)
<1>1. mainline \in Seq(Tags) /\ Distinct(mainline)
  BY DEF TagsKnown
<1>2. l \in Seq(Tags \cap S) /\ Filters(l, mainline, S) /\ Distinct(l)
  BY <1>1, FilteredPicks, FilteredDistinct
<1>3. Upgradable(tags[1], mainline) = u
  BY DEF Upgradable, NewerOnes
<1> HIDE DEF l
<1>4. Orderly(Tags \cap S)
  <2>1. Tags \cap S \subseteq StableOnes
    BY DEF NewerOnes, StableOnes
  <2>2. QED
    BY <2>1, OnesAreOrderly DEF Orderly
<1>5. Rising(u) /\ u \in Seq(Tags \cap S)
  BY <1>2, <1>4, SortedInOrder
<1>6. Distinct(u) /\ \A x : OneOf(x, u) <=> OneOf(x, l)
  BY <1>2, SortedKeeps
<1> HIDE DEF u
<1>7. DOMAIN u = 1..Len(u) /\ DOMAIN mainline = 1..Len(mainline) /\ Len(u) \in Nat
  BY <1>1, <1>5
<1>8. ASSUME NEW t \in Tags
      PROVE  (\E i \in DOMAIN u : u[i] = t) <=>
               /\ IsStable(t) /\ IsNewer(t, tags[1]) /\ Parses(t)
               /\ \E i \in DOMAIN mainline : mainline[i] = t
  <2>1. (\E i \in DOMAIN u : u[i] = t) <=> OneOf(t, l)
    BY <1>6, <1>7 DEF OneOf
  <2>2. OneOf(t, l) <=> t \in S /\ \E i \in 1..Len(mainline) : mainline[i] = t
    BY <1>2 DEF OneOf, Filters
  <2>3. QED
    BY <1>7, <2>1, <2>2 DEF NewerOnes
<1>9. ASSUME NEW i \in DOMAIN u, NEW j \in DOMAIN u, i < j
      PROVE  u[i] # u[j] /\ ~IsNewer(u[i], u[j])
  BY <1>5, <1>6, <1>7, <1>9 DEF Rising, Distinct
<1>10. QED
  BY <1>3, <1>8, <1>9 DEF UpgradesOffered

(* Whatever versions L2, L1 and L0 have: the latest of L1 is one no other   *)
(* is above, where the pre-releases are numbered; the count of versions     *)
(* L2 is behind and is_outdated disagree only over a latest version that is *)
(* a pre-release and over majors that are years; and of L0 the newer stable *)
(* versions are offered and no others, each once, the older before the      *)
(* newer (LatestIsNewest).                                                  *)
THEOREM LatestIsTheNewest == TagsSpec => []LatestIsNewest
<1>1. TagsKnown => LatestIsNewest
  BY LatestIsAbove, BehindDoesAgree, UpgradesAreOffered DEF LatestIsNewest
<1>2. QED
  BY <1>1, TagsInductive, PTL
-----------------------------------------------------------------------------
(* When a tracking is due                                                    *)

TimingTyped ==
  /\ now \in Nat /\ interval \in Int /\ lastSync \in {Never} \cup Nat

(* Division with a remainder, as the provers know it.                        *)
LEMMA Division ==
  ASSUME NEW a \in Nat, NEW b \in Nat \ {0}
  PROVE  /\ a \div b \in Nat /\ a % b \in 0..b - 1
         /\ a = b * (a \div b) + (a % b)
OBVIOUS

LEMMA MultipleOf ==
  ASSUME NEW q \in Nat, NEW b \in Nat \ {0}
  PROVE  (b * q) % b = 0
OBVIOUS

LEMMA Multiples ==
  ASSUME NEW p \in Int, NEW q \in Int, NEW b \in Nat \ {0}
  PROVE  p <= q => b * p <= b * q
OBVIOUS

(* NextAlignedAfter is the first slot after an instant.                      *)
LEMMA NextSlot ==
  ASSUME NEW last \in Nat, interval \in Nat \ {0}, CreatedAt \in Nat
  PROVE  /\ NextAlignedAfter(last) \in Nat /\ NextAlignedAfter(last) >= CreatedAt
         /\ NextAlignedAfter(last) > last
         /\ (NextAlignedAfter(last) - CreatedAt) % interval = 0
         /\ \A s \in Nat : s >= CreatedAt /\ (s - CreatedAt) % interval = 0 /\ s > last
                             => NextAlignedAfter(last) <= s
<1>1. CASE last < CreatedAt
  <2>1. NextAlignedAfter(last) = CreatedAt
    BY <1>1 DEF NextAlignedAfter
  <2>2. (CreatedAt - CreatedAt) % interval = 0
    <3>1. CreatedAt - CreatedAt = interval * 0
      OBVIOUS
    <3>2. QED
      BY <3>1, MultipleOf
  <2>3. QED
    BY <1>1, <2>1, <2>2
<1>2. CASE last >= CreatedAt
  <2> DEFINE a == last - CreatedAt
             q == a \div interval
             n == CreatedAt + interval * (q + 1)
  <2>1. a \in Nat /\ q \in Nat /\ a % interval \in 0..interval - 1
        /\ a = interval * q + (a % interval)
    <3>1. a \in Nat
      BY <1>2
    <3> HIDE DEF a
    <3>2. QED
      BY <3>1, Division
  <2>2. NextAlignedAfter(last) = n
    BY <1>2 DEF NextAlignedAfter
  <2>3. interval * q \in Nat /\ interval * (q + 1) = interval * q + interval
        /\ interval * (q + 1) \in Nat
    BY <2>1
  <2>4. n \in Nat /\ n >= CreatedAt /\ n > last
    <3>1. a < interval * q + interval
      BY <2>1, <2>3
    <3>2. QED
      BY <2>3, <3>1
  <2>5. (n - CreatedAt) % interval = 0
    <3>1. n - CreatedAt = interval * (q + 1) /\ q + 1 \in Nat
      BY <2>1, <2>3
    <3>2. QED
      BY <3>1, MultipleOf
  <2>6. ASSUME NEW s \in Nat, s >= CreatedAt, (s - CreatedAt) % interval = 0, s > last
        PROVE  n <= s
    <3> DEFINE d == s - CreatedAt
               k == d \div interval
    <3>1. d \in Nat /\ k \in Nat /\ d = interval * k
      BY <2>6, Division
    <3>2. interval * q < interval * k
      BY <2>1, <2>3, <2>6, <3>1
    <3>3. q + 1 <= k
      <4>1. k <= q => interval * k <= interval * q
        BY <2>1, <3>1, Multiples
      <4>2. interval * k \in Nat
        BY <3>1
      <4> HIDE DEF k, q
      <4>3. QED
        BY <2>1, <2>3, <3>1, <3>2, <4>1, <4>2
    <3>4. interval * (q + 1) <= interval * k
      BY <2>1, <3>1, <3>3, Multiples
    <3>5. QED
      BY <2>3, <3>1, <3>4
  <2>7. QED
    BY <2>2, <2>4, <2>5, <2>6
<1>3. QED
  BY <1>1, <1>2

(* Whatever the interval was edited to and whenever syncs fell, an active    *)
(* tracking is due exactly when a slot has begun since its last sync, and    *)
(* the time announced is the earliest such slot (DueOncePerSlot).            *)
THEOREM DueOnce == TimingSpec => []DueOncePerSlot
<1>1. TimingInit => TimingTyped
  BY TimingAssumption DEF TimingInit, TimingTyped
<1>2. TimingTyped /\ [TimingNext]_timingVars => TimingTyped'
  BY TimingAssumption DEF TimingTyped, TimingNext, timingVars, Tick, Sync, SetWord, SetInterval
<1>3. TimingTyped => DueOncePerSlot
  <2> SUFFICES ASSUME TimingTyped, interval > 0, word = "active", lastSync # Never
               PROVE  LET begun == {s \in CreatedAt..now :
                                      (s - CreatedAt) % interval = 0 /\ s > lastSync} IN
                      /\ ShouldSync = (begun # {})
                      /\ begun # {} => NextSyncTime \in begun /\ \A s \in begun : NextSyncTime <= s
    BY DEF DueOncePerSlot
  <2> DEFINE begun == {s \in CreatedAt..now : (s - CreatedAt) % interval = 0 /\ s > lastSync}
             next == NextAlignedAfter(lastSync)
  <2>1. now \in Nat /\ interval \in Nat \ {0} /\ lastSync \in Nat /\ CreatedAt \in Nat
    BY TimingAssumption DEF TimingTyped
  <2>2. /\ next \in Nat /\ next >= CreatedAt /\ next > lastSync /\ (next - CreatedAt) % interval = 0
        /\ \A s \in Nat : s >= CreatedAt /\ (s - CreatedAt) % interval = 0 /\ s > lastSync
                            => next <= s
    BY <2>1, NextSlot
  <2>3. NextSyncTime = next /\ (ShouldSync <=> now >= next)
    BY <2>1 DEF NextSyncTime, ShouldSync
  <2> HIDE DEF next
  <2>4. now >= next => next \in begun
    BY <2>1, <2>2
  <2>5. \A s \in begun : next <= s /\ s <= now
    BY <2>1, <2>2
  <2>6. begun # {} => now >= next
    BY <2>1, <2>2, <2>5
  <2>7. ShouldSync = (begun # {})
    BY <2>3, <2>4, <2>6 DEF ShouldSync
  <2>8. QED
    BY <2>3, <2>4, <2>5, <2>6, <2>7
<1>4. QED
  BY <1>1, <1>2, <1>3, PTL DEF TimingSpec
-----------------------------------------------------------------------------
(* The composition *)

(* Every behaviour of the five parts together is a behaviour of each.       *)
LEMMA PartsCompose ==
  MCSpec => LayersSpec /\ DiffSpec /\ TagsSpec /\ TimingSpec /\ MirrorSpec
<1>1. MCInit => LayersInit /\ DiffInit /\ TagsInit /\ TimingInit /\ MirrorInit
  BY DEF MCInit
<1>2. [MCNext]_<<layerVars, diffVars, tagVars, timingVars, mirrorVars, part>> =>
        /\ [LayersNext]_layerVars /\ [DiffNext]_diffVars /\ [TagsNext]_tagVars
        /\ [TimingNext]_timingVars /\ [MirrorNext]_mirrorVars
  BY DEF MCNext
<1>3. QED
  BY <1>1, <1>2, PTL DEF MCSpec, LayersSpec, DiffSpec, TagsSpec, TimingSpec, MirrorSpec

(* The snapshot tables and the mirror keep their types in every behaviour   *)
(* of the composition.                                                      *)
THEOREM ReportsTypeCorrect == MCSpec => []ReportsTypeOK
<1>1. LayersTypeOK /\ MirrorTypeOK => ReportsTypeOK
  BY DEF ReportsTypeOK
<1>2. QED
  BY <1>1, PartsCompose, LayersTypeCorrect, MirrorTypeCorrect, PTL
=============================================================================
