-------------------------- MODULE SimulatorProofs --------------------------
(***************************************************************************)
(* Proofs about the way of a batch from POST to the queries, and about the *)
(* audited run of the simulator.                                           *)
(*                                                                         *)
(* The first lemmas say what the library's folds compute: FlattenSeq,      *)
(* SetToSortSeq and MapThenSumSet, by induction over sets.  Then come the  *)
(* codec, the table, the counts of the simulator and the invariant Inv,    *)
(* and last the order, the buckets and the aggregates of the queries.      *)
(***************************************************************************)
EXTENDS Simulator, FiniteSetTheorems, SequenceTheorems, TLAPS

-----------------------------------------------------------------------------
(* Induction.  The library's induction theorems are stated for a predicate; *)
(* these ones are stated for the set of the values that satisfy it.         *)

\* Induction over an initial segment of the numbers.
LEMMA SegmentInduction ==
    ASSUME NEW n \in Nat, NEW T,
           \A k \in 1..n : (\A j \in 1..(k - 1) : j \in T) => k \in T
    PROVE  1..n \subseteq T
<1> DEFINE Missed == (1..n) \ T
           Below(x) == {y \in Missed : y < x}
           Family == {Below(x) : x \in Missed}
<1>1. SUFFICES ASSUME Missed # {} PROVE FALSE
  OBVIOUS
<1>2. IsFiniteSet(Missed)
  <2>1. IsFiniteSet(1..n)
    BY FS_Interval
  <2>2. QED
    BY <2>1, FS_Difference
<1>3. Family \subseteq SUBSET Missed /\ Family # {}
  <2>1. PICK x : x \in Missed
    BY <1>1
  <2>2. Below(x) \in Family
    BY <2>1
  <2>3. \A y \in Missed : Below(y) \in SUBSET Missed
    OBVIOUS
  <2> HIDE DEF Below, Missed
  <2>4. QED
    BY <2>2, <2>3
<1>4. IsWellFoundedOn(StrictSubsetOrdering(Missed), SUBSET Missed)
  BY <1>2, FS_StrictSubsetOrderingWellFounded, FS_FiniteSubsetsOfFinite
<1>5. PICK U \in Family : \A V \in Family : ~(<<V, U>> \in StrictSubsetOrdering(Missed))
  <2> HIDE DEF Family, Missed
  <2>1. QED
    BY <1>3, <1>4, WFMin
<1> HIDE DEF Family
<1>6. PICK x \in Missed : U = Below(x)
  BY <1>5 DEF Family
<1>7. ASSUME NEW y \in 1..(x - 1) PROVE y \in T
  <2>1. SUFFICES ASSUME y \in Missed PROVE FALSE
    OBVIOUS
  <2>2. Below(y) \in Family
    BY <2>1 DEF Family
  <2>3. Below(y) \subseteq U /\ y \in U /\ y \notin Below(y)
    <3>1. \A z \in Missed : z \in Int
      OBVIOUS
    <3>2. y < x
      BY <3>1
    <3>3. \A z \in Missed : z < y => z < x
      BY <3>1, <3>2
    <3>4. y \notin Below(y)
      BY <3>1
    <3>5. QED
      BY <3>2, <3>3, <3>4, <2>1, <1>6
  <2>4. <<Below(y), U>> \in StrictSubsetOrdering(Missed)
    BY <2>2, <2>3, <1>3, <1>5 DEF StrictSubsetOrdering
  <2>5. QED
    BY <2>2, <2>4, <1>5
<1>8. QED
  BY <1>6, <1>7

\* Induction over the subsets of a finite set.
LEMMA SubsetInduction ==
    ASSUME NEW S, IsFiniteSet(S), NEW T,
           \A U \in SUBSET S : (\A V \in (SUBSET U) \ {U} : V \in T) => U \in T
    PROVE  SUBSET S \subseteq T
<1> DEFINE Missed == (SUBSET S) \ T
<1>1. SUFFICES ASSUME Missed # {} PROVE FALSE
  OBVIOUS
<1>2. IsWellFoundedOn(StrictSubsetOrdering(S), SUBSET S)
  BY FS_StrictSubsetOrderingWellFounded, FS_FiniteSubsetsOfFinite
<1>3. PICK U \in Missed : \A V \in Missed : ~(<<V, U>> \in StrictSubsetOrdering(S))
  <2>1. Missed \subseteq SUBSET S
    OBVIOUS
  <2> HIDE DEF Missed
  <2>2. QED
    BY <2>1, <1>1, <1>2, WFMin
<1>4. ASSUME NEW V \in (SUBSET U) \ {U} PROVE V \in T
  <2>1. SUFFICES ASSUME V \in Missed PROVE FALSE
    BY <1>3
  <2>2. <<V, U>> \in StrictSubsetOrdering(S)
    BY <2>1, <1>3 DEF StrictSubsetOrdering
  <2>3. QED
    BY <2>1, <2>2, <1>3
<1>5. QED
  BY <1>3, <1>4

-----------------------------------------------------------------------------
(* FlattenSeq, the loop of ExpandMetricPoints over the samples.             *)

\* The elements of a concatenation.
LEMMA ConcatElements ==
    ASSUME NEW S, NEW a \in Seq(S), NEW b \in Seq(S)
    PROVE  ToSet(a \o b) = ToSet(a) \cup ToSet(b)
<1>1. /\ DOMAIN a = 1..Len(a) /\ DOMAIN b = 1..Len(b)
      /\ DOMAIN (a \o b) = 1..(Len(a) + Len(b))
      /\ Len(a) \in Nat /\ Len(b) \in Nat
      /\ \A i \in 1..(Len(a) + Len(b)) :
            (a \o b)[i] = IF i <= Len(a) THEN a[i] ELSE b[i - Len(a)]
  BY ConcatProperties
<1>2. ASSUME NEW i \in DOMAIN (a \o b)
      PROVE  (a \o b)[i] \in ToSet(a) \cup ToSet(b)
  BY <1>1 DEF ToSet
<1>3. ASSUME NEW i \in DOMAIN a PROVE a[i] \in ToSet(a \o b)
  <2>1. i \in DOMAIN (a \o b) /\ (a \o b)[i] = a[i]
    BY <1>1
  <2>2. QED
    BY <2>1 DEF ToSet
<1>4. ASSUME NEW i \in DOMAIN b PROVE b[i] \in ToSet(a \o b)
  <2>1. i + Len(a) \in DOMAIN (a \o b) /\ (a \o b)[i + Len(a)] = b[i]
    BY <1>1
  <2>2. QED
    BY <2>1 DEF ToSet
<1>5. QED
  BY <1>2, <1>3, <1>4 DEF ToSet

\* The recursive function in FlattenSeq exists.
LEMMA FlattenExists ==
    ASSUME NEW S, NEW s \in Seq(Seq(S)), s # <<>>
    PROVE  \E g : g = [i \in 1..Len(s) |-> IF i = 1 THEN s[i] ELSE g[i - 1] \o s[i]]
<1> DEFINE Good(k, g) == /\ g[1] = s[1]
                         /\ \A i \in 2..k : g[i] = g[i - 1] \o s[i]
           T == {k \in 1..Len(s) : \E g \in [1..k -> Seq(S)] : Good(k, g)}
<1>1. Len(s) \in Nat \ {0} /\ \A i \in 1..Len(s) : s[i] \in Seq(S)
  OBVIOUS
<1>2. ASSUME NEW k \in 1..Len(s), \A j \in 1..(k - 1) : j \in T
      PROVE  k \in T
  <2>1. CASE k = 1
    <3>1. [i \in 1..1 |-> s[1]] \in [1..1 -> Seq(S)]
      BY <1>1
    <3>2. Good(1, [i \in 1..1 |-> s[1]])
      OBVIOUS
    <3>3. QED
      BY <3>1, <3>2, <2>1
  <2>2. CASE k # 1
    <3>0. k - 1 \in 1..(k - 1)
      BY <2>2, <1>1
    <3>1. k - 1 \in T
      <4> HIDE DEF T
      <4>1. QED
        BY <3>0, <1>2
    <3>2. PICK g \in [1..(k - 1) -> Seq(S)] : Good(k - 1, g)
      BY <3>1
    <3> DEFINE h == [i \in 1..k |-> IF i = k THEN g[k - 1] \o s[k] ELSE g[i]]
    <3>3. g[k - 1] \in Seq(S)
      BY <3>0
    <3>4. g[k - 1] \o s[k] \in Seq(S)
      BY <3>3, <1>1, ConcatProperties
    <3>5. h \in [1..k -> Seq(S)]
      <4>1. ASSUME NEW i \in 1..k, i # k PROVE g[i] \in Seq(S)
        <5>1. i \in 1..(k - 1)
          BY <4>1, <1>1
        <5>2. QED
          BY <5>1
      <4>2. QED
        BY <4>1, <3>4
    <3>6. h[1] = s[1]
      BY <2>2, <3>2, <1>1
    <3>7. ASSUME NEW i \in 2..k PROVE h[i] = h[i - 1] \o s[i]
      <4>1. h[i - 1] = g[i - 1]
        BY <1>1
      <4>2. CASE i = k
        <5>0. k \in 1..k
          BY <1>1
        <5>1. h[k] = g[k - 1] \o s[k]
          BY <5>0, Zenon
        <5> HIDE DEF h
        <5>2. QED
          BY <5>1, <4>1, <4>2
      <4>3. CASE i # k
        <5>1. i \in 2..(k - 1)
          BY <4>3, <1>1
        <5>2. g[i] = g[i - 1] \o s[i]
          BY <5>1, <3>2
        <5>3. h[i] = g[i]
          BY <4>3, <1>1
        <5>4. QED
          BY <5>2, <5>3, <4>1
      <4>4. QED
        BY <4>2, <4>3
    <3>8. QED
      BY <3>5, <3>6, <3>7
  <2>3. QED
    BY <2>1, <2>2
<1>3. 1..Len(s) \subseteq T
  <2> HIDE DEF T
  <2>1. QED
    BY <1>1, <1>2, SegmentInduction
<1>4. PICK g \in [1..Len(s) -> Seq(S)] : Good(Len(s), g)
  <2>1. Len(s) \in 1..Len(s)
    BY <1>1
  <2>2. Len(s) \in T
    BY <2>1, <1>3
  <2>3. QED
    BY <2>2
<1>5. g = [i \in 1..Len(s) |-> IF i = 1 THEN s[i] ELSE g[i - 1] \o s[i]]
  <2>1. ASSUME NEW i \in 1..Len(s)
        PROVE  g[i] = IF i = 1 THEN s[i] ELSE g[i - 1] \o s[i]
    <3>1. CASE i = 1
      BY <3>1, <1>4
    <3>2. CASE i # 1
      <4>1. i \in 2..Len(s)
        BY <3>2, <1>1
      <4>2. QED
        BY <4>1, <3>2, <1>4
    <3>3. QED
      BY <3>1, <3>2
  <2>2. QED
    BY <2>1
<1>6. QED
  BY <1>5

\* Flattening keeps the elements and adds none.
LEMMA FlattenElements ==
    ASSUME NEW S, NEW s \in Seq(Seq(S))
    PROVE  /\ FlattenSeq(s) \in Seq(S)
           /\ ToSet(FlattenSeq(s)) = UNION {ToSet(s[i]) : i \in DOMAIN s}
<1>1. CASE s = <<>>
  <2>1. FlattenSeq(s) = <<>>
    BY <1>1 DEF FlattenSeq
  <2>2. QED
    BY <2>1, <1>1 DEF ToSet
<1>2. CASE s # <<>>
  <2>1. Len(s) \in Nat \ {0} /\ DOMAIN s = 1..Len(s) /\ \A i \in 1..Len(s) : s[i] \in Seq(S)
    BY <1>2
  <2> DEFINE f == CHOOSE g : g = [i \in 1..Len(s) |-> IF i = 1 THEN s[i] ELSE g[i - 1] \o s[i]]
             Up(k) == UNION {ToSet(s[i]) : i \in 1..k}
             T == {k \in 1..Len(s) : f[k] \in Seq(S) /\ ToSet(f[k]) = Up(k)}
  <2>2. FlattenSeq(s) = f[Len(s)]
    BY <2>1 DEF FlattenSeq
  <2>3. f = [i \in 1..Len(s) |-> IF i = 1 THEN s[i] ELSE f[i - 1] \o s[i]]
    BY <1>2, FlattenExists
  <2> HIDE DEF f
  <2>4. ASSUME NEW k \in 1..Len(s), \A j \in 1..(k - 1) : j \in T
        PROVE  k \in T
    <3>1. CASE k = 1
      <4>1. f[1] = s[1]
        BY <2>1, <2>3
      <4>2. Up(1) = ToSet(s[1])
        OBVIOUS
      <4>3. QED
        BY <4>1, <4>2, <3>1, <2>1
    <3>2. CASE k # 1
      <4>0. k - 1 \in 1..(k - 1)
        BY <3>2, <2>1
      <4>1. k - 1 \in T
        <5> HIDE DEF T
        <5>1. QED
          BY <4>0, <2>4
      <4>2. f[k] = f[k - 1] \o s[k]
        BY <3>2, <2>3
      <4>3. f[k] \in Seq(S)
        BY <4>1, <4>2, <2>1, ConcatProperties
      <4>4. ToSet(f[k]) = ToSet(f[k - 1]) \cup ToSet(s[k])
        <5> DEFINE a == f[k - 1]
                   b == s[k]
        <5>1. a \in Seq(S) /\ b \in Seq(S)
          BY <4>1, <2>1
        <5> HIDE DEF a, b
        <5>2. ToSet(a \o b) = ToSet(a) \cup ToSet(b)
          BY <5>1, ConcatElements
        <5>3. QED
          BY <5>2, <4>2 DEF a, b
      <4>5. Up(k) = Up(k - 1) \cup ToSet(s[k])
        <5>1. 1..k = 1..(k - 1) \cup {k}
          BY <2>1
        <5>2. QED
          BY <5>1
      <4>6. QED
        BY <4>1, <4>3, <4>4, <4>5
    <3>3. QED
      BY <3>1, <3>2
  <2>5. 1..Len(s) \subseteq T
    <3> HIDE DEF T
    <3>1. QED
      BY <2>1, <2>4, SegmentInduction
  <2>6. Len(s) \in T
    <3>1. Len(s) \in 1..Len(s)
      BY <2>1
    <3>2. QED
      BY <3>1, <2>5
  <2>7. QED
    BY <2>1, <2>2, <2>6
<1>3. QED
  BY <1>1, <1>2

-----------------------------------------------------------------------------
(* SortedKey, the order of the rows of a sample.                            *)

\* A larger key has more keys before it.
LEMMA RankIncreases ==
    ASSUME NEW K \in SUBSET Nat, IsFiniteSet(K), NEW a \in K, NEW b \in K, a < b
    PROVE  /\ Cardinality({l \in K : l < a}) \in Nat
           /\ Cardinality({l \in K : l < a}) < Cardinality({l \in K : l < b})
<1> DEFINE A == {l \in K : l < a}
           B == {l \in K : l < b}
<1>1. \A l \in K : l \in Nat
  OBVIOUS
<1>2. A \subseteq B /\ a \in B /\ a \notin A /\ B \subseteq K /\ A \subseteq K
  <2>1. \A l \in K : l < a => l < b
    BY <1>1
  <2>2. ~(a < a)
    BY <1>1
  <2>3. QED
    BY <2>1, <2>2
<1> HIDE DEF A, B
<1>3. IsFiniteSet(B) /\ IsFiniteSet(A)
  <2>1. A \in SUBSET K /\ B \in SUBSET K
    BY <1>2
  <2>2. QED
    BY <2>1, FS_Subset
<1>4. Cardinality(A) \in Nat /\ Cardinality(B) \in Nat
  BY <1>3, FS_CardinalityType
<1>5. Cardinality(A) <= Cardinality(B) /\ (Cardinality(B) = Cardinality(A) => B = A)
  <2>1. A \in SUBSET B
    BY <1>2
  <2>2. QED
    BY <2>1, <1>3, FS_Subset
<1>6. Cardinality(A) < Cardinality(B)
  BY <1>2, <1>4, <1>5
<1>7. QED
  BY <1>4, <1>6 DEF A, B

\* SortedKey goes through the keys, each at one place.
LEMMA SortedKeys ==
    ASSUME NEW K \in SUBSET Nat, IsFiniteSet(K)
    PROVE  /\ Cardinality(K) \in Nat
           /\ \A j \in 1..Cardinality(K) : SortedKey(K, j) \in K
           /\ \A k \in K : \E j \in 1..Cardinality(K) : SortedKey(K, j) = k
<1> DEFINE n == Cardinality(K)
           Before(k) == {l \in K : l < k}
           f == [k \in K |-> Cardinality(Before(k))]
<1>1. n \in Nat
  BY FS_CardinalityType
<1>2. ASSUME NEW k \in K PROVE f[k] \in 0..(n - 1)
  <2>1. Before(k) \subseteq K /\ k \in K /\ k \notin Before(k)
    OBVIOUS
  <2> HIDE DEF Before
  <2>2. IsFiniteSet(Before(k)) /\ Cardinality(Before(k)) <= n /\ Cardinality(Before(k)) # n
    BY <2>1, FS_Subset
  <2>3. Cardinality(Before(k)) \in Nat
    BY <2>2, FS_CardinalityType
  <2>4. QED
    BY <2>2, <2>3, <1>1
<1>3. ASSUME NEW a \in K, NEW b \in K, f[a] = f[b] PROVE a = b
  <2>1. a \in Nat /\ b \in Nat
    OBVIOUS
  <2>2. CASE a < b
    <3>1. Cardinality(Before(a)) \in Nat /\ Cardinality(Before(a)) < Cardinality(Before(b))
      BY <2>2, RankIncreases
    <3>2. QED
      BY <3>1, <1>2, <1>3
  <2>3. CASE b < a
    <3>1. Cardinality(Before(b)) \in Nat /\ Cardinality(Before(b)) < Cardinality(Before(a))
      BY <2>3, RankIncreases
    <3>2. QED
      BY <3>1, <1>2, <1>3
  <2>4. QED
    BY <2>1, <2>2, <2>3
<1>4. f \in Injection(K, 0..(n - 1))
  <2>1. f \in [K -> 0..(n - 1)]
    BY <1>2
  <2> HIDE DEF f
  <2>2. QED
    BY <1>3, <2>1 DEF Injection, IsInjective
<1>5. IsFiniteSet(0..(n - 1)) /\ Cardinality(0..(n - 1)) = n
  <2> HIDE DEF n
  <2>1. 0 \in Int /\ n - 1 \in Int
    BY <1>1
  <2>2. /\ IsFiniteSet(0..(n - 1))
        /\ Cardinality(0..(n - 1)) = IF 0 > n - 1 THEN 0 ELSE n - 1 - 0 + 1
    BY <2>1, FS_Interval
  <2>3. QED
    BY <2>2, <1>1
<1>6. f \in Surjection(K, 0..(n - 1))
  <2> HIDE DEF f
  <2>1. QED
    BY <1>4, <1>5, FS_Injection
<1>7. ASSUME NEW j \in 1..n
      PROVE  SortedKey(K, j) \in K /\ f[SortedKey(K, j)] = j - 1
  <2>1. j - 1 \in 0..(n - 1)
    BY <1>1
  <2>2. \E k \in K : f[k] = j - 1
    <3> HIDE DEF f
    <3>1. QED
      BY <2>1, <1>6 DEF Surjection
  <2>3. \E k \in K : Cardinality({l \in K : l < k}) = j - 1
    BY <2>2
  <2>4. QED
    BY <2>3 DEF SortedKey
<1>8. ASSUME NEW k \in K PROVE \E j \in 1..n : SortedKey(K, j) = k
  <2>1. f[k] + 1 \in 1..n
    BY <1>1, <1>2
  <2>2. SortedKey(K, f[k] + 1) \in K /\ f[SortedKey(K, f[k] + 1)] = f[k]
    <3> HIDE DEF f
    <3>1. f[k] \in Int
      BY <1>1, <1>2
    <3>2. QED
      BY <2>1, <1>7, <3>1
  <2>3. SortedKey(K, f[k] + 1) = k
    <3> HIDE DEF f
    <3>1. QED
      BY <2>2, <1>3
  <2>4. QED
    BY <2>1, <2>3
<1>9. QED
  BY <1>1, <1>7, <1>8

-----------------------------------------------------------------------------
(* Batches, messages and rows.                                              *)

\* The row of metric k of sample s.
RowOf(t, s, k) ==
    [task |-> t, key |-> k, step |-> s.step, ts |-> s.ts, value |-> s.metrics[k]]

\* The rows of a batch, as a set.
RowsOf(t, b) == UNION {{RowOf(t, b[i], k) : k \in DOMAIN b[i].metrics} : i \in DOMAIN b}

\* Membership in RowsOf.
LEMMA RowsOfMember ==
    ASSUME NEW t, NEW b, NEW r
    PROVE  r \in RowsOf(t, b) <=>
              \E i \in DOMAIN b : \E k \in DOMAIN b[i].metrics : r = RowOf(t, b[i], k)
BY DEF RowsOf

\* The keys of a sample.
LEMMA SampleKeys ==
    ASSUME NEW V, NEW s, IsSample(s, V)
    PROVE  /\ DOMAIN s.metrics \in SUBSET Nat
           /\ IsFiniteSet(DOMAIN s.metrics)
           /\ \A k \in DOMAIN s.metrics : s.metrics[k] \in V
<1>1. DOMAIN s.metrics \in SUBSET Names /\ IsFiniteSet(Names) /\ Names \subseteq Nat
  BY CodecAssumption DEF IsSample
<1>2. IsFiniteSet(DOMAIN s.metrics)
  BY <1>1, FS_Subset
<1>3. s.metrics \in [DOMAIN s.metrics -> V]
  BY DEF IsSample
<1>4. QED
  BY <1>1, <1>2, <1>3

\* ExpandMetricPoints yields a row for each metric of each sample, and no other.
LEMMA ExpandedRows ==
    ASSUME NEW V, NEW m, IsBatch(m.batch, V)
    PROVE  /\ ExpandMetricPoints(m) \in Seq(RowsOf(m.task, m.batch))
           /\ ToSet(ExpandMetricPoints(m)) = RowsOf(m.task, m.batch)
<1> DEFINE b == m.batch
           t == m.task
           R == RowsOf(t, b)
           Keys(i) == DOMAIN b[i].metrics
           Part(i) == [j \in 1..Cardinality(Keys(i)) |-> RowOf(t, b[i], SortedKey(Keys(i), j))]
           s == [i \in DOMAIN b |-> Part(i)]
<1>1. b \in Seq(ToSet(b)) /\ \A i \in DOMAIN b : IsSample(b[i], V)
  BY DEF IsBatch
<1>2. ExpandMetricPoints(m) = FlattenSeq(s)
  BY Zenon DEF ExpandMetricPoints, RowOf
<1>3. ASSUME NEW i \in DOMAIN b
      PROVE  /\ Part(i) \in Seq(R)
             /\ ToSet(Part(i)) = {RowOf(t, b[i], k) : k \in Keys(i)}
  <2>1. /\ Cardinality(Keys(i)) \in Nat
        /\ \A j \in 1..Cardinality(Keys(i)) : SortedKey(Keys(i), j) \in Keys(i)
        /\ \A k \in Keys(i) : \E j \in 1..Cardinality(Keys(i)) : SortedKey(Keys(i), j) = k
    <3>1. Keys(i) \in SUBSET Nat /\ IsFiniteSet(Keys(i))
      BY <1>1, SampleKeys
    <3> HIDE DEF Keys
    <3>2. QED
      BY <3>1, SortedKeys
  <2>2. {RowOf(t, b[i], k) : k \in Keys(i)} \subseteq R
    BY DEF RowsOf
  <2> DEFINE n == Cardinality(Keys(i))
             Q == {RowOf(t, b[i], k) : k \in Keys(i)}
  <2>3. ASSUME NEW j \in 1..n PROVE RowOf(t, b[i], SortedKey(Keys(i), j)) \in Q
    <3> HIDE DEF Keys
    <3>1. QED
      BY <2>1
  <2>4. Part(i) \in [1..n -> Q]
    BY <2>3, Zenon
  <2>5. ToSet(Part(i)) = Q
    <3>1. DOMAIN Part(i) = 1..n
      OBVIOUS
    <3>2. ToSet(Part(i)) = {Part(i)[j] : j \in 1..n}
      BY <3>1 DEF ToSet
    <3>3. ASSUME NEW k \in Keys(i) PROVE \E j \in 1..n : Part(i)[j] = RowOf(t, b[i], k)
      <4>1. PICK j \in 1..n : SortedKey(Keys(i), j) = k
        BY <2>1
      <4>2. Part(i)[j] = RowOf(t, b[i], k)
        BY <4>1, Zenon
      <4>3. QED
        BY <4>2
    <3> HIDE DEF Part, Keys
    <3>4. QED
      BY <2>4, <3>2, <3>3
  <2>6. Part(i) \in Seq(R)
    <3>1. Part(i) \in [1..n -> R]
      BY <2>2, <2>4
    <3> HIDE DEF Part
    <3>2. QED
      BY <3>1, <2>1
  <2>7. QED
    BY <2>5, <2>6
<1>4. s \in Seq(Seq(R)) /\ DOMAIN s = DOMAIN b
  <2>1. s \in [DOMAIN b -> Seq(R)]
    BY <1>3, Zenon
  <2>2. DOMAIN b = 1..Len(b) /\ Len(b) \in Nat
    BY <1>1
  <2> HIDE DEF s
  <2>3. QED
    BY <2>1, <2>2
<1>5. FlattenSeq(s) \in Seq(R) /\ ToSet(FlattenSeq(s)) = UNION {ToSet(s[i]) : i \in DOMAIN s}
  <2> HIDE DEF s, R
  <2>1. QED
    BY <1>4, FlattenElements
<1>6. UNION {ToSet(s[i]) : i \in DOMAIN s} = R
  <2>1. ASSUME NEW i \in DOMAIN b
        PROVE  ToSet(s[i]) = {RowOf(t, b[i], k) : k \in Keys(i)}
    <3>1. s[i] = Part(i)
      BY Zenon
    <3> HIDE DEF s, Part
    <3>2. QED
      BY <3>1, <1>3
  <2> DEFINE RowsAt(i) == {RowOf(t, b[i], k) : k \in Keys(i)}
  <2>2. \A i \in DOMAIN b : ToSet(s[i]) = RowsAt(i)
    BY <2>1
  <2>3. R = UNION {RowsAt(i) : i \in DOMAIN b}
    BY DEF RowsOf
  <2> HIDE DEF s, R, b, RowsAt
  <2>4. QED
    BY <1>4, <2>2, <2>3
<1>7. QED
  BY <1>2, <1>5, <1>6

\* The points that fit the table, under names the queries take.
Points ==
    {p \in [task : Names, key : Names, step : 0..MaxInt32, ts : Nat, value : Int] :
        ValidTaskID(p.task) /\ ValidMetricKey(p.key)}

\* The message of an accepted request passes the checks of the worker.
LEMMA AcceptedIsValid ==
    ASSUME NEW r, NEW id, Accepts(r), IsBatch(r.batch, Int \cup {Null})
    PROVE  LET d == MarshalIngestPublishing(NewIngestMessage(ToMetricBatch(r), id))
           IN  /\ IsBatch(d.body.batch, Int)
               /\ ValidDelivery(d)
               /\ d.body.task = r.task
<1> DEFINE b == ToMetricBatch(r).samples
           Zeroed(f) == [k \in DOMAIN f |-> IF f[k] = Null THEN 0 ELSE f[k]]
           m == NewIngestMessage(ToMetricBatch(r), id)
           d == MarshalIngestPublishing(m)
<1>1. b = [i \in DOMAIN r.batch |-> [r.batch[i] EXCEPT !.metrics = Zeroed(r.batch[i].metrics)]]
  BY DEF ToMetricBatch
<1>2. /\ m.schemaVersion = IngestSchemaVersion /\ m.messageID = id /\ m.correlationID = id
      /\ m.task = r.task /\ m.batch = b
  BY DEF NewIngestMessage, ToMetricBatch
<1>3. /\ d.contentType = "application/json" /\ d.messageID = m.messageID
      /\ d.correlationID = m.correlationID /\ d.body = m
      /\ d.headers = [schemaVersion |-> m.schemaVersion, messageID |-> m.messageID,
                      correlationID |-> m.correlationID]
  BY DEF MarshalIngestPublishing
<1>4. /\ r.batch \in Seq(ToSet(r.batch)) /\ DOMAIN r.batch = 1..Len(r.batch)
      /\ Len(r.batch) \in 1..MaxBatchSize
  BY DEF IsBatch, Accepts, ValidRequest
<1>5. ASSUME NEW i \in DOMAIN r.batch
      PROVE  /\ IsSample(b[i], Int)
             /\ b[i].step = r.batch[i].step /\ b[i].ts = r.batch[i].ts
             /\ DOMAIN b[i].metrics = DOMAIN r.batch[i].metrics
  <2> DEFINE s == r.batch[i]
  <2>1. /\ s \in [step : Int \cup {Null}, ts : Int \cup {Null},
                  metrics : [DOMAIN s.metrics -> Int \cup {Null}]]
        /\ DOMAIN s.metrics \subseteq Names
    BY DEF IsBatch, IsSample
  <2>2. b[i] = [s EXCEPT !.metrics = Zeroed(s.metrics)]
    BY <1>1, Zenon
  <2> HIDE DEF s, b
  <2>3. Zeroed(s.metrics) \in [DOMAIN s.metrics -> Int]
    BY <2>1
  <2> HIDE DEF Zeroed
  <2>4. /\ b[i] \in [step : Int \cup {Null}, ts : Int \cup {Null}, metrics : [DOMAIN s.metrics -> Int]]
        /\ b[i].step = s.step /\ b[i].ts = s.ts /\ b[i].metrics = Zeroed(s.metrics)
    BY <2>1, <2>2, <2>3
  <2>5. DOMAIN b[i].metrics = DOMAIN s.metrics
    BY <2>3, <2>4
  <2>6. QED
    BY <2>1, <2>4, <2>5 DEF IsSample, s
<1>6. DOMAIN b = DOMAIN r.batch /\ b \in Seq(ToSet(b)) /\ Len(b) = Len(r.batch)
  <2>1. DOMAIN b = DOMAIN r.batch
    BY <1>1, Zenon
  <2>2. b = [i \in 1..Len(r.batch) |-> b[i]]
    <3>1. b = [i \in DOMAIN b |-> b[i]]
      BY <1>1
    <3> HIDE DEF b
    <3>2. QED
      BY <3>1, <2>1, <1>4
  <2> HIDE DEF b
  <2>3. \A i \in 1..Len(r.batch) : b[i] \in ToSet(b)
    BY <2>1, <1>4 DEF ToSet
  <2>4. b \in [1..Len(r.batch) -> ToSet(b)]
    BY <2>2, <2>3
  <2>5. QED
    BY <2>1, <2>4, <1>4
<1> HIDE DEF b, m, d
<1>7. IsBatch(b, Int)
  BY <1>5, <1>6 DEF IsBatch
<1>8. ValidIngestMessage(m)
  <2>1. m.task \in TaskIDPattern /\ Length[m.task] \in 1..64
    BY <1>2 DEF Accepts, ValidRequest, ValidTaskID
  <2>2. Len(m.batch) \in 1..MaxBatchSize
    BY <1>2, <1>4, <1>6
  <2>3. ASSUME NEW i \in DOMAIN m.batch
        PROVE  LET s == m.batch[i]
               IN  /\ s.step # Null /\ s.step >= 0 /\ s.step <= MaxStepValue
                   /\ s.ts # Null /\ s.ts > 0 /\ s.ts <= MaxTimestampMillis
                   /\ DOMAIN s.metrics # {}
                   /\ \A k \in DOMAIN s.metrics : k \in MetricKeyPattern /\ Length[k] \in 1..32
    <3>1. i \in DOMAIN r.batch
      BY <1>2, <1>6
    <3>2. ValidSampleRequest(r.batch[i])
      BY <3>1 DEF Accepts, ValidRequest
    <3>3. QED
      BY <3>1, <3>2, <1>2, <1>5 DEF ValidSampleRequest, ValidMetricKey, MaxStepValue
  <2>4. QED
    BY <2>1, <2>2, <2>3, <1>2, Zenon DEF ValidIngestMessage
<1>9. ValidDelivery(d)
  BY <1>2, <1>3, <1>8 DEF ValidDelivery
<1>10. QED
  <2>1. IsBatch(d.body.batch, Int) /\ ValidDelivery(d) /\ d.body.task = r.task
    BY <1>2, <1>3, <1>7, <1>9
  <2>2. QED
    BY <2>1, Zenon DEF d, m

\* Every row of a valid delivery can be encoded and fits the columns
\* of the table.
LEMMA ValidRowsFit ==
    ASSUME NEW d, ValidDelivery(d), IsBatch(d.body.batch, Int)
    PROVE  /\ RowsOf(d.body.task, d.body.batch) \subseteq Points
           /\ \A r \in RowsOf(d.body.task, d.body.batch) : Encodable(r) /\ FitsColumns(r)
<1>1. SUFFICES ASSUME NEW i \in DOMAIN d.body.batch,
                      NEW k \in DOMAIN d.body.batch[i].metrics
               PROVE  LET r == RowOf(d.body.task, d.body.batch[i], k)
                      IN  r \in Points /\ Encodable(r) /\ FitsColumns(r)
  BY RowsOfMember
<1> DEFINE s == d.body.batch[i]
           t == d.body.task
           r == RowOf(t, s, k)
<1>2. /\ t \in TaskIDPattern /\ Length[t] \in 1..64
      /\ s.step # Null /\ s.step >= 0 /\ s.step <= MaxInt32
      /\ s.ts # Null /\ s.ts > 0
      /\ k \in MetricKeyPattern /\ Length[k] \in 1..32
  BY DEF ValidDelivery, ValidIngestMessage, MaxStepValue
<1>3. s.step \in Int \cup {Null} /\ s.ts \in Int \cup {Null} /\ s.metrics[k] \in Int
  BY DEF IsBatch, IsSample
<1> HIDE DEF s, t
<1>4. s.step \in 0..MaxInt32 /\ s.ts \in Nat
  BY <1>2, <1>3, CodecAssumption
<1>5. t \in Names /\ k \in Names
  BY <1>2, CodecAssumption
<1>6. r.task = t /\ r.key = k /\ r.step = s.step /\ r.ts = s.ts /\ r.value = s.metrics[k]
  BY DEF RowOf
<1>7. r \in [task : Names, key : Names, step : 0..MaxInt32, ts : Nat, value : Int]
  BY <1>3, <1>4, <1>5 DEF RowOf
<1> HIDE DEF r
<1>8. r \in Points
  BY <1>2, <1>6, <1>7 DEF Points, ValidTaskID, ValidMetricKey
<1>9. Encodable(r) /\ FitsColumns(r)
  <2>1. Length[t] <= 64 /\ Length[k] <= 32
    BY <1>2
  <2>2. QED
    BY <2>1, <1>4, <1>6, CodecAssumption DEF Encodable, FitsColumns
<1>10. QED
  BY <1>8, <1>9 DEF r, s, t

-----------------------------------------------------------------------------
(* The invariant of the pipeline.                                           *)

\* The deliveries of the API are valid, and the table holds points that fit
\* it, one of each identity.
PipelineInv ==
    /\ \A d \in queue : IsBatch(d.body.batch, Int) /\ (d \in Foreign \/ ValidDelivery(d))
    /\ deadLetters \subseteq Foreign
    /\ points \subseteq Points /\ IsFiniteSet(points)
    /\ \A p \in points : \A q \in points : Identity(p) = Identity(q) => p = q

\* The elements of a sequence are finitely many.
LEMMA ElementsFinite ==
    ASSUME NEW S, NEW s \in Seq(S)
    PROVE  IsFiniteSet(ToSet(s))
<1>1. Len(s) \in Nat /\ DOMAIN s = 1..Len(s)
  OBVIOUS
<1>2. s \in Surjection(1..Len(s), ToSet(s))
  <2>1. s \in [1..Len(s) -> ToSet(s)]
    BY <1>1 DEF ToSet
  <2>2. \A x \in ToSet(s) : \E i \in 1..Len(s) : s[i] = x
    BY <1>1 DEF ToSet
  <2>3. QED
    BY <2>1, <2>2 DEF Surjection
<1>3. IsFiniteSet(1..Len(s))
  BY <1>1, FS_Interval
<1>4. QED
  BY <1>2, <1>3, FS_Surjection

\* A prefix has elements of the whole only.
LEMMA PrefixElements ==
    ASSUME NEW S, NEW s \in Seq(S), NEW r \in Prefixes(s)
    PROVE  r \in Seq(S) /\ ToSet(r) \subseteq ToSet(s) /\ DOMAIN r = 1..Len(r) /\ Len(r) \in Nat
<1>1. PICK l \in 0..Len(s) : r = SubSeq(s, 1, l)
  BY DEF Prefixes
<1>2. Len(s) \in Nat /\ DOMAIN s = 1..Len(s)
  OBVIOUS
<1>3. r = [i \in 1..l |-> s[i]]
  BY <1>1, <1>2
<1>4. ASSUME NEW i \in 1..l PROVE i \in DOMAIN s /\ s[i] \in S
  BY <1>2
<1>5. r \in [1..l -> S]
  BY <1>3, <1>4
<1>6. r \in Seq(S) /\ DOMAIN r = 1..l
  BY <1>5
<1>7. ToSet(r) \subseteq ToSet(s)
  BY <1>3, <1>4, <1>6 DEF ToSet
<1>8. QED
  BY <1>6, <1>7

\* ON CONFLICT DO NOTHING keeps identities unique.
LEMMA InsertKeyed ==
    ASSUME NEW S, NEW rows \in Seq(S), NEW table, IsFiniteSet(table),
           \A p \in table : \A q \in table : Identity(p) = Identity(q) => p = q
    PROVE  LET new == Insert(table, rows)
           IN  /\ IsFiniteSet(new)
               /\ table \subseteq new /\ new \subseteq table \cup ToSet(rows)
               /\ \A p \in new : \A q \in new : Identity(p) = Identity(q) => p = q
<1> DEFINE J == {j \in DOMAIN rows :
                    /\ \A p \in table : Identity(p) # Identity(rows[j])
                    /\ \A h \in 1..(j - 1) : Identity(rows[h]) # Identity(rows[j])}
           Added == {rows[i] : i \in J}
           new == Insert(table, rows)
<1>1. new = table \cup Added
  BY DEF Insert
<1>2. DOMAIN rows = 1..Len(rows) /\ Len(rows) \in Nat
  OBVIOUS
<1>3. Added \subseteq ToSet(rows)
  BY DEF ToSet
<1>4. IsFiniteSet(Added)
  <2>1. IsFiniteSet(ToSet(rows))
    BY ElementsFinite
  <2>2. Added \in SUBSET ToSet(rows)
    BY <1>3
  <2> HIDE DEF Added
  <2>3. QED
    BY <2>1, <2>2, FS_Subset
<1>5. IsFiniteSet(new)
  <2> HIDE DEF Added, new
  <2>1. QED
    BY <1>1, <1>4, FS_Union
<1>6. ASSUME NEW p \in Added, NEW q \in Added, Identity(p) = Identity(q) PROVE p = q
  <2>1. PICK i \in J : p = rows[i]
    OBVIOUS
  <2>2. PICK j \in J : q = rows[j]
    OBVIOUS
  <2>3. i \in Nat /\ j \in Nat /\ i >= 1 /\ j >= 1
    BY <1>2
  <2>4. ~(i < j)
    <3>1. i < j => i \in 1..(j - 1)
      BY <2>3
    <3>2. QED
      BY <3>1, <2>1, <2>2, <1>6
  <2>5. ~(j < i)
    <3>1. j < i => j \in 1..(i - 1)
      BY <2>3
    <3>2. QED
      BY <3>1, <2>1, <2>2, <1>6
  <2>6. QED
    BY <2>1, <2>2, <2>3, <2>4, <2>5
<1>7. ASSUME NEW p \in table, NEW q \in Added PROVE Identity(p) # Identity(q)
  OBVIOUS
<1> HIDE DEF Added, new
<1>8. \A p \in new : \A q \in new : Identity(p) = Identity(q) => p = q
  BY <1>1, <1>6, <1>7
<1>9. table \subseteq new /\ new \subseteq table \cup ToSet(rows)
  BY <1>1, <1>3
<1>10. QED
  BY <1>5, <1>8, <1>9, Zenon DEF new

\* The rows of a delivery in the queue, as the worker reads them.
LEMMA QueuedRows ==
    ASSUME NEW d, IsBatch(d.body.batch, Int)
    PROVE  /\ Rows(d) \in Seq(RowsOf(d.body.task, d.body.batch))
           /\ ToSet(Rows(d)) = RowsOf(d.body.task, d.body.batch)
BY ExpandedRows DEF Rows

\* A turn of a worker keeps the invariant.
LEMMA PipelineStep ==
    ASSUME PipelineInv, PipelineNext
    PROVE  PipelineInv'
<1>1. PICK d \in queue : Reject(d) \/ Ack(d) \/ \E rows \in Prefixes(Rows(d)) : Flush(d, rows)
  BY DEF PipelineNext
<1>2. IsBatch(d.body.batch, Int) /\ (d \in Foreign \/ ValidDelivery(d))
  BY DEF PipelineInv
<1>3. CASE Reject(d)
  BY <1>2, <1>3 DEF Reject, PipelineInv
<1>4. CASE Ack(d)
  BY <1>4 DEF Ack, PipelineInv
<1>5. ASSUME NEW rows \in Prefixes(Rows(d)), Flush(d, rows)
      PROVE  PipelineInv'
  <2> DEFINE R == RowsOf(d.body.task, d.body.batch)
  <2>1. ValidDelivery(d) /\ points' = Insert(points, rows)
        /\ UNCHANGED <<queue, deadLetters>>
    BY <1>5 DEF Flush
  <2>2. R \subseteq Points
    BY <2>1, <1>2, ValidRowsFit
  <2>3. rows \in Seq(R) /\ ToSet(rows) \subseteq R
    <3>1. Rows(d) \in Seq(R) /\ ToSet(Rows(d)) = R
      BY <1>2, QueuedRows
    <3> HIDE DEF R
    <3>2. QED
      BY <3>1, PrefixElements
  <2> HIDE DEF R
  <2>4. /\ IsFiniteSet(points')
        /\ points' \subseteq points \cup ToSet(rows)
        /\ \A p \in points' : \A q \in points' : Identity(p) = Identity(q) => p = q
    BY <2>1, <2>3, InsertKeyed DEF PipelineInv
  <2>5. points' \subseteq Points
    BY <2>2, <2>3, <2>4 DEF PipelineInv
  <2>6. QED
    BY <2>1, <2>4, <2>5 DEF PipelineInv
<1>6. QED
  BY <1>1, <1>3, <1>4, <1>5

\* A message the API publishes keeps the invariant.
LEMMA PublishStep ==
    ASSUME PipelineInv, NEW r, Accepts(r), IsBatch(r.batch, Int \cup {Null}), Publish(r),
           UNCHANGED <<deadLetters, points>>
    PROVE  PipelineInv'
<1> DEFINE d == MarshalIngestPublishing(
                    NewIngestMessage(ToMetricBatch(r), MessageID(ToMetricBatch(r))))
<1>1. queue' = queue \cup {d}
  BY DEF Publish
<1>2. IsBatch(d.body.batch, Int) /\ ValidDelivery(d)
  BY AcceptedIsValid, Zenon
<1> HIDE DEF d
<1>3. QED
  BY <1>1, <1>2 DEF PipelineInv

-----------------------------------------------------------------------------
(* MapThenSumSet, by which rows are counted.                                *)

\* g[s] is the sum of c over s: the recursion in MapThenSumSet.
IsSum(g, S, c) ==
    g = [s \in SUBSET S |->
            IF s = {} THEN 0
            ELSE c[CHOOSE x \in s : TRUE] + g[s \ {CHOOSE x \in s : TRUE}]]

\* The union of the sets D[y].
UnionOf(D, s) == UNION {D[y] : y \in s}

\* Adding a set that is disjoint from the others.
LEMMA DisjointUnion ==
    ASSUME NEW s, IsFiniteSet(s), NEW x \in s, NEW D,
           \A y \in s : IsFiniteSet(D[y]),
           \A y \in s : \A z \in s : y # z => D[y] \cap D[z] = {}
    PROVE  /\ IsFiniteSet(UnionOf(D, s \ {x}))
           /\ Cardinality(UnionOf(D, s))
                = Cardinality(D[x]) + Cardinality(UnionOf(D, s \ {x}))
<1> DEFINE A == UnionOf(D, s \ {x})
           Family == {D[y] : y \in s \ {x}}
<1>1. IsFiniteSet(A)
  <2>1. IsFiniteSet(s \ {x})
    BY FS_RemoveElement
  <2>2. IsFiniteSet(Family)
    <3> DEFINE f == [y \in s \ {x} |-> D[y]]
    <3>1. f \in Surjection(s \ {x}, Family)
      <4>1. f \in [s \ {x} -> Family]
        OBVIOUS
      <4>2. \A u \in Family : \E y \in s \ {x} : f[y] = u
        OBVIOUS
      <4> HIDE DEF f, Family
      <4>3. QED
        BY <4>1, <4>2 DEF Surjection
    <3> HIDE DEF f, Family
    <3>2. QED
      BY <2>1, <3>1, FS_Surjection
  <2>3. \A u \in Family : IsFiniteSet(u)
    OBVIOUS
  <2>4. A = UNION Family
    BY DEF UnionOf
  <2> HIDE DEF Family, A
  <2>5. QED
    BY <2>2, <2>3, <2>4, FS_UNION
<1>2. UnionOf(D, s) = D[x] \cup A
  BY DEF UnionOf
<1>3. D[x] \cap A = {}
  BY DEF UnionOf
<1> HIDE DEF A
<1>4. Cardinality(D[x] \cup A) = Cardinality(D[x]) + Cardinality(A) - Cardinality(D[x] \cap A)
  BY <1>1, FS_Union
<1>5. Cardinality(D[x]) \in Nat /\ Cardinality(A) \in Nat /\ Cardinality(D[x] \cap A) = 0
  BY <1>1, <1>3, FS_CardinalityType, FS_EmptySet
<1>6. Cardinality(UnionOf(D, s)) = Cardinality(D[x]) + Cardinality(A)
  BY <1>2, <1>4, <1>5
<1>7. QED
  BY <1>1, <1>6 DEF A

\* The sum of the sizes of disjoint sets is the size of their union.
LEMMA SumOfDisjoint ==
    ASSUME NEW S, IsFiniteSet(S), NEW D, NEW c,
           \A y \in S : IsFiniteSet(D[y]) /\ c[y] = Cardinality(D[y]),
           \A y \in S : \A z \in S : y # z => D[y] \cap D[z] = {}
    PROVE  /\ \E g : IsSum(g, S, c)
           /\ \A g : IsSum(g, S, c) => g[S] = Cardinality(UnionOf(D, S))
<1> DEFINE Size(s) == Cardinality(UnionOf(D, s))
           Pick(s) == CHOOSE x \in s : TRUE
<1>1. Size({}) = 0
  <2>1. UnionOf(D, {}) = {}
    BY DEF UnionOf
  <2>2. QED
    BY <2>1, FS_EmptySet
<1>2. ASSUME NEW s \in SUBSET S, s # {}
      PROVE  Pick(s) \in s /\ Size(s) = c[Pick(s)] + Size(s \ {Pick(s)})
  <2>1. Pick(s) \in s
    BY <1>2
  <2>2. IsFiniteSet(s)
    BY FS_Subset
  <2> HIDE DEF Pick
  <2>3. Size(s) = Cardinality(D[Pick(s)]) + Size(s \ {Pick(s)})
    <3>1. \A y \in s : IsFiniteSet(D[y])
      OBVIOUS
    <3>2. \A y \in s : \A z \in s : y # z => D[y] \cap D[z] = {}
      OBVIOUS
    <3>3. QED
      BY <2>1, <2>2, <3>1, <3>2, DisjointUnion
  <2>4. QED
    BY <2>1, <2>3
<1> HIDE DEF Size, Pick
<1>3. IsSum([s \in SUBSET S |-> Size(s)], S, c)
  <2> DEFINE g == [s \in SUBSET S |-> Size(s)]
  <2>1. ASSUME NEW s \in SUBSET S
        PROVE  g[s] = IF s = {} THEN 0 ELSE c[Pick(s)] + g[s \ {Pick(s)}]
    <3>1. g[s] = Size(s) /\ g[s \ {Pick(s)}] = Size(s \ {Pick(s)})
      OBVIOUS
    <3> HIDE DEF g
    <3>2. QED
      BY <3>1, <1>1, <1>2
  <2>2. g = [s \in SUBSET S |-> g[s]]
    OBVIOUS
  <2> HIDE DEF g
  <2>3. g = [s \in SUBSET S |-> IF s = {} THEN 0 ELSE c[Pick(s)] + g[s \ {Pick(s)}]]
    BY <2>1, <2>2
  <2>4. QED
    BY <2>3 DEF g, IsSum, Pick
<1>4. ASSUME NEW g, IsSum(g, S, c)
      PROVE  g[S] = Size(S)
  <2>1. g = [s \in SUBSET S |-> IF s = {} THEN 0 ELSE c[Pick(s)] + g[s \ {Pick(s)}]]
    BY <1>4 DEF IsSum, Pick
  <2> DEFINE T == {s \in SUBSET S : g[s] = Size(s)}
  <2>2. ASSUME NEW s \in SUBSET S, \A V \in (SUBSET s) \ {s} : V \in T
        PROVE  s \in T
    <3>1. CASE s = {}
      BY <3>1, <2>1, <1>1
    <3>2. CASE s # {}
      <4>1. s \ {Pick(s)} \in (SUBSET s) \ {s}
        BY <3>2, <1>2
      <4>2. g[s \ {Pick(s)}] = Size(s \ {Pick(s)})
        BY <4>1, <2>2
      <4>3. g[s] = c[Pick(s)] + g[s \ {Pick(s)}]
        BY <3>2, <2>1
      <4>4. QED
        BY <4>2, <4>3, <3>2, <1>2
    <3>3. QED
      BY <3>1, <3>2
  <2>3. SUBSET S \subseteq T
    <3> HIDE DEF T
    <3>1. QED
      BY <2>2, SubsetInduction
  <2>4. QED
    BY <2>3
<1>5. QED
  BY <1>3, <1>4 DEF Size

-----------------------------------------------------------------------------
(* The invariant of the simulator.                                          *)

\* The batch whose first step is n.
BatchAt(n) == [i \in 1..BatchSize |-> Sample(n + i - 1)]

\* The identities of the points of a batch.
Ids(t, b) == {Identity(r) : r \in RowsOf(t, b)}

\* The phases follow each other, and goroutines run in the first only.
PhaseInv ==
    /\ DOMAIN step = SimTasks /\ DOMAIN history = SimTasks
    /\ DOMAIN expected = SimTasks /\ DOMAIN pass = SimTasks
    /\ running \subseteq SimTasks /\ audited \subseteq SimTasks
    /\ phase \in {"off", "posting", "auditing", "done"}
    /\ phase # "posting" => running = {}
    /\ phase \in {"off", "posting"} => audited = {}
    /\ Audit /\ phase = "done" => audited = SimTasks

\* The accepted batches lie before the generator's next step, and what is
\* expected is what was accepted, each batch counted once.
HistoryInv(t) ==
    /\ step[t] \in Nat
    /\ \A b \in history[t] : /\ b[1].step \in Nat
                             /\ b = BatchAt(b[1].step)
                             /\ b[1].step + BatchSize <= step[t]
    /\ expected[t].batches = {Fingerprint(b) : b \in history[t]}
    /\ IsFiniteSet(SentPoints(t))
    /\ expected[t].pointCount = Cardinality(SentPoints(t))

\* While the simulator runs, the queue and the table have nothing of a task
\* without failed posts but what was accepted.
SourceInv ==
    phase # "off" =>
        /\ \A d \in queue :
            /\ d.body.task \in SimTasks
            /\ d.body.task \notin failures => d.body.batch \in history[d.body.task]
        /\ \A p \in points :
            p.task \in SimTasks \ failures => Identity(p) \in SentPoints(p.task)

\* A task that has passed has everything stored, and stays so.
AuditedInv ==
    phase \in {"auditing", "done"} =>
        \A t \in audited \ failures :
            pass[t] => {Identity(p) : p \in OfTask(points, t)} = SentPoints(t)

Inv ==
    /\ PipelineInv
    /\ PhaseInv
    /\ \A t \in SimTasks : HistoryInv(t)
    /\ SourceInv
    /\ AuditedInv

\* SentPoints for a set H of batches.
SentOf(t, H) == UNION {{Identity(p) : p \in ToSet(ExpandMetricPoints([task |-> t, batch |-> b]))} : b \in H}

\* A sample of the generator.
LEMMA SampleFacts ==
    ASSUME NEW n \in Nat
    PROVE  IsSample(Sample(n), Int) /\ Sample(n).step = n
<1> DEFINE K == {Loss, LR} \cup (IF n % EvalEvery = 0 THEN {EvalLoss} ELSE {})
           f == [k \in K |-> n]
<1>1. Sample(n) = [step |-> n, ts |-> StartTS + n * Interval, metrics |-> f]
  BY DEF Sample
<1>2. K \subseteq Names
  BY SimulatorAssumption
<1>3. f \in [K -> Int] /\ DOMAIN f = K
  OBVIOUS
<1>4. StartTS + n * Interval \in Int
  BY SimulatorAssumption
<1> HIDE DEF K, f
<1>5. /\ Sample(n).metrics = f /\ Sample(n).step = n
      /\ Sample(n) \in [step : Int \cup {Null}, ts : Int \cup {Null}, metrics : [K -> Int]]
  BY <1>1, <1>3, <1>4
<1>6. QED
  BY <1>2, <1>3, <1>5 DEF IsSample

\* A batch of the generator.
LEMMA BatchFacts ==
    ASSUME NEW n \in Nat
    PROVE  /\ IsBatch(BatchAt(n), Int)
           /\ DOMAIN BatchAt(n) = 1..BatchSize /\ Len(BatchAt(n)) = BatchSize
           /\ \A i \in 1..BatchSize : /\ BatchAt(n)[i] = Sample(n + i - 1)
                                      /\ BatchAt(n)[i].step = n + i - 1
           /\ BatchAt(n)[1].step = n
<1> DEFINE b == BatchAt(n)
<1>1. BatchSize \in Nat \ {0}
  BY SimulatorAssumption, CodecAssumption
<1>2. DOMAIN b = 1..BatchSize /\ \A i \in 1..BatchSize : b[i] = Sample(n + i - 1)
  BY DEF BatchAt
<1>3. b = [i \in 1..BatchSize |-> b[i]]
  BY DEF BatchAt
<1> HIDE DEF b
<1>4. ASSUME NEW i \in 1..BatchSize
      PROVE  IsSample(b[i], Int) /\ b[i].step = n + i - 1 /\ b[i] \in ToSet(b)
  <2>1. n + i - 1 \in Nat
    BY <1>1
  <2>2. QED
    BY <2>1, <1>2, SampleFacts DEF ToSet
<1>5. b \in [1..BatchSize -> ToSet(b)]
  BY <1>3, <1>4
<1>6. b \in Seq(ToSet(b)) /\ Len(b) = BatchSize
  BY <1>1, <1>5
<1>7. b[1].step = n
  <2>1. 1 \in 1..BatchSize /\ n + 1 - 1 = n
    BY <1>1
  <2>2. QED
    BY <2>1, <1>4
<1>8. QED
  BY <1>2, <1>4, <1>6, <1>7 DEF IsBatch, b

\* The number addExpected adds for a batch.
MetricCount(b) == MapThenSumSet(LAMBDA i : Cardinality(DOMAIN b[i].metrics), DOMAIN b)

\* The identity of a row.
LEMMA RowIdentity ==
    ASSUME NEW t, NEW s, NEW k
    PROVE  Identity(RowOf(t, s, k)) = <<t, k, s.step, s.ts>>
BY DEF Identity, RowOf

\* addExpected counts the points of a batch: samples differ in their step.
LEMMA BatchCount ==
    ASSUME NEW n \in Nat, NEW t, NEW b, b = BatchAt(n)
    PROVE  /\ IsFiniteSet(Ids(t, b))
           /\ Cardinality(Ids(t, b)) = MetricCount(b)
           /\ \A x \in Ids(t, b) : x[3] \in n..(n + BatchSize - 1)
<1> DEFINE S == DOMAIN b
           Keys(i) == DOMAIN b[i].metrics
           Part(i) == {<<t, k, b[i].step, b[i].ts>> : k \in Keys(i)}
           D == [i \in S |-> Part(i)]
           c == [i \in S |-> Cardinality(Keys(i))]
<1>0. BatchSize \in Nat \ {0}
  BY SimulatorAssumption, CodecAssumption
<1>1. /\ S = 1..BatchSize
      /\ \A i \in S : IsSample(b[i], Int) /\ b[i].step = n + i - 1
  BY BatchFacts DEF IsBatch
<1>2. IsFiniteSet(S)
  BY <1>0, <1>1, FS_Interval
<1>3. ASSUME NEW i \in S
      PROVE  IsFiniteSet(Part(i)) /\ Cardinality(Part(i)) = Cardinality(Keys(i))
  <2> DEFINE f == [k \in Keys(i) |-> <<t, k, b[i].step, b[i].ts>>]
  <2>1. IsFiniteSet(Keys(i))
    BY <1>1, SampleKeys
  <2>2. f \in [Keys(i) -> Part(i)]
    OBVIOUS
  <2>3. \A k, l \in Keys(i) : f[k] = f[l] => k = l
    OBVIOUS
  <2>4. \A x \in Part(i) : \E k \in Keys(i) : f[k] = x
    OBVIOUS
  <2> HIDE DEF f, Part, Keys
  <2>5. f \in Bijection(Keys(i), Part(i))
    BY <2>2, <2>3, <2>4 DEF Bijection, Injection, Surjection, IsInjective
  <2>6. QED
    BY <2>1, <2>5, FS_Bijection DEF ExistsBijection
<1>4. ASSUME NEW i \in S, NEW j \in S, i # j
      PROVE  Part(i) \cap Part(j) = {}
  <2>1. b[i].step # b[j].step
    BY <1>0, <1>1, <1>4
  <2>2. QED
    BY <2>1
<1>5. \A i \in S : D[i] = Part(i) /\ c[i] = Cardinality(Keys(i))
  OBVIOUS
<1> HIDE DEF D, c, Part
<1>6. /\ \E g : IsSum(g, S, c)
      /\ \A g : IsSum(g, S, c) => g[S] = Cardinality(UnionOf(D, S))
  <2>1. \A y \in S : IsFiniteSet(D[y]) /\ c[y] = Cardinality(D[y])
    BY <1>3, <1>5
  <2>2. \A y \in S : \A z \in S : y # z => D[y] \cap D[z] = {}
    BY <1>4, <1>5
  <2> HIDE DEF S
  <2>3. QED
    BY <1>2, <2>1, <2>2, SumOfDisjoint
<1>7. MetricCount(b) = Cardinality(UnionOf(D, S))
  <2> DEFINE F(g) == [s \in SUBSET S |->
                        IF s = {} THEN 0
                        ELSE Cardinality(Keys(CHOOSE x \in s : TRUE)) + g[s \ {CHOOSE x \in s : TRUE}]]
             h == CHOOSE g : g = F(g)
  <2>1. MetricCount(b) = h[S]
    BY Zenon DEF MetricCount, MapThenSumSet, MapThenFoldSet
  <2>2. ASSUME NEW g PROVE g = F(g) <=> IsSum(g, S, c)
    <3>1. ASSUME NEW s \in SUBSET S, s # {}
          PROVE  Cardinality(Keys(CHOOSE x \in s : TRUE)) = c[CHOOSE x \in s : TRUE]
      <4>1. (CHOOSE x \in s : TRUE) \in s
        BY <3>1
      <4>2. QED
        BY <4>1, <1>5
    <3> HIDE DEF Keys, S
    <3>2. QED
      BY <3>1 DEF IsSum
  <2> HIDE DEF F
  <2>3. h = F(h)
    BY <1>6, <2>2
  <2> HIDE DEF h
  <2>4. QED
    BY <1>6, <2>1, <2>2, <2>3
<1>8. UnionOf(D, S) = Ids(t, b)
  <2>1. ASSUME NEW x PROVE x \in Ids(t, b) <=> \E i \in S : \E k \in Keys(i) : x = <<t, k, b[i].step, b[i].ts>>
    <3>1. x \in Ids(t, b) <=> \E r \in RowsOf(t, b) : x = Identity(r)
      BY DEF Ids
    <3>2. QED
      BY <3>1, RowsOfMember, RowIdentity
  <2>2. ASSUME NEW x PROVE x \in UnionOf(D, S) <=> \E i \in S : x \in Part(i)
    BY <1>5 DEF UnionOf
  <2>3. QED
    BY <2>1, <2>2 DEF Part
<1>9. IsFiniteSet(UnionOf(D, S))
  <2>1. 1 \in S
    BY <1>0, <1>1
  <2>2. \A y \in S : IsFiniteSet(D[y])
    BY <1>3, <1>5
  <2>3. \A y \in S : \A z \in S : y # z => D[y] \cap D[z] = {}
    BY <1>4, <1>5
  <2> HIDE DEF S
  <2>4. IsFiniteSet(UnionOf(D, S \ {1}))
    BY <1>2, <2>1, <2>2, <2>3, DisjointUnion
  <2>5. UnionOf(D, S) = D[1] \cup UnionOf(D, S \ {1})
    BY <2>1 DEF UnionOf
  <2>6. QED
    BY <2>1, <2>2, <2>4, <2>5, FS_Union
<1>10. ASSUME NEW x \in Ids(t, b) PROVE x[3] \in n..(n + BatchSize - 1)
  <2>1. PICK i \in S : x \in Part(i)
    BY <1>5, <1>8 DEF UnionOf
  <2>2. x[3] = b[i].step
    BY <2>1 DEF Part
  <2>3. QED
    BY <2>2, <1>0, <1>1
<1>11. QED
  BY <1>7, <1>8, <1>9, <1>10

\* The identities of the points of a set of batches.
AllIds(t, H) == UNION {Ids(t, b) : b \in H}

\* What a set of batches amounts to.
LEMMA SentOfIds ==
    ASSUME NEW t, NEW H, \A b \in H : IsBatch(b, Int)
    PROVE  SentOf(t, H) = AllIds(t, H)
<1>1. ASSUME NEW b \in H
      PROVE  {Identity(p) : p \in ToSet(ExpandMetricPoints([task |-> t, batch |-> b]))} = Ids(t, b)
  <2> DEFINE m == [task |-> t, batch |-> b]
  <2>1. m.task = t /\ m.batch = b
    OBVIOUS
  <2> HIDE DEF m
  <2>2. ToSet(ExpandMetricPoints(m)) = RowsOf(t, b)
    BY <2>1, ExpandedRows
  <2>3. QED
    BY <2>2 DEF m, Ids
<1>2. QED
  BY <1>1, Zenon DEF SentOf, AllIds

\* One more batch.
LEMMA SentOfMore ==
    ASSUME NEW t, NEW H, NEW c, \A b \in H : IsBatch(b, Int), IsBatch(c, Int)
    PROVE  SentOf(t, H \cup {c}) = SentOf(t, H) \cup Ids(t, c)
<1>1. SentOf(t, H) = AllIds(t, H)
  BY SentOfIds
<1>2. SentOf(t, H \cup {c}) = AllIds(t, H \cup {c})
  <2>1. \A b \in H \cup {c} : IsBatch(b, Int)
    OBVIOUS
  <2>2. QED
    BY <2>1, SentOfIds
<1>3. QED
  BY <1>1, <1>2 DEF AllIds

\* A batch of the simulator comes out of encoding and decoding as it was.
LEMMA PostedBatch ==
    ASSUME NEW t, NEW b, NEW id, IsBatch(b, Int)
    PROVE  LET d == MarshalIngestPublishing(NewIngestMessage(ToMetricBatch(PostRequest(t, b)), id))
           IN  d.body.task = t /\ d.body.batch = b
<1> DEFINE r == PostRequest(t, b)
           Zeroed(f) == [k \in DOMAIN f |-> IF f[k] = Null THEN 0 ELSE f[k]]
           d == MarshalIngestPublishing(NewIngestMessage(ToMetricBatch(r), id))
<1>1. r.task = t /\ r.batch = b
  BY DEF PostRequest
<1> HIDE DEF r
<1>2. d.body.task = t /\ d.body.batch = ToMetricBatch(r).samples
  BY <1>1 DEF MarshalIngestPublishing, NewIngestMessage, ToMetricBatch
<1>3. ToMetricBatch(r).samples
        = [i \in DOMAIN b |-> [b[i] EXCEPT !.metrics = Zeroed(b[i].metrics)]]
  BY <1>1 DEF ToMetricBatch
<1>4. ASSUME NEW i \in DOMAIN b
      PROVE  [b[i] EXCEPT !.metrics = Zeroed(b[i].metrics)] = b[i]
  <2> DEFINE s == b[i]
  <2>1. s \in [step : Int \cup {Null}, ts : Int \cup {Null}, metrics : [DOMAIN s.metrics -> Int]]
    BY DEF IsBatch, IsSample
  <2> HIDE DEF s
  <2>2. \A k \in DOMAIN s.metrics : s.metrics[k] \in Int /\ s.metrics[k] # Null
    BY <2>1, CodecAssumption
  <2>3. Zeroed(s.metrics) = s.metrics
    BY <2>1, <2>2
  <2> HIDE DEF Zeroed
  <2>4. [s EXCEPT !.metrics = Zeroed(s.metrics)] = s
    BY <2>1, <2>3
  <2>5. QED
    BY <2>4 DEF s
<1>5. [i \in DOMAIN b |-> [b[i] EXCEPT !.metrics = Zeroed(b[i].metrics)]] = [i \in DOMAIN b |-> b[i]]
  BY <1>4, Zenon
<1>6. [i \in DOMAIN b |-> b[i]] = b
  BY DEF IsBatch
<1>7. QED
  BY <1>2, <1>3, <1>5, <1>6 DEF r

\* A batch the simulator may post: the generator's next, or an old one.
LEMMA Postable ==
    ASSUME NEW t \in SimTasks, HistoryInv(t), NEW b \in {NextBatch(t)} \cup history[t]
    PROVE  /\ IsBatch(b, Int) /\ IsBatch(b, Int \cup {Null})
           /\ b[1].step \in Nat /\ b = BatchAt(b[1].step)
           /\ b[1].step + BatchSize <= step[t] + BatchSize
           /\ b \notin history[t] => b[1].step = step[t]
<1>0. BatchSize \in Nat /\ step[t] \in Nat
  BY SimulatorAssumption, CodecAssumption DEF HistoryInv
<1>1. b[1].step \in Nat /\ b = BatchAt(b[1].step) /\ b[1].step <= step[t]
      /\ (b \notin history[t] => b[1].step = step[t])
  <2>1. CASE b = NextBatch(t)
    <3>1. b = BatchAt(step[t])
      BY <2>1 DEF NextBatch, BatchAt
    <3>2. b[1].step = step[t]
      BY <3>1, <1>0, BatchFacts
    <3>3. QED
      BY <3>1, <3>2, <1>0
  <2>2. CASE b \in history[t]
    BY <2>2, <1>0 DEF HistoryInv
  <2>3. QED
    BY <2>1, <2>2
<1>2. IsBatch(b, Int)
  BY <1>1, BatchFacts
<1>3. IsBatch(b, Int \cup {Null})
  <2>1. ASSUME NEW i \in DOMAIN b PROVE IsSample(b[i], Int \cup {Null})
    <3> DEFINE s == b[i]
    <3>1. IsSample(s, Int)
      BY <1>2 DEF IsBatch
    <3> HIDE DEF s
    <3>2. IsSample(s, Int \cup {Null})
      BY <3>1 DEF IsSample
    <3>3. QED
      BY <3>2 DEF s
  <2>2. QED
    BY <1>2, <2>1 DEF IsBatch
<1>4. QED
  BY <1>0, <1>1, <1>2, <1>3

\* The invariant of a task depends on its own variables only.
LEMMA HistoryKept ==
    ASSUME NEW t \in SimTasks, HistoryInv(t), history'[t] = history[t],
           expected'[t] = expected[t], step'[t] \in Nat, step[t] <= step'[t]
    PROVE  HistoryInv(t)'
<1>1. SentPoints(t)' = SentPoints(t)
  BY DEF SentPoints
<1>2. BatchSize \in Nat /\ step[t] \in Nat
  BY SimulatorAssumption, CodecAssumption DEF HistoryInv
<1>3. \A b \in history[t] : b[1].step \in Nat /\ b[1].step + BatchSize <= step'[t]
  BY <1>2 DEF HistoryInv
<1>4. QED
  BY <1>1, <1>3 DEF HistoryInv

\* What a simulator at rest keeps.
LEMMA SimulatorUnchanged ==
    ASSUME PhaseInv, \A t \in SimTasks : HistoryInv(t), UNCHANGED simulatorVars
    PROVE  /\ PhaseInv' /\ \A t \in SimTasks : HistoryInv(t)'
           /\ \A t \in SimTasks : SentPoints(t)' = SentPoints(t)
<1>1. /\ running' = running /\ step' = step /\ history' = history /\ expected' = expected
      /\ failures' = failures /\ phase' = phase /\ audited' = audited /\ pass' = pass
  BY DEF simulatorVars
<1>2. PhaseInv'
  BY <1>1 DEF PhaseInv
<1>3. ASSUME NEW t \in SimTasks PROVE HistoryInv(t)' /\ SentPoints(t)' = SentPoints(t)
  <2>1. step'[t] \in Nat /\ step[t] <= step'[t]
    BY <1>1 DEF HistoryInv
  <2>2. HistoryInv(t)'
    BY <1>1, <2>1, HistoryKept
  <2>3. SentPoints(t)' = SentPoints(t)
    BY <1>1 DEF SentPoints
  <2>4. QED
    BY <2>2, <2>3
<1>4. QED
  BY <1>2, <1>3

\* More points of accepted batches leave a task that has passed complete.
LEMMA AuditedKept ==
    ASSUME PhaseInv, AuditedInv, SourceInv', points \subseteq points',
           phase' = phase, audited' = audited, failures' = failures, pass' = pass,
           \A t \in SimTasks : SentPoints(t)' = SentPoints(t)
    PROVE  AuditedInv'
<1>1. SUFFICES ASSUME phase \in {"auditing", "done"}, NEW t \in audited \ failures, pass[t]
               PROVE  {Identity(p) : p \in OfTask(points', t)} = SentPoints(t)'
  BY DEF AuditedInv
<1>2. t \in SimTasks
  BY DEF PhaseInv
<1>3. {Identity(p) : p \in OfTask(points, t)} = SentPoints(t)
  BY <1>1 DEF AuditedInv
<1>4. OfTask(points, t) \subseteq OfTask(points', t)
  BY DEF OfTask
<1>5. ASSUME NEW p \in OfTask(points', t) PROVE Identity(p) \in SentPoints(t)'
  <2>1. p \in points' /\ p.task = t
    BY DEF OfTask
  <2>2. phase' # "off" /\ t \in SimTasks \ failures'
    BY <1>1, <1>2
  <2>3. QED
    BY <2>1, <2>2 DEF SourceInv
<1>6. QED
  BY <1>2, <1>3, <1>4, <1>5

\* A turn of a worker.
LEMMA WorkerStep ==
    ASSUME Inv, PipelineNext, UNCHANGED simulatorVars
    PROVE  Inv'
<1>1. PipelineInv'
  BY PipelineStep DEF Inv
<1>2. /\ PhaseInv' /\ \A t \in SimTasks : HistoryInv(t)'
      /\ \A t \in SimTasks : SentPoints(t)' = SentPoints(t)
  BY SimulatorUnchanged DEF Inv
<1>3. UNCHANGED <<history, failures, phase, audited, pass>>
  BY DEF simulatorVars
<1>4. PICK d \in queue : Reject(d) \/ Ack(d) \/ \E rows \in Prefixes(Rows(d)) : Flush(d, rows)
  BY DEF PipelineNext
<1>5. queue' \subseteq queue
  BY <1>4 DEF Reject, Ack, Flush
<1>6. points \subseteq points' /\ \A p \in points' \ points : p \in RowsOf(d.body.task, d.body.batch)
  <2>1. CASE Reject(d) \/ Ack(d)
    BY <2>1 DEF Reject, Ack
  <2>2. ASSUME NEW rows \in Prefixes(Rows(d)), Flush(d, rows)
        PROVE  points \subseteq points' /\ points' \subseteq points \cup RowsOf(d.body.task, d.body.batch)
    <3> DEFINE R == RowsOf(d.body.task, d.body.batch)
    <3>1. Rows(d) \in Seq(R) /\ ToSet(Rows(d)) = R
      BY QueuedRows DEF Inv, PipelineInv
    <3> HIDE DEF R
    <3>2. rows \in Seq(R) /\ ToSet(rows) \subseteq R
      BY <3>1, PrefixElements
    <3>3. points \subseteq points' /\ points' \subseteq points \cup ToSet(rows)
      BY <2>2, <3>2, InsertKeyed DEF Flush, Inv, PipelineInv
    <3>4. QED
      BY <3>2, <3>3 DEF R
  <2>3. QED
    BY <2>1, <2>2, <1>4
<1>7. SourceInv'
  <2>1. SUFFICES ASSUME phase # "off" PROVE SourceInv'
    BY <1>3 DEF SourceInv
  <2>2. ASSUME NEW p \in points', p.task \in SimTasks \ failures
        PROVE  Identity(p) \in SentPoints(p.task)
    <3>1. CASE p \in points
      BY <2>1, <2>2, <3>1 DEF Inv, SourceInv
    <3>2. CASE p \notin points
      <4> DEFINE t == d.body.task
                 b == d.body.batch
      <4>1. p \in RowsOf(t, b)
        BY <3>2, <1>6
      <4>2. p.task = t
        BY <4>1, RowsOfMember DEF RowOf
      <4>3. b \in history[t] /\ t \in SimTasks
        BY <2>1, <2>2, <4>2 DEF Inv, SourceInv
      <4>4. Identity(p) \in Ids(t, b)
        BY <4>1 DEF Ids
      <4>5. \A c \in history[t] : IsBatch(c, Int)
        BY <4>3, BatchFacts DEF Inv, HistoryInv
      <4>6. SentPoints(t) = AllIds(t, history[t])
        BY <4>5, SentOfIds DEF SentPoints, SentOf
      <4>7. QED
        BY <4>2, <4>3, <4>4, <4>6 DEF AllIds
    <3>3. QED
      BY <3>1, <3>2
  <2>3. QED
    BY <2>1, <2>2, <1>2, <1>3, <1>5 DEF Inv, SourceInv
<1>8. AuditedInv'
  BY <1>2, <1>3, <1>6, <1>7, AuditedKept DEF Inv
<1>9. QED
  BY <1>1, <1>2, <1>7, <1>8 DEF Inv

\* A step of another client: there is no simulator.
LEMMA ClientStep ==
    ASSUME Inv, phase = "off", PipelineInv', UNCHANGED simulatorVars
    PROVE  Inv'
<1>1. PhaseInv' /\ \A t \in SimTasks : HistoryInv(t)'
  BY SimulatorUnchanged DEF Inv
<1>2. phase' = "off"
  BY DEF simulatorVars
<1>3. SourceInv' /\ AuditedInv'
  BY <1>2 DEF SourceInv, AuditedInv
<1>4. QED
  BY <1>1, <1>3 DEF Inv

\* A goroutine runs while the simulator posts; its turn moves the generator on.
LEMMA TurnFacts ==
    ASSUME Inv, NEW t \in SimTasks, Turn(t)
    PROVE  /\ phase = "posting"
           /\ DOMAIN step' = SimTasks /\ \A u \in SimTasks : step'[u] \in Nat /\ step[u] <= step'[u]
           /\ step'[t] = step[t] + BatchSize
<1>1. phase = "posting"
  BY DEF Inv, PhaseInv, Turn
<1>2. BatchSize \in Nat
  BY SimulatorAssumption, CodecAssumption
<1>3. step' = [step EXCEPT ![t] = @ + BatchSize] /\ DOMAIN step = SimTasks
  BY DEF Turn, Inv, PhaseInv
<1>4. \A u \in SimTasks : step[u] \in Nat
  BY DEF Inv, HistoryInv
<1>5. QED
  BY <1>1, <1>2, <1>3, <1>4

\* What the API published for a task of the simulator.
LEMMA PublishedBatch ==
    ASSUME NEW t, NEW b, IsBatch(b, Int), Publish(PostRequest(t, b))
    PROVE  \A d \in queue' \ queue : d.body.task = t /\ d.body.batch = b
<1> DEFINE r == PostRequest(t, b)
           d == MarshalIngestPublishing(
                    NewIngestMessage(ToMetricBatch(r), MessageID(ToMetricBatch(r))))
<1>1. queue' = queue \cup {d}
  BY DEF Publish
<1>2. d.body.task = t /\ d.body.batch = b
  BY PostedBatch
<1> HIDE DEF d
<1>3. QED
  BY <1>1, <1>2

\* addExpected counts a batch when it is accepted for the first time.
LEMMA ExpectedStep ==
    ASSUME NEW t \in SimTasks, HistoryInv(t), NEW b \in {NextBatch(t)} \cup history[t],
           step'[t] = step[t] + BatchSize, history'[t] = history[t] \cup {b},
           expected'[t] = AddExpected(expected[t], b)
    PROVE  HistoryInv(t)' /\ SentPoints(t) \subseteq SentPoints(t)'
<1> DEFINE e == expected[t]
           n == b[1].step
<1>0. BatchSize \in Nat \ {0} /\ step[t] \in Nat
  BY SimulatorAssumption, CodecAssumption DEF HistoryInv
<1>1. /\ IsBatch(b, Int) /\ n \in Nat /\ b = BatchAt(n) /\ n + BatchSize <= step'[t]
      /\ b \notin history[t] => n = step[t]
  BY Postable
<1>2. step'[t] \in Nat /\ step[t] <= step'[t]
  BY <1>0
<1>3. CASE b \in history[t]
  <2>1. history'[t] = history[t]
    BY <1>3
  <2>2. Fingerprint(b) \in e.batches
    BY <1>3 DEF HistoryInv
  <2>3. expected'[t] = expected[t]
    BY <2>2 DEF AddExpected
  <2>4. SentPoints(t)' = SentPoints(t)
    BY <2>1 DEF SentPoints
  <2>5. QED
    BY <2>1, <2>3, <2>4, <1>2, HistoryKept
<1>4. CASE b \notin history[t]
  <2>1. n = step[t]
    BY <1>1, <1>4
  <2>2. \A c \in history[t] : /\ IsBatch(c, Int) /\ c[1].step \in Nat /\ c = BatchAt(c[1].step)
                              /\ c[1].step + BatchSize <= n
    BY <2>1, BatchFacts DEF HistoryInv
  <2>3. Fingerprint(b) \notin e.batches
    <3>1. ASSUME NEW c \in history[t] PROVE Fingerprint(c) # Fingerprint(b)
      <4>1. c[1].step # n
        BY <2>2, <1>0, <1>1
      <4>2. QED
        BY <4>1 DEF Fingerprint
    <3>2. QED
      BY <3>1 DEF HistoryInv
  <2>4. /\ expected'[t].batches = e.batches \cup {Fingerprint(b)}
        /\ expected'[t].pointCount = e.pointCount + MetricCount(b)
    <3> DEFINE m == MapThenSumSet(LAMBDA i : Cardinality(DOMAIN b[i].metrics), DOMAIN b)
    <3>1. expected'[t] = [batches |-> e.batches \cup {Fingerprint(b)},
                          pointCount |-> e.pointCount + m,
                          steps |-> e.steps \cup {b[i].step : i \in DOMAIN b},
                          keys |-> e.keys \cup UNION {DOMAIN b[i].metrics : i \in DOMAIN b}]
      BY <2>3, Zenon DEF AddExpected
    <3> HIDE DEF m
    <3>2. expected'[t].batches = e.batches \cup {Fingerprint(b)} /\ expected'[t].pointCount = e.pointCount + m
      BY <3>1
    <3>3. QED
      BY <3>2 DEF m, MetricCount
  <2>5. SentPoints(t)' = SentPoints(t) \cup Ids(t, b)
    <3>1. SentPoints(t)' = SentOf(t, history[t] \cup {b}) /\ SentPoints(t) = SentOf(t, history[t])
      BY DEF SentPoints, SentOf
    <3>2. \A c \in history[t] : IsBatch(c, Int)
      BY <2>2
    <3>3. IsBatch(b, Int)
      BY <1>1
    <3>4. SentOf(t, history[t] \cup {b}) = SentOf(t, history[t]) \cup Ids(t, b)
      BY <3>2, <3>3, SentOfMore
    <3>5. QED
      BY <3>1, <3>4
  <2>6. /\ IsFiniteSet(Ids(t, b))
        /\ Cardinality(Ids(t, b)) = MetricCount(b)
        /\ \A x \in Ids(t, b) : x[3] \in n..(n + BatchSize - 1)
    <3> HIDE DEF n
    <3>1. QED
      BY <1>1, BatchCount
  <2>7. SentPoints(t) \cap Ids(t, b) = {}
    <3>1. SentPoints(t) = AllIds(t, history[t])
      BY <2>2, SentOfIds DEF SentPoints, SentOf
    <3>2. ASSUME NEW c \in history[t], NEW x \in Ids(t, c) PROVE x \notin Ids(t, b)
      <4>1. x[3] \in c[1].step..(c[1].step + BatchSize - 1)
        BY <2>2, BatchCount
      <4>2. x[3] < n
        BY <4>1, <2>2, <1>0, <1>1
      <4>3. QED
        BY <4>2, <2>6, <1>0, <1>1
    <3>3. QED
      BY <3>1, <3>2 DEF AllIds
  <2>8. /\ IsFiniteSet(SentPoints(t)')
        /\ Cardinality(SentPoints(t)') = Cardinality(SentPoints(t)) + Cardinality(Ids(t, b))
    <3>1. IsFiniteSet(SentPoints(t))
      BY DEF HistoryInv
    <3>2. /\ IsFiniteSet(SentPoints(t) \cup Ids(t, b))
          /\ Cardinality(SentPoints(t) \cup Ids(t, b))
               = Cardinality(SentPoints(t)) + Cardinality(Ids(t, b)) - Cardinality({})
      BY <3>1, <2>6, <2>7, FS_Union
    <3>3. Cardinality({}) = 0 /\ Cardinality(SentPoints(t)) \in Nat /\ Cardinality(Ids(t, b)) \in Nat
      BY <3>1, <2>6, FS_EmptySet, FS_CardinalityType
    <3>4. QED
      BY <3>2, <3>3, <2>5
  <2>9. expected'[t].pointCount = Cardinality(SentPoints(t)')
    BY <2>4, <2>6, <2>8 DEF HistoryInv
  <2>10. expected'[t].batches = {Fingerprint(c) : c \in history'[t]}
    BY <2>4 DEF HistoryInv
  <2>11. \A c \in history'[t] : /\ c[1].step \in Nat /\ c = BatchAt(c[1].step)
                                /\ c[1].step + BatchSize <= step'[t]
    BY <2>2, <1>0, <1>1, <2>1
  <2>12. QED
    BY <2>5, <2>8, <2>9, <2>10, <2>11, <1>2 DEF HistoryInv
<1>5. QED
  BY <1>3, <1>4

\* What stays true of the queue and the table when a goroutine has had a turn.
LEMMA SourceKept ==
    ASSUME Inv, NEW t \in SimTasks, phase = "posting", phase' = phase, points' = points,
           failures \subseteq failures',
           \A u \in SimTasks : history[u] \subseteq history'[u] /\ SentPoints(u) \subseteq SentPoints(u)',
           \A d \in queue' \ queue :
                d.body.task = t /\ (t \notin failures' => d.body.batch \in history'[t])
    PROVE  SourceInv'
<1>1. ASSUME NEW d \in queue'
      PROVE  /\ d.body.task \in SimTasks
             /\ d.body.task \notin failures' => d.body.batch \in history'[d.body.task]
  <2>1. CASE d \in queue
    BY <2>1 DEF Inv, SourceInv
  <2>2. CASE d \notin queue
    BY <2>2
  <2>3. QED
    BY <2>1, <2>2
<1>2. ASSUME NEW p \in points', p.task \in SimTasks \ failures'
      PROVE  Identity(p) \in SentPoints(p.task)'
  <2>1. p \in points /\ p.task \in SimTasks \ failures
    BY <1>2
  <2>2. Identity(p) \in SentPoints(p.task)
    BY <2>1 DEF Inv, SourceInv
  <2>3. QED
    BY <2>1, <2>2
<1>3. QED
  BY <1>1, <1>2 DEF SourceInv

\* A post answered with 200.
LEMMA PostAcceptedStep ==
    ASSUME Inv, NEW t \in SimTasks, NEW b \in {NextBatch(t)} \cup history[t], PostAccepted(t, b)
    PROVE  Inv'
<1> DEFINE r == PostRequest(t, b)
<1>1. /\ Turn(t) /\ Accepts(r) /\ Publish(r)
      /\ history' = [history EXCEPT ![t] = @ \cup {b}]
      /\ expected' = [expected EXCEPT ![t] = AddExpected(@, b)]
      /\ deadLetters' = deadLetters /\ points' = points /\ running' = running
      /\ failures' = failures /\ phase' = phase /\ audited' = audited /\ pass' = pass
  BY DEF PostAccepted, auditVars
<1>2. /\ phase = "posting"
      /\ DOMAIN step' = SimTasks /\ \A u \in SimTasks : step'[u] \in Nat /\ step[u] <= step'[u]
      /\ step'[t] = step[t] + BatchSize
  BY <1>1, TurnFacts
<1>3. IsBatch(b, Int) /\ IsBatch(b, Int \cup {Null})
  BY Postable DEF Inv
<1>4. PipelineInv'
  <2>1. r.batch = b
    BY DEF PostRequest
  <2> HIDE DEF r
  <2>2. QED
    BY <2>1, <1>1, <1>3, PublishStep DEF Inv
<1>5. DOMAIN history = SimTasks /\ DOMAIN expected = SimTasks
  BY DEF Inv, PhaseInv
<1>6. PhaseInv'
  BY <1>1, <1>2, <1>5 DEF Inv, PhaseInv
<1>7. ASSUME NEW u \in SimTasks
      PROVE  /\ HistoryInv(u)' /\ history[u] \subseteq history'[u]
             /\ SentPoints(u) \subseteq SentPoints(u)'
  <2>1. CASE u = t
    <3>1. history'[t] = history[t] \cup {b} /\ expected'[t] = AddExpected(expected[t], b)
      BY <1>1, <1>5
    <3>2. QED
      BY <2>1, <3>1, <1>2, ExpectedStep DEF Inv
  <2>2. CASE u # t
    <3>1. history'[u] = history[u] /\ expected'[u] = expected[u]
      BY <2>2, <1>1, <1>5
    <3>2. HistoryInv(u)'
      BY <3>1, <1>2, HistoryKept DEF Inv
    <3>3. SentPoints(u)' = SentPoints(u)
      BY <3>1 DEF SentPoints
    <3>4. QED
      BY <3>1, <3>2, <3>3
  <2>3. QED
    BY <2>1, <2>2
<1>8. \A d \in queue' \ queue : d.body.task = t /\ d.body.batch \in history'[t]
  <2>1. b \in history'[t]
    BY <1>1, <1>5
  <2>2. \A d \in queue' \ queue : d.body.task = t /\ d.body.batch = b
    BY <1>1, <1>3, PublishedBatch
  <2>3. QED
    BY <2>1, <2>2
<1>9. SourceInv'
  BY <1>1, <1>2, <1>7, <1>8, SourceKept
<1>10. AuditedInv'
  BY <1>1, <1>2 DEF AuditedInv
<1>11. QED
  BY <1>4, <1>6, <1>7, <1>9, <1>10 DEF Inv

\* A turn that changes neither history nor expectation.
LEMMA OtherTurnStep ==
    ASSUME Inv, NEW t \in SimTasks, phase = "posting", PipelineInv', PhaseInv',
           \A u \in SimTasks : step'[u] \in Nat /\ step[u] <= step'[u],
           points' = points, failures \subseteq failures',
           \A d \in queue' \ queue : d.body.task = t /\ t \in failures',
           UNCHANGED <<history, expected, phase>>
    PROVE  Inv'
<1>1. ASSUME NEW u \in SimTasks
      PROVE  HistoryInv(u)' /\ SentPoints(u)' = SentPoints(u)
  <2>1. HistoryInv(u)'
    BY HistoryKept DEF Inv
  <2>2. SentPoints(u)' = SentPoints(u)
    BY DEF SentPoints
  <2>3. QED
    BY <2>1, <2>2
<1>2. SourceInv'
  BY <1>1, SourceKept
<1>3. AuditedInv'
  BY DEF AuditedInv
<1>4. QED
  BY <1>1, <1>2, <1>3 DEF Inv

\* A batch that is not sent, a post that fails, the end of a goroutine.
LEMMA OtherTurns ==
    ASSUME Inv, NEW t \in SimTasks,
           \/ DropBatch(t)
           \/ \E b \in {NextBatch(t)} \cup history[t] : PostFails(t, b)
           \/ StopPosting(t)
    PROVE  Inv'
<1>1. CASE DropBatch(t)
  <2>1. Turn(t) /\ UNCHANGED <<pipelineVars, running, history, expected, failures, auditVars>>
    BY <1>1 DEF DropBatch
  <2>2. UNCHANGED <<queue, deadLetters, points, running, history, expected, failures, phase, audited, pass>>
    BY <2>1 DEF pipelineVars, auditVars
  <2>3. /\ phase = "posting"
        /\ DOMAIN step' = SimTasks /\ \A u \in SimTasks : step'[u] \in Nat /\ step[u] <= step'[u]
    BY <2>1, TurnFacts
  <2>4. PipelineInv'
    BY <2>2 DEF Inv, PipelineInv
  <2>5. PhaseInv'
    BY <2>2, <2>3 DEF Inv, PhaseInv
  <2>6. QED
    BY <2>2, <2>3, <2>4, <2>5, OtherTurnStep
<1>2. ASSUME NEW b \in {NextBatch(t)} \cup history[t], PostFails(t, b)
      PROVE  Inv'
  <2> DEFINE r == PostRequest(t, b)
  <2>1. /\ Turn(t) /\ ((Accepts(r) /\ Publish(r)) \/ queue' = queue)
        /\ running' = running \ {t} /\ failures' = failures \cup {t}
        /\ UNCHANGED <<deadLetters, points, history, expected, phase, audited, pass>>
    BY <1>2 DEF PostFails
  <2>2. /\ phase = "posting"
        /\ DOMAIN step' = SimTasks /\ \A u \in SimTasks : step'[u] \in Nat /\ step[u] <= step'[u]
    BY <2>1, TurnFacts
  <2>3. IsBatch(b, Int) /\ IsBatch(b, Int \cup {Null})
    BY Postable DEF Inv
  <2>4. PipelineInv'
    <3>1. CASE queue' = queue
      BY <3>1, <2>1 DEF Inv, PipelineInv
    <3>2. CASE Accepts(r) /\ Publish(r)
      <4>1. r.batch = b
        BY DEF PostRequest
      <4> HIDE DEF r
      <4>2. QED
        BY <4>1, <3>2, <2>1, <2>3, PublishStep DEF Inv
    <3>3. QED
      BY <3>1, <3>2, <2>1
  <2>5. PhaseInv'
    BY <2>1, <2>2 DEF Inv, PhaseInv
  <2>6. \A d \in queue' \ queue : d.body.task = t /\ t \in failures'
    BY <2>1, <2>3, PublishedBatch
  <2>7. QED
    BY <2>1, <2>2, <2>4, <2>5, <2>6, OtherTurnStep
<1>3. CASE StopPosting(t)
  <2>1. /\ t \in running /\ running' = running \ {t}
        /\ UNCHANGED <<queue, deadLetters, points, step, history, expected, failures, phase, audited, pass>>
    BY <1>3 DEF StopPosting, pipelineVars, auditVars
  <2>2. phase = "posting"
    BY <2>1 DEF Inv, PhaseInv
  <2>3. PipelineInv'
    BY <2>1 DEF Inv, PipelineInv
  <2>4. PhaseInv'
    BY <2>1, <2>2 DEF Inv, PhaseInv
  <2>5. \A u \in SimTasks : step'[u] \in Nat /\ step[u] <= step'[u]
    BY <2>1 DEF Inv, HistoryInv
  <2>6. QED
    BY <2>1, <2>2, <2>3, <2>4, <2>5, OtherTurnStep
<1>4. QED
  BY <1>1, <1>2, <1>3

\* compareAudit compares numbers only; that the table has nothing of the task
\* but what was accepted makes it enough.
LEMMA CountsDecide ==
    ASSUME Inv, NEW t \in SimTasks \ failures, phase # "off",
           Matches(expected[t], QueryAudit(points, t))
    PROVE  {Identity(p) : p \in OfTask(points, t)} = SentPoints(t)
<1> DEFINE S == OfTask(points, t)
           I == {Identity(p) : p \in S}
           f == [p \in S |-> Identity(p)]
<1>1. IsFiniteSet(S)
  <2>1. S \in SUBSET points
    BY DEF OfTask
  <2> HIDE DEF S
  <2>2. QED
    BY <2>1, FS_Subset DEF Inv, PipelineInv
<1>2. f \in Bijection(S, I)
  <2>1. f \in [S -> I]
    OBVIOUS
  <2>2. \A x \in I : \E p \in S : f[p] = x
    OBVIOUS
  <2>3. \A p, q \in S : f[p] = f[q] => p = q
    <3>1. \A p \in S : \A q \in S : Identity(p) = Identity(q) => p = q
      BY DEF OfTask, Inv, PipelineInv
    <3>2. \A p \in S : f[p] = Identity(p)
      OBVIOUS
    <3> HIDE DEF f, S
    <3>3. QED
      BY <3>1, <3>2
  <2> HIDE DEF f, I, S
  <2>4. QED
    BY <2>1, <2>2, <2>3 DEF Bijection, Injection, Surjection, IsInjective
<1>3. IsFiniteSet(I) /\ Cardinality(I) = Cardinality(S)
  <2> HIDE DEF f, I, S
  <2>1. QED
    BY <1>1, <1>2, FS_Bijection DEF ExistsBijection
<1>4. Cardinality(S) = expected[t].pointCount
  BY DEF Matches, QueryAudit
<1>5. IsFiniteSet(SentPoints(t)) /\ Cardinality(SentPoints(t)) = expected[t].pointCount
  BY DEF Inv, HistoryInv
<1>6. I \in SUBSET SentPoints(t)
  <2>1. ASSUME NEW p \in S PROVE Identity(p) \in SentPoints(t)
    BY DEF OfTask, Inv, SourceInv
  <2>2. QED
    BY <2>1
<1>7. I = SentPoints(t)
  <2> HIDE DEF I, S
  <2>1. QED
    BY <1>3, <1>4, <1>5, <1>6, FS_Subset
<1>8. QED
  BY <1>7

\* Steps of the report leave the pipeline and the goroutines alone.
LEMMA ReportStep ==
    ASSUME Inv, UNCHANGED <<pipelineVars, goroutineVars>>, PhaseInv', AuditedInv',
           phase' = "off" <=> phase = "off"
    PROVE  Inv'
<1>1. UNCHANGED <<queue, deadLetters, points, running, step, history, expected, failures>>
  BY DEF pipelineVars, goroutineVars
<1>2. PipelineInv'
  BY <1>1 DEF Inv, PipelineInv
<1>3. ASSUME NEW t \in SimTasks PROVE HistoryInv(t)' /\ SentPoints(t)' = SentPoints(t)
  <2>1. step'[t] \in Nat /\ step[t] <= step'[t]
    BY <1>1 DEF Inv, HistoryInv
  <2>2. HistoryInv(t)'
    BY <2>1, <1>1, HistoryKept DEF Inv
  <2>3. SentPoints(t)' = SentPoints(t)
    BY <1>1 DEF SentPoints
  <2>4. QED
    BY <2>2, <2>3
<1>4. SourceInv'
  BY <1>1, <1>3 DEF Inv, SourceInv
<1>5. QED
  BY <1>2, <1>3, <1>4 DEF Inv

\* An audit of a task: a comparison or a failed call.
LEMMA AuditStep ==
    ASSUME Inv, NEW t \in SimTasks, CompareAudit(t) \/ AuditCallFails(t)
    PROVE  Inv'
<1>1. /\ phase = "auditing" /\ phase' = phase
      /\ audited' = audited \cup {t}
      /\ \/ pass' = [pass EXCEPT ![t] = Matches(expected[t], QueryAudit(points, t))]
         \/ pass' = [pass EXCEPT ![t] = FALSE]
      /\ UNCHANGED <<pipelineVars, goroutineVars>>
  BY DEF CompareAudit, AuditCallFails, NextToAudit
<1>2. UNCHANGED <<points, running, step, history, expected, failures>>
  BY <1>1 DEF pipelineVars, goroutineVars
<1>3. DOMAIN pass = SimTasks /\ DOMAIN pass' = SimTasks
  BY <1>1 DEF Inv, PhaseInv
<1>4. PhaseInv'
  BY <1>1, <1>2, <1>3 DEF Inv, PhaseInv
<1>5. AuditedInv'
  <2>1. SUFFICES ASSUME NEW u \in audited' \ failures', pass'[u]
                 PROVE  {Identity(p) : p \in OfTask(points, u)} = SentPoints(u)
    <3>1. \A u \in SimTasks : SentPoints(u)' = SentPoints(u)
      BY <1>2 DEF SentPoints
    <3>2. audited' \subseteq SimTasks
      BY <1>4 DEF PhaseInv
    <3>3. QED
      BY <1>2, <3>1, <3>2 DEF AuditedInv
  <2>2. CASE u = t
    <3>1. Matches(expected[t], QueryAudit(points, t))
      BY <2>1, <2>2, <1>1, <1>3
    <3>2. QED
      BY <3>1, <2>1, <2>2, <1>1, <1>2, CountsDecide
  <2>3. CASE u # t
    <3>1. u \in audited \ failures /\ pass[u]
      <4>1. u \in audited \ failures /\ u \in SimTasks
        BY <2>1, <2>3, <1>1, <1>2 DEF Inv, PhaseInv
      <4>2. pass'[u] = pass[u]
        BY <4>1, <2>3, <1>1, <1>3
      <4>3. QED
        BY <4>1, <4>2, <2>1
    <3>2. QED
      BY <3>1, <1>1 DEF Inv, AuditedInv
  <2>4. QED
    BY <2>2, <2>3
<1>6. QED
  BY <1>1, <1>4, <1>5, ReportStep

\* The other steps of the report.
LEMMA ReportSteps ==
    ASSUME Inv, CollectReport \/ AllAuditResultsPass \/ NextRound \/ GiveUp
    PROVE  Inv'
<1>1. UNCHANGED <<pipelineVars, goroutineVars>>
  BY DEF CollectReport, AllAuditResultsPass, NextRound, GiveUp
<1>2. UNCHANGED <<points, running, step, history, expected, failures>>
  BY <1>1 DEF pipelineVars, goroutineVars
<1>3. \A t \in SimTasks : SentPoints(t)' = SentPoints(t)
  BY <1>2 DEF SentPoints
<1>4. CASE CollectReport
  <2>1. /\ phase = "posting" /\ running = {} /\ audited' = audited /\ pass' = pass
        /\ phase' = IF Audit THEN "auditing" ELSE "done"
    BY <1>4 DEF CollectReport
  <2>2. audited' = {} /\ phase' \in {"auditing", "done"} /\ (Audit => phase' # "done")
    BY <2>1 DEF Inv, PhaseInv
  <2>3. PhaseInv'
    BY <2>1, <2>2, <1>2 DEF Inv, PhaseInv
  <2>4. AuditedInv'
    BY <2>2 DEF AuditedInv
  <2>5. QED
    BY <2>1, <2>2, <2>3, <2>4, <1>1, ReportStep
<1>5. CASE AllAuditResultsPass \/ GiveUp
  <2>1. /\ phase = "auditing" /\ audited = SimTasks /\ audited' = audited
        /\ phase' = "done" /\ pass' = pass
    BY <1>5 DEF AllAuditResultsPass, GiveUp, RoundOver
  <2>2. PhaseInv'
    BY <2>1, <1>2 DEF Inv, PhaseInv
  <2>3. AuditedInv'
    BY <2>1, <1>2, <1>3 DEF Inv, AuditedInv
  <2>4. QED
    BY <2>1, <2>2, <2>3, <1>1, ReportStep
<1>6. CASE NextRound
  <2>1. /\ phase = "auditing" /\ audited' = {} /\ phase' = phase
        /\ pass' = [t \in SimTasks |-> TRUE]
    BY <1>6 DEF NextRound, RoundOver
  <2>2. PhaseInv'
    BY <2>1, <1>2 DEF Inv, PhaseInv
  <2>3. AuditedInv'
    BY <2>1 DEF AuditedInv
  <2>4. QED
    BY <2>1, <2>2, <2>3, <1>1, ReportStep
<1>7. QED
  BY <1>4, <1>5, <1>6

\* The invariant holds at the start.
LEMMA InvInit == Init => Inv
<1> SUFFICES ASSUME Init PROVE Inv
  OBVIOUS
<1>2. PipelineInv
  BY FS_EmptySet DEF Init, PipelineInit, PipelineInv
<1>3. PhaseInv
  BY DEF Init, PhaseInv
<1>4. ASSUME NEW t \in SimTasks PROVE HistoryInv(t)
  <2>1. step[t] = 0 /\ history[t] = {} /\ expected[t].batches = {} /\ expected[t].pointCount = 0
    BY DEF Init
  <2>2. SentPoints(t) = {}
    BY <2>1 DEF SentPoints
  <2>3. QED
    BY <2>1, <2>2, FS_EmptySet DEF HistoryInv
<1>5. SourceInv /\ AuditedInv
  BY DEF Init, PipelineInit, SourceInv, AuditedInv
<1>6. QED
  BY <1>2, <1>3, <1>4, <1>5 DEF Inv

\* Every step keeps the invariant.
LEMMA InvStep == Inv /\ [Next]_vars => Inv'
<1> SUFFICES ASSUME Inv, [Next]_vars PROVE Inv'
  OBVIOUS
<1>2. CASE PipelineNext /\ UNCHANGED simulatorVars
  BY <1>2, WorkerStep
<1>3. ASSUME NEW r \in Requests, phase = "off", IngestMetrics(r), UNCHANGED simulatorVars
      PROVE  Inv'
  <2>1. PipelineInv'
    BY <1>3, PublishStep, PipelineAssumption DEF IngestMetrics, Inv
  <2>2. QED
    BY <1>3, <2>1, ClientStep
<1>4. ASSUME NEW d \in Foreign, phase = "off", PublishForeign(d), UNCHANGED simulatorVars
      PROVE  Inv'
  <2>1. PipelineInv'
    BY <1>4, PipelineAssumption DEF PublishForeign, Inv, PipelineInv
  <2>2. QED
    BY <1>4, <2>1, ClientStep
<1>5. ASSUME NEW t \in SimTasks, NEW b \in {NextBatch(t)} \cup history[t], PostAccepted(t, b)
      PROVE  Inv'
  BY <1>5, PostAcceptedStep
<1>6. ASSUME NEW t \in SimTasks,
             \/ DropBatch(t)
             \/ \E b \in {NextBatch(t)} \cup history[t] : PostFails(t, b)
             \/ StopPosting(t)
      PROVE  Inv'
  BY <1>6, OtherTurns
<1>7. ASSUME NEW t \in SimTasks, CompareAudit(t) \/ AuditCallFails(t) PROVE Inv'
  BY <1>7, AuditStep
<1>8. CASE CollectReport \/ AllAuditResultsPass \/ NextRound \/ GiveUp
  BY <1>8, ReportSteps
<1>9. CASE UNCHANGED vars
  <2>1. UNCHANGED <<pipelineVars, goroutineVars, phase, audited, pass>>
    BY <1>9 DEF vars, simulatorVars, goroutineVars
  <2>2. UNCHANGED <<points, running, step, history, expected, failures>>
    BY <2>1 DEF pipelineVars, goroutineVars
  <2>3. PhaseInv'
    BY <2>1, <2>2 DEF Inv, PhaseInv
  <2>4. AuditedInv'
    <3>1. \A t \in SimTasks : SentPoints(t)' = SentPoints(t)
      BY <2>2 DEF SentPoints
    <3>2. audited \subseteq SimTasks
      BY DEF Inv, PhaseInv
    <3>3. QED
      BY <3>1, <3>2, <2>1, <2>2 DEF Inv, AuditedInv
  <2>5. QED
    BY <2>1, <2>3, <2>4, ReportStep
<1>10. QED
  BY <1>2, <1>3, <1>4, <1>5, <1>6, <1>7, <1>8, <1>9, Zenon DEF Next

\* The invariant is one.
LEMMA InvInvariant == Spec => []Inv
<1>1. QED
  BY InvInit, InvStep, PTL DEF Spec

-----------------------------------------------------------------------------
(* Extremes of finite sets, on which the queries are built.                 *)

\* A finite set has a minimal element for any strict order.
LEMMA MinimalElement ==
    ASSUME NEW S, IsFiniteSet(S), S # {}, NEW R,
           \A x \in S : <<x, x>> \notin R,
           \A x \in S : \A y \in S : \A z \in S : <<x, y>> \in R /\ <<y, z>> \in R => <<x, z>> \in R
    PROVE  \E x \in S : \A y \in S : <<y, x>> \notin R
<1> DEFINE Below(x) == {y \in S : <<y, x>> \in R}
           Family == {Below(x) : x \in S}
<1>1. Family \subseteq SUBSET S /\ Family # {}
  <2>1. PICK x : x \in S
    OBVIOUS
  <2>2. Below(x) \in Family
    BY <2>1
  <2>3. \A y \in S : Below(y) \in SUBSET S
    OBVIOUS
  <2> HIDE DEF Below
  <2>4. QED
    BY <2>2, <2>3
<1>2. IsWellFoundedOn(StrictSubsetOrdering(S), SUBSET S)
  BY FS_StrictSubsetOrderingWellFounded, FS_FiniteSubsetsOfFinite
<1>3. PICK U \in Family : \A V \in Family : ~(<<V, U>> \in StrictSubsetOrdering(S))
  <2> HIDE DEF Family
  <2>1. QED
    BY <1>1, <1>2, WFMin
<1> HIDE DEF Family
<1>4. PICK x \in S : U = Below(x)
  BY <1>3 DEF Family
<1>5. ASSUME NEW y \in S, <<y, x>> \in R PROVE FALSE
  <2>1. Below(y) \in Family
    BY DEF Family
  <2>2. Below(y) \subseteq Below(x) /\ y \in Below(x) /\ y \notin Below(y)
    BY <1>5
  <2>3. <<Below(y), U>> \in StrictSubsetOrdering(S)
    BY <2>1, <2>2, <1>1, <1>3, <1>4 DEF StrictSubsetOrdering
  <2>4. QED
    BY <2>1, <2>3, <1>3
<1>6. QED
  BY <1>5

\* Min and Max of a finite set of numbers.
LEMMA MinMax ==
    ASSUME NEW S \in SUBSET Int, IsFiniteSet(S), S # {}
    PROVE  /\ Min(S) \in S /\ \A y \in S : Min(S) <= y
           /\ Max(S) \in S /\ \A y \in S : Max(S) >= y
<1>1. \E x \in S : \A y \in S : x <= y
  <2> DEFINE R == {e \in S \X S : e[1] < e[2]}
  <2>1. ASSUME NEW x \in S, NEW y \in S PROVE <<x, y>> \in R <=> x < y
    <3>1. <<x, y>> \in S \X S /\ <<x, y>>[1] = x /\ <<x, y>>[2] = y
      OBVIOUS
    <3>2. QED
      BY <3>1, Zenon
  <2>2. \A x \in S : x \in Int
    OBVIOUS
  <2> HIDE DEF R
  <2>3. \A x \in S : <<x, x>> \notin R
    BY <2>1, <2>2
  <2>4. \A x \in S : \A y \in S : \A z \in S : <<x, y>> \in R /\ <<y, z>> \in R => <<x, z>> \in R
    BY <2>1, <2>2
  <2>5. PICK x \in S : \A y \in S : <<y, x>> \notin R
    BY <2>3, <2>4, MinimalElement
  <2>6. ASSUME NEW y \in S PROVE x <= y
    <3>1. ~(y < x)
      BY <2>1, <2>5, Zenon
    <3>2. QED
      BY <3>1, <2>2
  <2>7. QED
    BY <2>6
<1>2. \E x \in S : \A y \in S : x >= y
  <2> DEFINE R == {e \in S \X S : e[1] > e[2]}
  <2>1. ASSUME NEW x \in S, NEW y \in S PROVE <<x, y>> \in R <=> x > y
    <3>1. <<x, y>> \in S \X S /\ <<x, y>>[1] = x /\ <<x, y>>[2] = y
      OBVIOUS
    <3>2. QED
      BY <3>1, Zenon
  <2>2. \A x \in S : x \in Int
    OBVIOUS
  <2> HIDE DEF R
  <2>3. \A x \in S : <<x, x>> \notin R
    BY <2>1, <2>2
  <2>4. \A x \in S : \A y \in S : \A z \in S : <<x, y>> \in R /\ <<y, z>> \in R => <<x, z>> \in R
    BY <2>1, <2>2
  <2>5. PICK x \in S : \A y \in S : <<y, x>> \notin R
    BY <2>3, <2>4, MinimalElement
  <2>6. ASSUME NEW y \in S PROVE x >= y
    <3>1. ~(y > x)
      BY <2>1, <2>5, Zenon
    <3>2. QED
      BY <3>1, <2>2
  <2>7. QED
    BY <2>6
<1>3. Min(S) \in S /\ \A y \in S : Min(S) <= y
  BY <1>1 DEF Min
<1>4. Max(S) \in S /\ \A y \in S : Max(S) >= y
  BY <1>2 DEF Max
<1>5. QED
  BY <1>3, <1>4

\* The least and the greatest element are unique.
LEMMA MinMaxUnique ==
    ASSUME NEW S \in SUBSET Int, NEW x \in S
    PROVE  /\ (\A y \in S : x <= y) => Min(S) = x
           /\ (\A y \in S : x >= y) => Max(S) = x
<1>1. ASSUME \A y \in S : x <= y PROVE Min(S) = x
  <2>1. Min(S) \in S /\ \A y \in S : Min(S) <= y
    BY <1>1 DEF Min
  <2>2. x \in Int /\ Min(S) \in Int /\ x <= Min(S) /\ Min(S) <= x
    BY <2>1, <1>1
  <2>3. QED
    BY <2>2
<1>2. ASSUME \A y \in S : x >= y PROVE Max(S) = x
  <2>1. Max(S) \in S /\ \A y \in S : Max(S) >= y
    BY <1>2 DEF Max
  <2>2. x \in Int /\ Max(S) \in Int /\ x >= Max(S) /\ Max(S) >= x
    BY <2>1, <1>2
  <2>3. QED
    BY <2>2
<1>3. QED
  BY <1>1, <1>2

\* The image of a finite set is finite and no larger.
LEMMA ImageFinite ==
    ASSUME NEW S, IsFiniteSet(S), NEW f
    PROVE  /\ IsFiniteSet({f[x] : x \in S})
           /\ Cardinality({f[x] : x \in S}) <= Cardinality(S)
<1> DEFINE T == {f[x] : x \in S}
           g == [x \in S |-> f[x]]
<1>1. g \in [S -> T] /\ \A y \in T : \E x \in S : g[x] = y
  OBVIOUS
<1> HIDE DEF g, T
<1>2. g \in Surjection(S, T)
  BY <1>1 DEF Surjection
<1>3. IsFiniteSet(T) /\ Cardinality(T) <= Cardinality(S)
  BY <1>2, FS_Surjection
<1>4. QED
  BY <1>3 DEF T

-----------------------------------------------------------------------------
(* Points in the order of (ts, step).                                       *)

\* Points that (ts, step) tells apart, as it does those of one task and key.
IsSeries(K) ==
    /\ K \subseteq Points /\ IsFiniteSet(K)
    /\ \A p \in K : \A q \in K : p.ts = q.ts /\ p.step = q.step => p = q

\* The numbers of a point.
LEMMA PointFacts ==
    ASSUME NEW p \in Points
    PROVE  p.ts \in Int /\ p.step \in Int /\ p.value \in Int
BY CodecAssumption DEF Points

\* Earlier is a strict order.
LEMMA EarlierOrders ==
    ASSUME NEW p \in Points, NEW q \in Points, NEW r \in Points
    PROVE  /\ ~Earlier(p, p)
           /\ Earlier(p, q) /\ Earlier(q, r) => Earlier(p, r)
           /\ Earlier(p, q) \/ Earlier(q, p) \/ (p.ts = q.ts /\ p.step = q.step)
BY PointFacts DEF Earlier

\* first_value: every bucket has a first point.
LEMMA FirstFacts ==
    ASSUME NEW B, IsSeries(B), B # {}
    PROVE  First(B) \in B
<1> DEFINE R == {e \in B \X B : Earlier(e[1], e[2])}
<1>1. ASSUME NEW x \in B, NEW y \in B PROVE <<x, y>> \in R <=> Earlier(x, y)
  <2>1. <<x, y>> \in B \X B /\ <<x, y>>[1] = x /\ <<x, y>>[2] = y
    OBVIOUS
  <2>2. QED
    BY <2>1, Zenon
<1>2. \A x \in B : x \in Points
  BY DEF IsSeries
<1> HIDE DEF R
<1>3. ASSUME NEW x \in B PROVE <<x, x>> \notin R
  BY <1>1, <1>2, EarlierOrders
<1>4. ASSUME NEW x \in B, NEW y \in B, NEW z \in B, <<x, y>> \in R, <<y, z>> \in R
      PROVE  <<x, z>> \in R
  BY <1>1, <1>2, <1>4, EarlierOrders
<1>5. PICK x \in B : \A y \in B : <<y, x>> \notin R
  BY <1>3, <1>4, MinimalElement DEF IsSeries
<1>6. ASSUME NEW y \in B \ {x} PROVE Earlier(x, y)
  <2>1. ~Earlier(y, x)
    BY <1>1, <1>5, Zenon
  <2>2. ~(x.ts = y.ts /\ x.step = y.step)
    BY DEF IsSeries
  <2>3. QED
    BY <2>1, <2>2, <1>2, EarlierOrders
<1>7. QED
  BY <1>6 DEF First

\* key_latest and task_latest: there is a latest point.
LEMMA LatestFacts ==
    ASSUME NEW B \in SUBSET Points, IsFiniteSet(B), B # {}
    PROVE  Latest(B) \in B /\ \A q \in B : ~Earlier(Latest(B), q)
<1> DEFINE R == {e \in B \X B : Earlier(e[2], e[1])}
<1>1. ASSUME NEW x \in B, NEW y \in B PROVE <<x, y>> \in R <=> Earlier(y, x)
  <2>1. <<x, y>> \in B \X B /\ <<x, y>>[1] = x /\ <<x, y>>[2] = y
    OBVIOUS
  <2>2. QED
    BY <2>1, Zenon
<1>2. \A x \in B : x \in Points
  OBVIOUS
<1> HIDE DEF R
<1>3. ASSUME NEW x \in B PROVE <<x, x>> \notin R
  BY <1>1, <1>2, EarlierOrders
<1>4. ASSUME NEW x \in B, NEW y \in B, NEW z \in B, <<x, y>> \in R, <<y, z>> \in R
      PROVE  <<x, z>> \in R
  BY <1>1, <1>2, <1>4, EarlierOrders
<1>5. PICK x \in B : \A y \in B : <<y, x>> \notin R
  BY <1>3, <1>4, MinimalElement
<1>6. ASSUME NEW y \in B PROVE ~Earlier(x, y)
  BY <1>1, <1>5, Zenon
<1>7. QED
  BY <1>6 DEF Latest

\* A part of a series is one.
LEMMA SubSeries ==
    ASSUME NEW K, IsSeries(K), NEW B \in SUBSET K
    PROVE  IsSeries(B)
<1>1. IsFiniteSet(B)
  BY FS_Subset DEF IsSeries
<1>2. QED
  BY <1>1 DEF IsSeries

\* Times and values of a set of points.
LEMMA TimesAndValues ==
    ASSUME NEW B \in SUBSET Points, IsFiniteSet(B), B # {}
    PROVE  /\ Times(B) \in SUBSET Int /\ IsFiniteSet(Times(B)) /\ Times(B) # {}
           /\ Values(B) \in SUBSET Int /\ IsFiniteSet(Values(B)) /\ Values(B) # {}
<1>1. Times(B) \in SUBSET Int /\ Values(B) \in SUBSET Int
  BY PointFacts DEF Times, Values
<1>2. Times(B) # {} /\ Values(B) # {}
  BY DEF Times, Values
<1>3. IsFiniteSet(Times(B))
  <2> DEFINE f == [p \in B |-> p.ts]
  <2>1. Times(B) = {f[p] : p \in B}
    BY DEF Times
  <2> HIDE DEF f
  <2>2. QED
    BY <2>1, ImageFinite
<1>4. IsFiniteSet(Values(B))
  <2> DEFINE f == [p \in B |-> p.value]
  <2>1. Values(B) = {f[p] : p \in B}
    BY DEF Values
  <2> HIDE DEF f
  <2>2. QED
    BY <2>1, ImageFinite
<1>5. QED
  BY <1>1, <1>2, <1>3, <1>4

-----------------------------------------------------------------------------
(* The series of a key: its points in parts, each aggregated to one.        *)

\* The sum of the counts in a series.
SumCount(Z) == MapThenSumSet(LAMBDA b : b.count, Z)

\* The sum that an average is made of.
SumValue(B) == MapThenSumSet(LAMBDA p : p.value, B)

\* Counts of disjoint sets add up to the size of their union.
LEMMA CountsAddUp ==
    ASSUME NEW Z, IsFiniteSet(Z), NEW D,
           \A z \in Z : IsFiniteSet(D[z]) /\ z.count = Cardinality(D[z]),
           \A y \in Z : \A z \in Z : y # z => D[y] \cap D[z] = {}
    PROVE  SumCount(Z) = Cardinality(UnionOf(D, Z))
<1> DEFINE c == [z \in Z |-> z.count]
           F(g) == [s \in SUBSET Z |->
                      IF s = {} THEN 0
                      ELSE (CHOOSE x \in s : TRUE).count + g[s \ {CHOOSE x \in s : TRUE}]]
           h == CHOOSE g : g = F(g)
<1>1. \A z \in Z : c[z] = z.count
  OBVIOUS
<1> HIDE DEF c
<1>2. /\ \E g : IsSum(g, Z, c)
      /\ \A g : IsSum(g, Z, c) => g[Z] = Cardinality(UnionOf(D, Z))
  <2>1. \A z \in Z : IsFiniteSet(D[z]) /\ c[z] = Cardinality(D[z])
    BY <1>1
  <2>2. QED
    BY <2>1, SumOfDisjoint
<1>3. SumCount(Z) = h[Z]
  BY Zenon DEF SumCount, MapThenSumSet, MapThenFoldSet
<1>4. ASSUME NEW g PROVE g = F(g) <=> IsSum(g, Z, c)
  <2>1. ASSUME NEW s \in SUBSET Z, s # {}
        PROVE  (CHOOSE x \in s : TRUE).count = c[CHOOSE x \in s : TRUE]
    <3>1. (CHOOSE x \in s : TRUE) \in s
      BY <2>1
    <3>2. QED
      BY <3>1, <1>1
  <2>2. QED
    BY <2>1 DEF IsSum
<1> HIDE DEF F
<1>5. h = F(h)
  BY <1>2, <1>4
<1> HIDE DEF h
<1>6. QED
  BY <1>2, <1>3, <1>4, <1>5

\* The average of one point is its value.
LEMMA SumOfOne ==
    ASSUME NEW p \in Points
    PROVE  SumValue({p}) = p.value
<1> DEFINE F(g) == [s \in SUBSET {p} |->
                      IF s = {} THEN 0
                      ELSE (CHOOSE x \in s : TRUE).value + g[s \ {CHOOSE x \in s : TRUE}]]
           h == CHOOSE g : g = F(g)
           w == [s \in SUBSET {p} |-> IF s = {} THEN 0 ELSE p.value]
<1>1. SumValue({p}) = h[{p}]
  BY Zenon DEF SumValue, MapThenSumSet, MapThenFoldSet
<1>2. p.value \in Int
  BY PointFacts
<1>3. ASSUME NEW s \in SUBSET {p}, s # {}
      PROVE  s = {p} /\ (CHOOSE x \in s : TRUE) = p /\ s \ {CHOOSE x \in s : TRUE} = {}
  <2>1. s = {p}
    BY <1>3
  <2>2. (CHOOSE x \in s : TRUE) \in s
    BY <1>3
  <2>3. QED
    BY <2>1, <2>2
<1>4. w = F(w)
  <2>1. ASSUME NEW s \in SUBSET {p} PROVE w[s] = F(w)[s]
    <3>1. CASE s = {}
      BY <3>1
    <3>2. CASE s # {}
      <4>1. w[s] = p.value /\ w[s \ {CHOOSE x \in s : TRUE}] = 0
        BY <3>2, <1>3
      <4>2. F(w)[s] = (CHOOSE x \in s : TRUE).value + w[s \ {CHOOSE x \in s : TRUE}]
        BY <3>2
      <4>3. QED
        BY <4>1, <4>2, <3>2, <1>2, <1>3
    <3>3. QED
      BY <3>1, <3>2
  <2>2. QED
    BY <2>1
<1>5. h = F(h)
  <2> HIDE DEF F, w
  <2>1. QED
    BY <1>4
<1> HIDE DEF h
<1>6. h[{}] = 0
  BY <1>5
<1>7. h[{p}] = p.value + h[{}]
  <2>1. h[{p}] = (CHOOSE x \in {p} : TRUE).value + h[{p} \ {CHOOSE x \in {p} : TRUE}]
    BY <1>5
  <2>2. QED
    BY <2>1, <1>3
<1>8. QED
  BY <1>1, <1>2, <1>6, <1>7

\* The parts of a set: none empty, no two with a point in common.
IsPartition(P, K) ==
    /\ P \subseteq SUBSET K /\ {} \notin P /\ UNION P = K
    /\ \A A \in P : \A B \in P : A # B => A \cap B = {}

\* The parts, aggregated.
Aggregates(P) == {Aggregate(B) : B \in P}

\* What an aggregate tells of its part, which is known by its first point.
LEMMA AggregateFacts ==
    ASSUME NEW K, IsSeries(K), NEW P, IsPartition(P, K)
    PROVE  /\ \A B \in P : IsSeries(B) /\ B # {} /\ B \in SUBSET K
                           /\ Aggregate(B).count = Cardinality(B)
                           /\ First(B) \in B
                           /\ Aggregate(B).ts = First(B).ts
                           /\ Aggregate(B).step = First(B).step
           /\ \A A \in P : \A B \in P : Aggregate(A) = Aggregate(B) => A = B
<1>1. ASSUME NEW B \in P
      PROVE  /\ IsSeries(B) /\ B # {} /\ B \in SUBSET K
             /\ Aggregate(B).count = Cardinality(B)
             /\ First(B) \in B
             /\ Aggregate(B).ts = First(B).ts
             /\ Aggregate(B).step = First(B).step
  <2>1. B \in SUBSET K /\ B # {}
    BY DEF IsPartition
  <2>2. IsSeries(B)
    BY <2>1, SubSeries
  <2>3. First(B) \in B
    BY <2>1, <2>2, FirstFacts
  <2>4. QED
    BY <2>1, <2>2, <2>3 DEF Aggregate
<1>2. ASSUME NEW A \in P, NEW B \in P, Aggregate(A) = Aggregate(B) PROVE A = B
  <2>1. /\ First(A) \in A /\ First(A) \in K /\ First(B) \in B /\ First(B) \in K
        /\ First(A).ts = First(B).ts /\ First(A).step = First(B).step
    BY <1>1, <1>2
  <2>2. First(A) = First(B)
    BY <2>1 DEF IsSeries
  <2>3. QED
    BY <2>1, <2>2 DEF IsPartition
<1>3. QED
  BY <1>1, <1>2

\* A series has no more entries than the key has parts and stands for all of
\* its points.
LEMMA SeriesCounts ==
    ASSUME NEW K, IsSeries(K), NEW P, IsPartition(P, K)
    PROVE  /\ IsFiniteSet(P) /\ IsFiniteSet(Aggregates(P))
           /\ Cardinality(Aggregates(P)) <= Cardinality(P)
           /\ SumCount(Aggregates(P)) = Cardinality(K)
<1>1. IsFiniteSet(P)
  <2>1. IsFiniteSet(SUBSET K)
    BY FS_SUBSET DEF IsSeries
  <2>2. P \in SUBSET (SUBSET K)
    BY DEF IsPartition
  <2>3. QED
    BY <2>1, <2>2, FS_Subset
<1>2. IsFiniteSet(Aggregates(P)) /\ Cardinality(Aggregates(P)) <= Cardinality(P)
  <2> DEFINE f == [B \in P |-> Aggregate(B)]
  <2>1. Aggregates(P) = {f[B] : B \in P}
    BY DEF Aggregates
  <2> HIDE DEF f
  <2>2. QED
    BY <1>1, <2>1, ImageFinite
<1> DEFINE Z == Aggregates(P)
           Part(z) == CHOOSE B \in P : Aggregate(B) = z
           D == [z \in Z |-> Part(z)]
<1>3. ASSUME NEW z \in Z PROVE Part(z) \in P /\ Aggregate(Part(z)) = z
  BY DEF Aggregates
<1>4. \A z \in Z : D[z] = Part(z)
  OBVIOUS
<1>5. ASSUME NEW B \in P PROVE Aggregate(B) \in Z /\ Part(Aggregate(B)) = B
  <2>1. Aggregate(B) \in Z
    BY DEF Aggregates
  <2> HIDE DEF Z, Part
  <2>2. QED
    BY <2>1, <1>3, AggregateFacts
<1> HIDE DEF Z, Part, D
<1>6. \A z \in Z : IsFiniteSet(D[z]) /\ z.count = Cardinality(D[z])
  <2>1. ASSUME NEW z \in Z PROVE IsFiniteSet(D[z]) /\ z.count = Cardinality(D[z])
    <3>1. IsSeries(Part(z)) /\ Aggregate(Part(z)).count = Cardinality(Part(z))
      BY <1>3, AggregateFacts
    <3>2. QED
      BY <3>1, <1>3, <1>4 DEF IsSeries
  <2>2. QED
    BY <2>1
<1>7. \A y \in Z : \A z \in Z : y # z => D[y] \cap D[z] = {}
  BY <1>3, <1>4 DEF IsPartition
<1>8. SumCount(Z) = Cardinality(UnionOf(D, Z))
  <2>1. IsFiniteSet(Z)
    BY <1>2 DEF Z
  <2>2. QED
    BY <2>1, <1>6, <1>7, CountsAddUp
<1>9. UnionOf(D, Z) = K
  <2>1. UnionOf(D, Z) \subseteq K
    BY <1>3, <1>4 DEF UnionOf, IsPartition
  <2>2. ASSUME NEW p \in K PROVE p \in UnionOf(D, Z)
    <3>1. PICK B \in P : p \in B
      BY DEF IsPartition
    <3>2. Aggregate(B) \in Z /\ D[Aggregate(B)] = B
      BY <1>4, <1>5
    <3>3. QED
      BY <3>1, <3>2 DEF UnionOf
  <2>3. QED
    BY <2>1, <2>2
<1>10. QED
  BY <1>1, <1>2, <1>8, <1>9 DEF Z

-----------------------------------------------------------------------------
(* Downsampling.                                                            *)

\* Division by a positive number.
LEMMA Division ==
    ASSUME NEW a \in Int, NEW s \in Nat \ {0}
    PROVE  /\ a \div s \in Int
           /\ s * (a \div s) <= a
           /\ a < s * (a \div s) + s
OBVIOUS

\* A product grows with its factor.
LEMMA ProductMonotone ==
    ASSUME NEW s \in Nat, NEW a \in Int, NEW b \in Int, a <= b
    PROVE  s * a <= s * b
OBVIOUS

\* Products commute.
LEMMA ProductCommutes ==
    ASSUME NEW a \in Int, NEW b \in Int
    PROVE  a * b = b * a
OBVIOUS

\* date_bin of what is less than n widths is one of n bins.
LEMMA DivisionBound ==
    ASSUME NEW d \in Nat, NEW n \in Nat \ {0}, NEW m \in Nat \ {0}, d < n * m
    PROVE  d \div m \in 0..(n - 1)
<1> DEFINE e == d \div m
<1>1. e \in Int /\ m * e <= d /\ d < m * e + m
  BY Division
<1> HIDE DEF e
<1>2. e >= 0
  <2>1. SUFFICES ASSUME e <= -1 PROVE FALSE
    BY <1>1
  <2>2. m * e <= m * (-1)
    BY <1>1, <2>1, ProductMonotone
  <2>3. m * (-1) = -m
    OBVIOUS
  <2>4. m * e \in Int
    BY <1>1
  <2>5. QED
    BY <1>1, <2>2, <2>3, <2>4
<1>3. e <= n - 1
  <2>1. SUFFICES ASSUME n <= e PROVE FALSE
    BY <1>1
  <2>2. m * n <= m * e
    BY <1>1, <2>1, ProductMonotone
  <2>3. m * n = n * m /\ m * n \in Int /\ m * e \in Int
    BY <1>1, ProductCommutes
  <2>4. QED
    BY <1>1, <2>2, <2>3
<1>4. QED
  BY <1>1, <1>2, <1>3 DEF e

\* CEIL((span + 1) / n): n buckets of the width hold every millisecond.
LEMMA WidthCovers ==
    ASSUME NEW x \in Nat, NEW n \in Nat \ {0}
    PROVE  LET w == (x + 1 + n - 1) \div n
           IN  w \in Int /\ x < n * w
<1> DEFINE w == (x + 1 + n - 1) \div n
<1>1. x + 1 + n - 1 = x + n /\ x + n \in Int
  OBVIOUS
<1>2. w \in Int /\ x + n < n * w + n
  BY <1>1, Division
<1> HIDE DEF w
<1>3. n * w \in Int
  BY <1>2
<1>4. w \in Int /\ x < n * w
  BY <1>2, <1>3
<1>5. QED
  BY <1>4 DEF w

\* bucket_config: buckets of at least the width of a key cut it into n.
LEMMA BinsFit ==
    ASSUME NEW K \in SUBSET Points, IsFiniteSet(K), K # {}, NEW n \in Nat \ {0}
    PROVE  /\ BucketWidth(K, n) \in Nat \ {0}
           /\ \A ms \in Nat : ms >= BucketWidth(K, n) =>
                \A p \in K : Bin(K, ms, p) \in 0..(n - 1)
<1>1. /\ Min(Times(K)) \in Int /\ Max(Times(K)) \in Int
      /\ \A p \in K : p.ts \in Int /\ Min(Times(K)) <= p.ts /\ p.ts <= Max(Times(K))
  <2>1. Times(K) \in SUBSET Int /\ IsFiniteSet(Times(K)) /\ Times(K) # {}
    BY TimesAndValues
  <2>2. /\ Min(Times(K)) \in Times(K) /\ \A y \in Times(K) : Min(Times(K)) <= y
        /\ Max(Times(K)) \in Times(K) /\ \A y \in Times(K) : Max(Times(K)) >= y
    BY <2>1, MinMax
  <2>3. Min(Times(K)) \in Int /\ Max(Times(K)) \in Int
    BY <2>1, <2>2
  <2>4. ASSUME NEW p \in K
        PROVE  p.ts \in Int /\ Min(Times(K)) <= p.ts /\ p.ts <= Max(Times(K))
    <3>1. p.ts \in Times(K)
      BY DEF Times
    <3>2. p.ts \in Int /\ Min(Times(K)) <= p.ts /\ Max(Times(K)) >= p.ts
      BY <2>1, <2>2, <3>1
    <3>3. QED
      BY <3>2, <2>3
  <2>5. QED
    BY <2>3, <2>4
<1> DEFINE x == Span(K)
           w == (x + 1 + n - 1) \div n
<1>2. x \in Nat /\ \A p \in K : p.ts - Min(Times(K)) \in 0..x
  BY <1>1 DEF Span
<1> HIDE DEF x
<1>3. w \in Int /\ x < n * w
  BY <1>2, WidthCovers
<1>4. BucketWidth(K, n) = Max({1, w})
  BY DEF BucketWidth, x
<1> HIDE DEF w
<1>5. BucketWidth(K, n) \in Nat \ {0} /\ BucketWidth(K, n) >= w
  <2> DEFINE T == {1, w}
  <2>1. T \in SUBSET Int /\ IsFiniteSet(T) /\ T # {} /\ 1 \in T /\ w \in T
    <3>1. IsFiniteSet({1}) /\ IsFiniteSet({w})
      BY FS_Singleton
    <3>2. IsFiniteSet({1} \cup {w})
      BY <3>1, FS_Union
    <3>3. T = {1} \cup {w}
      OBVIOUS
    <3>4. T \in SUBSET Int /\ T # {} /\ 1 \in T /\ w \in T
      BY <1>3
    <3> HIDE DEF T
    <3>5. QED
      BY <3>2, <3>3, <3>4
  <2>2. BucketWidth(K, n) = Max(T)
    BY <1>4
  <2> HIDE DEF T
  <2>3. Max(T) \in T /\ \A y \in T : Max(T) >= y
    BY <2>1, MinMax
  <2>4. Max(T) \in Int /\ Max(T) >= 1 /\ Max(T) >= w
    BY <2>1, <2>3
  <2>5. QED
    BY <2>2, <2>4
<1>6. ASSUME NEW ms \in Nat, ms >= BucketWidth(K, n), NEW p \in K
      PROVE  Bin(K, ms, p) \in 0..(n - 1)
  <2>1. ms \in Nat \ {0} /\ w <= ms
    BY <1>3, <1>5, <1>6
  <2>2. n * w <= n * ms
    BY <1>3, <2>1, ProductMonotone
  <2> DEFINE d == p.ts - Min(Times(K))
  <2>3. d \in Nat /\ d <= x
    BY <1>2
  <2> HIDE DEF d
  <2>4. n * w \in Int /\ n * ms \in Int
    BY <1>3
  <2>5. d < n * ms
    BY <1>2, <1>3, <2>2, <2>3, <2>4
  <2>6. d \div ms \in 0..(n - 1)
    BY <2>1, <2>3, <2>5, DivisionBound
  <2>7. QED
    BY <2>6 DEF Bin, d
<1>7. QED
  BY <1>5, <1>6

\* One width for all keys: no less than any oversized key needs.
LEMMA WidthOfAll ==
    ASSUME NEW S \in SUBSET Points, IsFiniteSet(S), NEW n \in Nat \ {0}
    PROVE  /\ BucketMS(S, n) \in Nat
           /\ Oversized(S, n) = {} => BucketMS(S, n) = 0
           /\ \A k \in Oversized(S, n) :
                /\ BucketMS(S, n) >= BucketWidth(OfKey(S, k), n)
                /\ BucketMS(S, n) > 0
<1> DEFINE O == Oversized(S, n)
           f == [k \in O |-> BucketWidth(OfKey(S, k), n)]
           W == {f[k] : k \in O}
           T == {0} \cup W
<1>1. BucketMS(S, n) = Max(T)
  BY DEF BucketMS
<1>2. IsFiniteSet(O)
  <2> DEFINE g == [p \in S |-> p.key]
  <2>1. O \in SUBSET {g[p] : p \in S}
    BY DEF Oversized, KeysOf
  <2> HIDE DEF g, O
  <2>2. IsFiniteSet({g[p] : p \in S})
    BY ImageFinite
  <2>3. QED
    BY <2>1, <2>2, FS_Subset
<1>3. ASSUME NEW k \in O PROVE f[k] = BucketWidth(OfKey(S, k), n) /\ f[k] \in Nat \ {0}
  <2>1. OfKey(S, k) # {} /\ OfKey(S, k) \in SUBSET S
    BY DEF Oversized, KeysOf, OfKey
  <2>2. IsFiniteSet(OfKey(S, k)) /\ OfKey(S, k) \in SUBSET Points
    BY <2>1, FS_Subset
  <2>3. BucketWidth(OfKey(S, k), n) \in Nat \ {0}
    BY <2>1, <2>2, BinsFit
  <2>4. QED
    BY <2>3
<1> HIDE DEF f, O
<1>4. IsFiniteSet(W) /\ IsFiniteSet(T)
  <2>1. IsFiniteSet(W)
    BY <1>2, ImageFinite
  <2> HIDE DEF W
  <2>2. QED
    BY <2>1, FS_Singleton, FS_Union
<1>5. T \in SUBSET Int /\ T # {} /\ 0 \in T /\ \A k \in O : f[k] \in T
  BY <1>3
<1>6. O = {} => T = {0}
  OBVIOUS
<1> HIDE DEF T
<1>7. Max(T) \in T /\ \A y \in T : Max(T) >= y
  BY <1>4, <1>5, MinMax
<1>8. Max(T) \in Nat
  <2>1. Max(T) >= 0 /\ Max(T) \in Int
    BY <1>5, <1>7
  <2>2. QED
    BY <2>1
<1>9. O = {} => Max(T) = 0
  BY <1>6, <1>7
<1>10. ASSUME NEW k \in O PROVE Max(T) >= f[k] /\ Max(T) > 0
  <2>1. Max(T) >= f[k]
    BY <1>5, <1>7
  <2>2. QED
    BY <2>1, <1>3, <1>8
<1>11. QED
  BY <1>1, <1>3, <1>8, <1>9, <1>10 DEF O

\* The points of a key in one bucket.
InBin(K, ms, b) == {p \in K : Bin(K, ms, p) = b}

\* The parts into which a series cuts the points of its key.
Parts(S, n, k) ==
    IF k \in Oversized(S, n)
    THEN {InBin(OfKey(S, k), BucketMS(S, n), b) :
            b \in {Bin(OfKey(S, k), BucketMS(S, n), p) : p \in OfKey(S, k)}}
    ELSE {{p} : p \in OfKey(S, k)}

\* A series aggregates the parts of its key.
LEMMA SeriesOfParts ==
    ASSUME NEW S, NEW n, NEW k
    PROVE  /\ Series(S, n, k) = Aggregates(Parts(S, n, k))
           /\ IsPartition(Parts(S, n, k), OfKey(S, k))
<1> DEFINE K == OfKey(S, k)
           ms == BucketMS(S, n)
           Bins == {Bin(K, ms, p) : p \in K}
<1>1. CASE k \in Oversized(S, n)
  <2>1. Parts(S, n, k) = {InBin(K, ms, b) : b \in Bins}
    BY <1>1 DEF Parts
  <2>2. Series(S, n, k) = {Aggregate(InBin(K, ms, b)) : b \in Bins}
    BY <1>1 DEF Series, InBin
  <2>3. \A b \in Bins : InBin(K, ms, b) \in SUBSET K /\ InBin(K, ms, b) # {}
    BY DEF InBin
  <2>4. ASSUME NEW p \in K PROVE Bin(K, ms, p) \in Bins /\ p \in InBin(K, ms, Bin(K, ms, p))
    BY DEF InBin
  <2>5. \A a, b : a # b => InBin(K, ms, a) \cap InBin(K, ms, b) = {}
    BY DEF InBin
  <2> HIDE DEF Bins, K, ms
  <2>6. IsPartition(Parts(S, n, k), K)
    BY <2>1, <2>3, <2>4, <2>5 DEF IsPartition
  <2>7. Series(S, n, k) = Aggregates(Parts(S, n, k))
    BY <2>1, <2>2 DEF Aggregates
  <2>8. QED
    BY <2>6, <2>7 DEF K
<1>2. CASE k \notin Oversized(S, n)
  <2>1. Parts(S, n, k) = {{p} : p \in K}
    BY <1>2 DEF Parts
  <2>2. Series(S, n, k) = {Aggregate({p}) : p \in K}
    BY <1>2 DEF Series
  <2> HIDE DEF K
  <2>3. IsPartition(Parts(S, n, k), K)
    BY <2>1 DEF IsPartition
  <2>4. Series(S, n, k) = Aggregates(Parts(S, n, k))
    BY <2>1, <2>2 DEF Aggregates
  <2>5. QED
    BY <2>3, <2>4 DEF K
<1>3. QED
  BY <1>1, <1>2

\* A series is no longer than allowed, stands for every point of its key, and
\* merges points exactly when there are too many.
LEMMA SeriesFits ==
    ASSUME NEW S \in SUBSET Points, IsFiniteSet(S), NEW n \in Nat \ {0},
           NEW k \in KeysOf(S), IsSeries(OfKey(S, k))
    PROVE  /\ Cardinality(Series(S, n, k)) <= n
           /\ SumCount(Series(S, n, k)) = Cardinality(OfKey(S, k))
           /\ k \in Oversized(S, n) <=> \E b \in Series(S, n, k) : b.count > 1
<1> DEFINE K == OfKey(S, k)
           ms == BucketMS(S, n)
           Bins == {Bin(K, ms, p) : p \in K}
           P == Parts(S, n, k)
           Z == Series(S, n, k)
<1>1. K \in SUBSET Points /\ IsFiniteSet(K) /\ K # {} /\ Cardinality(K) \in Nat
  <2>1. K # {}
    BY DEF OfKey, KeysOf
  <2> HIDE DEF K
  <2>2. QED
    BY <2>1, FS_CardinalityType DEF IsSeries, K
<1>2. /\ Z = Aggregates(P) /\ IsPartition(P, K)
      /\ IsFiniteSet(P) /\ IsFiniteSet(Z)
      /\ Cardinality(Z) <= Cardinality(P) /\ SumCount(Z) = Cardinality(K)
  <2> HIDE DEF P
  <2>1. Z = Aggregates(P) /\ IsPartition(P, K)
    BY SeriesOfParts DEF P
  <2> HIDE DEF Z, K
  <2>2. IsSeries(K)
    BY DEF K
  <2>3. QED
    BY <2>1, <2>2, SeriesCounts
<1>3. Cardinality(P) \in Nat /\ Cardinality(Z) \in Nat
  BY <1>2, FS_CardinalityType
<1>4. \A B \in P : Aggregate(B) \in Z /\ Aggregate(B).count = Cardinality(B)
  BY <1>2, AggregateFacts DEF Aggregates
<1>5. \A z \in Z : \E B \in P : z = Aggregate(B)
  BY <1>2 DEF Aggregates
<1>6. CASE k \in Oversized(S, n)
  <2>1. P = {InBin(K, ms, b) : b \in Bins}
    BY <1>6 DEF Parts
  <2>2. ms \in Nat /\ ms >= BucketWidth(K, n)
    BY <1>6, WidthOfAll
  <2>3. \A p \in K : Bin(K, ms, p) \in 0..(n - 1)
    BY <1>1, <2>2, BinsFit
  <2>4. Cardinality(K) > n
    BY <1>6 DEF Oversized
  <2>5. IsFiniteSet(0..(n - 1)) /\ Cardinality(0..(n - 1)) = n
    <3>1. 0 \in Int /\ n - 1 \in Int /\ ~(0 > n - 1)
      OBVIOUS
    <3> DEFINE u == n - 1
    <3>2. u \in Int /\ ~(0 > u) /\ u - 0 + 1 = n
      BY <3>1
    <3> HIDE DEF u
    <3>3. IsFiniteSet(0..u) /\ Cardinality(0..u) = IF 0 > u THEN 0 ELSE u - 0 + 1
      BY <3>2, FS_Interval
    <3>4. QED
      BY <3>2, <3>3 DEF u
  <2>6. Bins \in SUBSET (0..(n - 1))
    BY <2>3
  <2> HIDE DEF Bins
  <2>7. IsFiniteSet(Bins) /\ Cardinality(Bins) <= n
    BY <2>5, <2>6, FS_Subset
  <2>8. Cardinality(P) <= Cardinality(Bins)
    <3> DEFINE f == [b \in Bins |-> InBin(K, ms, b)]
    <3>1. P = {f[b] : b \in Bins}
      BY <2>1
    <3> HIDE DEF f, P
    <3>2. QED
      BY <2>7, <3>1, ImageFinite
  <2>9. Cardinality(Z) <= n
    <3>1. Cardinality(Bins) \in Nat
      BY <2>7, FS_CardinalityType
    <3> HIDE DEF Z, P
    <3>2. QED
      BY <1>2, <1>3, <2>7, <2>8, <3>1
  <2>10. PICK x, y \in K : x # y /\ Bin(K, ms, x) = Bin(K, ms, y)
    <3> DEFINE f == [p \in K |-> Bin(K, ms, p)]
               I == 0..(n - 1)
    <3>1. f \in [K -> I]
      BY <2>3
    <3>2. IsFiniteSet(I) /\ Cardinality(I) < Cardinality(K)
      BY <2>4, <2>5, <1>1
    <3>3. \A x \in K : f[x] = Bin(K, ms, x)
      OBVIOUS
    <3> HIDE DEF f, I, K
    <3>4. \E x, y \in K : x # y /\ f[x] = f[y]
      BY <1>1, <3>1, <3>2, FS_PigeonHole
    <3>5. QED
      BY <3>3, <3>4
  <2> DEFINE B == InBin(K, ms, Bin(K, ms, x))
  <2>11. B \in P /\ x \in B /\ y \in B
    BY <2>1, <2>10 DEF InBin, Bins
  <2>12. IsFiniteSet(B) /\ B # {}
    BY <1>2, <2>11, AggregateFacts DEF IsSeries
  <2> HIDE DEF B
  <2>13. Cardinality(B) > 1
    <3>1. Cardinality(B) \in Nat
      BY <2>12, FS_CardinalityType
    <3>2. Cardinality(B) # 0
      BY <2>12, FS_EmptySet
    <3>3. Cardinality(B) # 1
      BY <2>10, <2>11, <2>12, FS_Singleton
    <3>4. QED
      BY <3>1, <3>2, <3>3
  <2>14. \E b \in Z : b.count > 1
    BY <1>4, <2>11, <2>13
  <2>15. QED
    BY <1>2, <1>6, <2>9, <2>14
<1>7. CASE k \notin Oversized(S, n)
  <2>1. P = {{p} : p \in K}
    BY <1>7 DEF Parts
  <2>2. Cardinality(K) <= n
    BY <1>1, <1>7 DEF Oversized
  <2>3. Cardinality(P) <= Cardinality(K)
    <3> DEFINE f == [p \in K |-> {p}]
    <3>1. P = {f[p] : p \in K}
      BY <2>1
    <3> HIDE DEF f, P, K
    <3>2. QED
      BY <1>1, <3>1, ImageFinite
  <2>4. Cardinality(Z) <= n
    <3> HIDE DEF Z, P
    <3>1. QED
      BY <1>1, <1>2, <1>3, <2>2, <2>3
  <2>5. ASSUME NEW z \in Z PROVE ~(z.count > 1)
    <3>1. PICK p \in K : z = Aggregate({p}) /\ {p} \in P
      BY <1>5, <2>1
    <3>2. z.count = Cardinality({p}) /\ Cardinality({p}) = 1
      BY <1>4, <3>1, FS_Singleton
    <3>3. QED
      BY <3>2
  <2>6. QED
    BY <1>2, <1>7, <2>4, <2>5
<1>8. QED
  BY <1>6, <1>7

\* A part of the points of a task, as the queries select it.
LEMMA Selected ==
    ASSUME Inv, NEW t, NEW S \in SUBSET OfTask(points, t)
    PROVE  /\ S \in SUBSET Points /\ IsFiniteSet(S)
           /\ \A k : IsSeries(OfKey(S, k))
<1>1. OfTask(points, t) \in SUBSET points
  BY DEF OfTask
<1>2. points \in SUBSET Points /\ IsFiniteSet(points)
  BY DEF Inv, PipelineInv
<1>3. S \in SUBSET points
  BY <1>1
<1>4. IsFiniteSet(S)
  BY <1>2, <1>3, FS_Subset
<1>5. ASSUME NEW k PROVE IsSeries(OfKey(S, k))
  <2>1. OfKey(S, k) \in SUBSET S /\ \A p \in OfKey(S, k) : p \in points /\ p.task = t /\ p.key = k
    BY <1>3 DEF OfKey, OfTask
  <2>2. IsFiniteSet(OfKey(S, k))
    BY <1>4, <2>1, FS_Subset
  <2>3. ASSUME NEW p \in OfKey(S, k), NEW q \in OfKey(S, k), p.ts = q.ts, p.step = q.step
        PROVE  p = q
    <3>1. Identity(p) = Identity(q)
      BY <2>1, <2>3 DEF Identity
    <3>2. QED
      BY <2>1, <3>1 DEF Inv, PipelineInv
  <2>4. QED
    BY <1>2, <1>3, <2>1, <2>2, <2>3 DEF IsSeries
<1>6. QED
  BY <1>2, <1>3, <1>4, <1>5

\* max_points is positive.
LEMMA MaxPointsPositive ==
    ASSUME NEW q, q.maxPoints # Null => q.maxPoints \in 1..5000
    PROVE  MaxPoints(q) \in Nat \ {0}
<1>1. CASE q.maxPoints = Null
  BY <1>1 DEF MaxPoints
<1>2. CASE q.maxPoints # Null
  <2> DEFINE I == 1..5000
  <2>1. \A x \in I : x \in Nat \ {0}
    OBVIOUS
  <2>2. q.maxPoints \in I
    BY <1>2
  <2> HIDE DEF I
  <2>3. MaxPoints(q) = q.maxPoints
    BY <1>2 DEF MaxPoints
  <2>4. QED
    BY <2>1, <2>2, <2>3
<1>3. QED
  BY <1>1, <1>2

\* The history of any request whose max_points is valid.
LEMMA HistoryFits ==
    ASSUME Inv, NEW cutoff, NEW q, q.maxPoints # Null => q.maxPoints \in 1..5000
    PROVE  LET h == SelectHistory(points, cutoff, q)
               S == Filtered(points, cutoff, q)
           IN  /\ DOMAIN h.series = KeysOf(S)
               /\ \A k \in DOMAIN h.series :
                    /\ h.series[k] = Series(S, MaxPoints(q), k)
                    /\ Cardinality(h.series[k]) <= MaxPoints(q)
                    /\ SumCount(h.series[k]) = Cardinality(OfKey(S, k))
               /\ h.downsampled <=> Oversized(S, MaxPoints(q)) # {}
               /\ h.downsampled <=> \E k \in DOMAIN h.series : \E b \in h.series[k] : b.count > 1
<1> DEFINE h == SelectHistory(points, cutoff, q)
           S == Filtered(points, cutoff, q)
           n == MaxPoints(q)
<1>1. n \in Nat \ {0}
  BY MaxPointsPositive
<1>2. S \in SUBSET Points /\ IsFiniteSet(S) /\ \A k : IsSeries(OfKey(S, k))
  <2>1. S \in SUBSET OfTask(points, q.task)
    BY DEF Filtered
  <2> HIDE DEF S
  <2>2. QED
    BY <2>1, Selected
<1>3. /\ DOMAIN h.series = KeysOf(S)
      /\ \A k \in KeysOf(S) : h.series[k] = Series(S, n, k)
      /\ h.downsampled <=> BucketMS(S, n) > 0
  <2> HIDE DEF S, n
  <2>1. h = [exists |-> Exists(points, cutoff, q.task),
             bucketMS |-> BucketMS(S, n),
             downsampled |-> BucketMS(S, n) > 0,
             series |-> [k \in KeysOf(S) |-> Series(S, n, k)]]
    BY DEF SelectHistory, S, n
  <2> HIDE DEF h
  <2>2. h.series = [k \in KeysOf(S) |-> Series(S, n, k)]
    BY <2>1
  <2>3. h.downsampled <=> BucketMS(S, n) > 0
    <3> DEFINE cut == BucketMS(S, n) > 0
    <3>1. h = [exists |-> Exists(points, cutoff, q.task), bucketMS |-> BucketMS(S, n),
               downsampled |-> cut, series |-> [k \in KeysOf(S) |-> Series(S, n, k)]]
      BY <2>1
    <3> HIDE DEF cut
    <3>2. h.downsampled = cut
      BY <3>1
    <3>3. cut \in BOOLEAN
      <4>1. BucketMS(S, n) \in Nat
        BY <1>1, <1>2, WidthOfAll
      <4>2. QED
        BY <4>1 DEF cut
    <3>4. h.downsampled <=> cut
      BY <3>2, <3>3
    <3>5. QED
      BY <3>4, Zenon DEF cut
  <2>4. QED
    BY <2>2, <2>3
<1>4. Oversized(S, n) \subseteq KeysOf(S)
  BY DEF Oversized
<1> HIDE DEF h, S, n
<1>5. \A k \in KeysOf(S) :
        /\ Cardinality(Series(S, n, k)) <= n
        /\ SumCount(Series(S, n, k)) = Cardinality(OfKey(S, k))
        /\ k \in Oversized(S, n) <=> \E b \in Series(S, n, k) : b.count > 1
  BY <1>1, <1>2, SeriesFits
<1>6. /\ BucketMS(S, n) \in Nat
      /\ Oversized(S, n) = {} => BucketMS(S, n) = 0
      /\ \A k \in Oversized(S, n) : BucketMS(S, n) > 0
  BY <1>1, <1>2, WidthOfAll
<1>7. h.downsampled <=> Oversized(S, n) # {}
  BY <1>3, <1>6
<1>8. h.downsampled <=> \E k \in DOMAIN h.series : \E b \in h.series[k] : b.count > 1
  BY <1>3, <1>4, <1>5, <1>7
<1>9. QED
  BY <1>3, <1>5, <1>7, <1>8 DEF h, S, n

-----------------------------------------------------------------------------
(* Summary and history.                                                     *)

\* The extremes in a series.
Mins(Z) == {b.min : b \in Z}
Maxs(Z) == {b.max : b \in Z}

\* Cutting a key into parts keeps its extremes.
LEMMA ExtremesKept ==
    ASSUME NEW K, IsSeries(K), K # {}, NEW P, IsPartition(P, K)
    PROVE  /\ Min(Mins(Aggregates(P))) = Min(Values(K))
           /\ Max(Maxs(Aggregates(P))) = Max(Values(K))
<1> DEFINE lo == Min(Values(K))
           hi == Max(Values(K))
           L == Mins(Aggregates(P))
           H == Maxs(Aggregates(P))
<1>1. K \in SUBSET Points /\ IsFiniteSet(K)
  BY DEF IsSeries
<1>2. /\ Values(K) \in SUBSET Int
      /\ lo \in Values(K) /\ \A y \in Values(K) : lo <= y
      /\ hi \in Values(K) /\ \A y \in Values(K) : hi >= y
  <2>1. Values(K) \in SUBSET Int /\ IsFiniteSet(Values(K)) /\ Values(K) # {}
    BY <1>1, TimesAndValues
  <2>2. QED
    BY <2>1, MinMax
<1>3. /\ L = {Min(Values(B)) : B \in P}
      /\ H = {Max(Values(B)) : B \in P}
  <2>1. \A B \in P : Aggregate(B).min = Min(Values(B)) /\ Aggregate(B).max = Max(Values(B))
    BY DEF Aggregate
  <2>2. QED
    BY <2>1 DEF Mins, Maxs, Aggregates
<1> HIDE DEF lo, hi, L, H
<1>4. ASSUME NEW B \in P
      PROVE  /\ Values(B) \in SUBSET Values(K)
             /\ Min(Values(B)) \in Values(B) /\ \A y \in Values(B) : Min(Values(B)) <= y
             /\ Max(Values(B)) \in Values(B) /\ \A y \in Values(B) : Max(Values(B)) >= y
  <2>1. IsSeries(B) /\ B # {} /\ B \in SUBSET K
    BY AggregateFacts
  <2>2. Values(B) \in SUBSET Int /\ IsFiniteSet(Values(B)) /\ Values(B) # {}
    BY <2>1, TimesAndValues DEF IsSeries
  <2>3. Values(B) \in SUBSET Values(K)
    BY <2>1 DEF Values
  <2>4. QED
    BY <2>2, <2>3, MinMax
<1>5. /\ L \in SUBSET Int /\ \A y \in L : lo <= y
      /\ H \in SUBSET Int /\ \A y \in H : hi >= y
  <2>1. \A B \in P : Min(Values(B)) \in Values(K) /\ Max(Values(B)) \in Values(K)
    BY <1>4
  <2>2. QED
    BY <1>2, <1>3, <2>1
<1>6. lo \in L
  <2>1. PICK p \in K : p.value = lo
    BY <1>2 DEF Values
  <2>2. PICK B \in P : p \in B
    BY DEF IsPartition
  <2>3. lo \in Values(B)
    BY <2>1, <2>2 DEF Values
  <2>4. Min(Values(B)) <= lo /\ lo <= Min(Values(B)) /\ lo \in Int /\ Min(Values(B)) \in Int
    BY <1>2, <1>4, <2>3
  <2>5. lo = Min(Values(B))
    BY <2>4
  <2>6. QED
    BY <1>3, <2>5
<1>7. hi \in H
  <2>1. PICK p \in K : p.value = hi
    BY <1>2 DEF Values
  <2>2. PICK B \in P : p \in B
    BY DEF IsPartition
  <2>3. hi \in Values(B)
    BY <2>1, <2>2 DEF Values
  <2>4. Max(Values(B)) >= hi /\ hi >= Max(Values(B)) /\ hi \in Int /\ Max(Values(B)) \in Int
    BY <1>2, <1>4, <2>3
  <2>5. hi = Max(Values(B))
    BY <2>4
  <2>6. QED
    BY <1>3, <2>5
<1>8. Min(L) = lo
  BY <1>5, <1>6, MinMaxUnique
<1>9. Max(H) = hi
  BY <1>5, <1>7, MinMaxUnique
<1>10. QED
  BY <1>8, <1>9 DEF lo, hi, L, H

\* The aggregate of one point.
LEMMA AggregateOfOne ==
    ASSUME NEW p \in Points
    PROVE  /\ Aggregate({p}).ts = p.ts /\ Aggregate({p}).step = p.step
           /\ Aggregate({p}).sum = p.value
<1>1. IsSeries({p})
  BY FS_Singleton DEF IsSeries
<1>2. First({p}) = p
  <2>1. First({p}) \in {p}
    BY <1>1, FirstFacts
  <2>2. QED
    BY <2>1
<1>3. Aggregate({p}).sum = SumValue({p})
  BY DEF Aggregate, SumValue
<1>4. SumValue({p}) = p.value
  BY SumOfOne
<1>5. Aggregate({p}).ts = First({p}).ts /\ Aggregate({p}).step = First({p}).step
  BY DEF Aggregate
<1>6. QED
  BY <1>2, <1>3, <1>4, <1>5

\* Without buckets, the entries of a series are the points of its key.
LEMMA UncutSeries ==
    ASSUME NEW S \in SUBSET Points, NEW n, NEW k, k \notin Oversized(S, n)
    PROVE  /\ \A p \in OfKey(S, k) : Aggregate({p}) \in Series(S, n, k)
           /\ \A b \in Series(S, n, k) : \E p \in OfKey(S, k) :
                b.ts = p.ts /\ b.step = p.step /\ b.sum = p.value
<1>1. Series(S, n, k) = {Aggregate({p}) : p \in OfKey(S, k)}
  BY DEF Series
<1>2. \A p \in OfKey(S, k) : p \in Points
  BY DEF OfKey
<1>3. QED
  BY <1>1, <1>2, AggregateOfOne

\* The selection of QuerySummary.
Recent(cutoff, t) == {p \in OfTask(points, t) : p.ts >= cutoff}

\* The request for the whole history of a task.
WholeHistory(t, n) ==
    [task |-> t, keys |-> Null, from |-> Null, to |-> Null,
     stepFrom |-> Null, stepTo |-> Null, maxPoints |-> n]

\* What QuerySummary returns of a task that has points.
LEMMA SummaryFacts ==
    ASSUME NEW cutoff, NEW t, Recent(cutoff, t) # {}
    PROVE  LET s == QuerySummary(points, cutoff, t)
               S == Recent(cutoff, t)
           IN  /\ s.lastStep = Latest(S).step /\ s.updatedAt = Latest(S).ts
               /\ DOMAIN s.metrics = KeysOf(S)
               /\ \A k \in KeysOf(S) :
                    /\ s.metrics[k].last = Latest(OfKey(S, k)).value
                    /\ s.metrics[k].min = Min(Values(OfKey(S, k)))
                    /\ s.metrics[k].max = Max(Values(OfKey(S, k)))
<1> DEFINE s == QuerySummary(points, cutoff, t)
           S == Recent(cutoff, t)
           Line(k) == [last |-> Latest(OfKey(S, k)).value, min |-> Min(Values(OfKey(S, k))),
                       max |-> Max(Values(OfKey(S, k))), sum |-> SumValue(OfKey(S, k)),
                       count |-> Cardinality(OfKey(S, k))]
<1>1. s = [exists |-> S # {},
           lastStep |-> IF S = {} THEN 0 ELSE Latest(S).step,
           updatedAt |-> IF S = {} THEN 0 ELSE Latest(S).ts,
           metrics |-> [k \in KeysOf(S) |-> Line(k)]]
  BY DEF QuerySummary, Recent, SumValue
<1>2. \A k : /\ Line(k).last = Latest(OfKey(S, k)).value
             /\ Line(k).min = Min(Values(OfKey(S, k)))
             /\ Line(k).max = Max(Values(OfKey(S, k)))
  OBVIOUS
<1> HIDE DEF s, S, Line
<1>3. s.metrics = [k \in KeysOf(S) |-> Line(k)]
  BY <1>1
<1>4. s.lastStep = Latest(S).step /\ s.updatedAt = Latest(S).ts
  <2>1. S # {}
    BY DEF S
  <2>2. QED
    BY <1>1, <2>1
<1>5. QED
  BY <1>2, <1>3, <1>4 DEF s, S

\* The whole history is made of the points the summary is made of.
LEMMA WholeIsRecent ==
    ASSUME NEW cutoff, NEW t, NEW n
    PROVE  /\ Filtered(points, cutoff, WholeHistory(t, n)) = Recent(cutoff, t)
           /\ WholeHistory(t, n).maxPoints = n
BY DEF Filtered, WholeHistory, Recent

\* Summary and history of a task agree.
Agree(s, h) ==
    LET all == UNION {h.series[k] : k \in DOMAIN h.series}
    IN  /\ DOMAIN s.metrics = DOMAIN h.series
        /\ \A k \in DOMAIN h.series :
            /\ s.metrics[k].min = Min({b.min : b \in h.series[k]})
            /\ s.metrics[k].max = Max({b.max : b \in h.series[k]})
        /\ ~h.downsampled =>
            /\ \A k \in DOMAIN h.series : \E b \in h.series[k] :
                /\ s.metrics[k].last = b.sum
                /\ \A c \in h.series[k] : ~Earlier(b, c)
            /\ \E b \in all :
                /\ s.lastStep = b.step /\ s.updatedAt = b.ts
                /\ \A c \in all : ~Earlier(b, c)

\* The summary of a task agrees with its whole history.
LEMMA SummaryAgrees ==
    ASSUME Inv, NEW cutoff, NEW t, Recent(cutoff, t) # {}, NEW n \in {1, 2, Null}
    PROVE  Agree(QuerySummary(points, cutoff, t),
                 SelectHistory(points, cutoff, WholeHistory(t, n)))
<1> DEFINE s == QuerySummary(points, cutoff, t)
           q == WholeHistory(t, n)
           h == SelectHistory(points, cutoff, q)
           S == Recent(cutoff, t)
           m == MaxPoints(q)
           all == UNION {h.series[k] : k \in DOMAIN h.series}
<1>1. /\ s.lastStep = Latest(S).step /\ s.updatedAt = Latest(S).ts
      /\ DOMAIN s.metrics = KeysOf(S)
      /\ \A k \in KeysOf(S) :
           /\ s.metrics[k].last = Latest(OfKey(S, k)).value
           /\ s.metrics[k].min = Min(Values(OfKey(S, k)))
           /\ s.metrics[k].max = Max(Values(OfKey(S, k)))
  BY SummaryFacts
<1>2. /\ DOMAIN h.series = KeysOf(S)
      /\ \A k \in KeysOf(S) : h.series[k] = Series(S, m, k)
      /\ h.downsampled <=> Oversized(S, m) # {}
  <2>1. Filtered(points, cutoff, q) = S /\ q.maxPoints = n
    BY WholeIsRecent
  <2> HIDE DEF q, S
  <2>2. q.maxPoints # Null => q.maxPoints \in 1..5000
    BY <2>1
  <2>3. QED
    BY <2>1, <2>2, HistoryFits
<1>3. S \in SUBSET Points /\ IsFiniteSet(S) /\ S # {} /\ \A k : IsSeries(OfKey(S, k))
  <2>1. S \in SUBSET OfTask(points, t)
    BY DEF Recent
  <2> HIDE DEF S
  <2>2. QED
    BY <2>1, Selected DEF S
<1> HIDE DEF s, q, h, S, m
<1>4. ASSUME NEW k \in KeysOf(S)
      PROVE  /\ OfKey(S, k) # {} /\ OfKey(S, k) \in SUBSET Points /\ IsFiniteSet(OfKey(S, k))
             /\ OfKey(S, k) \in SUBSET S
             /\ Min(Mins(Series(S, m, k))) = Min(Values(OfKey(S, k)))
             /\ Max(Maxs(Series(S, m, k))) = Max(Values(OfKey(S, k)))
  <2>1. OfKey(S, k) # {} /\ OfKey(S, k) \in SUBSET S
    BY DEF KeysOf, OfKey
  <2>2. OfKey(S, k) \in SUBSET Points /\ IsFiniteSet(OfKey(S, k))
    BY <1>3 DEF IsSeries
  <2>3. /\ Series(S, m, k) = Aggregates(Parts(S, m, k))
        /\ IsPartition(Parts(S, m, k), OfKey(S, k))
    BY SeriesOfParts
  <2>4. QED
    BY <1>3, <2>1, <2>2, <2>3, ExtremesKept
<1>5. ASSUME Oversized(S, m) = {}
      PROVE  /\ \A k \in KeysOf(S) : \E b \in Series(S, m, k) :
                 /\ b.sum = Latest(OfKey(S, k)).value
                 /\ \A c \in Series(S, m, k) : ~Earlier(b, c)
             /\ \E b \in all :
                 /\ b.step = Latest(S).step /\ b.ts = Latest(S).ts
                 /\ \A c \in all : ~Earlier(b, c)
  <2>1. ASSUME NEW k \in KeysOf(S)
        PROVE  /\ \A p \in OfKey(S, k) : Aggregate({p}) \in Series(S, m, k)
               /\ \A b \in Series(S, m, k) : \E p \in OfKey(S, k) : b.ts = p.ts /\ b.step = p.step
    BY <1>3, <1>5, UncutSeries
  <2>2. ASSUME NEW k \in KeysOf(S)
        PROVE  \E b \in Series(S, m, k) :
                 /\ b.sum = Latest(OfKey(S, k)).value
                 /\ \A c \in Series(S, m, k) : ~Earlier(b, c)
    <3> DEFINE p == Latest(OfKey(S, k))
               b == Aggregate({p})
    <3>1. p \in OfKey(S, k) /\ \A r \in OfKey(S, k) : ~Earlier(p, r)
      BY <1>4, LatestFacts
    <3> HIDE DEF p
    <3>2. b.ts = p.ts /\ b.step = p.step /\ b.sum = p.value
      BY <1>4, <3>1, AggregateOfOne
    <3>3. b \in Series(S, m, k)
      BY <2>1, <3>1
    <3> HIDE DEF b
    <3>4. ASSUME NEW c \in Series(S, m, k) PROVE ~Earlier(b, c)
      <4>1. PICK r \in OfKey(S, k) : c.ts = r.ts /\ c.step = r.step
        BY <2>1
      <4>2. QED
        BY <3>1, <3>2, <4>1 DEF Earlier
    <3>5. QED
      BY <3>2, <3>3, <3>4 DEF p
  <2>3. \E b \in all :
          /\ b.step = Latest(S).step /\ b.ts = Latest(S).ts
          /\ \A c \in all : ~Earlier(b, c)
    <3> DEFINE p == Latest(S)
               b == Aggregate({p})
    <3>1. p \in S /\ \A r \in S : ~Earlier(p, r)
      BY <1>3, LatestFacts
    <3> HIDE DEF p
    <3>2. b.ts = p.ts /\ b.step = p.step
      BY <1>3, <3>1, AggregateOfOne
    <3>3. p.key \in KeysOf(S) /\ p \in OfKey(S, p.key)
      BY <3>1 DEF KeysOf, OfKey
    <3>4. b \in Series(S, m, p.key)
      BY <2>1, <3>3
    <3>5. b \in all
      BY <1>2, <3>3, <3>4
    <3> HIDE DEF b
    <3>6. ASSUME NEW c \in all PROVE ~Earlier(b, c)
      <4>1. PICK k \in KeysOf(S) : c \in Series(S, m, k)
        BY <1>2
      <4>2. PICK r \in OfKey(S, k) : c.ts = r.ts /\ c.step = r.step
        BY <2>1, <4>1
      <4>3. r \in S
        BY <1>4, <4>2
      <4>4. QED
        BY <3>1, <3>2, <4>2, <4>3 DEF Earlier
    <3> HIDE DEF all
    <3>7. QED
      BY <3>2, <3>5, <3>6 DEF p
  <2>4. QED
    BY <2>2, <2>3
<1> HIDE DEF all
<1>6. DOMAIN s.metrics = DOMAIN h.series
  BY <1>1, <1>2
<1>7. \A k \in DOMAIN h.series :
        /\ s.metrics[k].min = Min(Mins(h.series[k]))
        /\ s.metrics[k].max = Max(Maxs(h.series[k]))
  BY <1>1, <1>2, <1>4
<1>8. ASSUME ~h.downsampled
      PROVE  /\ \A k \in DOMAIN h.series : \E b \in h.series[k] :
                 /\ s.metrics[k].last = b.sum
                 /\ \A c \in h.series[k] : ~Earlier(b, c)
             /\ \E b \in all :
                 /\ s.lastStep = b.step /\ s.updatedAt = b.ts
                 /\ \A c \in all : ~Earlier(b, c)
  <2>1. Oversized(S, m) = {}
    BY <1>2, <1>8
  <2>2. QED
    BY <1>1, <1>2, <1>5, <2>1
<1>9. Agree(s, h)
  BY <1>6, <1>7, <1>8, Zenon DEF Agree, all, Mins, Maxs
<1>10. QED
  BY <1>9 DEF s, q, h

-----------------------------------------------------------------------------
(* The theorems.                                                            *)

\* Nothing the API accepted is refused behind it by the worker or the encoder,
\* nor by the table unless the day of a row has no partition, and it is stored
\* under names the queries take: the limits written down in four places agree
\* for every value of the constants.
THEOREM AcceptedIsStorableAlways == Spec => []AcceptedIsStorable
<1>1. ASSUME Inv PROVE AcceptedIsStorable
  <2>1. deadLetters \subseteq Foreign
    BY <1>1 DEF Inv, PipelineInv
  <2>2. ASSUME NEW d \in queue \ Foreign
        PROVE  /\ ValidDelivery(d)
               /\ \A r \in ToSet(Rows(d)) : Encodable(r) /\ (HasPartition(r) => FitsTable(r))
    <3>1. IsBatch(d.body.batch, Int) /\ ValidDelivery(d)
      BY <1>1, <2>2 DEF Inv, PipelineInv
    <3>2. QED
      BY <3>1, QueuedRows, ValidRowsFit DEF FitsTable
  <2>3. ASSUME NEW p \in points PROVE ValidTaskID(p.task) /\ ValidMetricKey(p.key)
    BY <1>1 DEF Inv, PipelineInv, Points
  <2>4. QED
    BY <2>1, <2>2, <2>3 DEF AcceptedIsStorable
<1>2. QED
  BY <1>1, InvInvariant, PTL

\* An audited run of the simulator that passes has stored exactly the points
\* of the accepted posts, for any tasks, batch size and interleaving with the
\* workers.
THEOREM PassMeansStoredAlways == Spec => []PassMeansStored
<1>1. ASSUME Inv PROVE PassMeansStored
  <2>1. SUFFICES ASSUME Audit, ReportPass, NEW t \in SimTasks
                 PROVE  {Identity(p) : p \in OfTask(points, t)} = SentPoints(t)
    BY DEF PassMeansStored
  <2>2. phase = "done" /\ t \in audited \ failures /\ pass[t]
    BY <1>1, <2>1 DEF ReportPass, Inv, PhaseInv
  <2>3. QED
    BY <1>1, <2>2 DEF Inv, AuditedInv
<1>2. QED
  BY <1>1, InvInvariant, PTL

\* An answered request was valid, its task has points, and it got what the
\* statement selects.
LEMMA AnsweredHistory ==
    ASSUME NEW cutoff, NEW q, QueryMetrics(points, cutoff, q).status = 200
    PROVE  /\ ValidHistoryQuery(q) /\ Exists(points, cutoff, q.task)
           /\ QueryMetrics(points, cutoff, q).body = SelectHistory(points, cutoff, q)
<1> DEFINE valid == ValidHistoryQuery(q)
           exists == Exists(points, cutoff, q.task)
           h == SelectHistory(points, cutoff, q)
           r == QueryMetrics(points, cutoff, q)
<1>1. r = IF ~valid THEN [status |-> 400]
          ELSE IF StatementFails THEN [status |-> 500]
          ELSE IF ~exists THEN [status |-> 404]
          ELSE [status |-> 200, body |-> h]
  BY DEF QueryMetrics
<1>2. r.status = 200
  OBVIOUS
<1> HIDE DEF valid, exists, h, r
<1>3. valid /\ exists /\ r.body = h
  BY <1>1, <1>2
<1>4. QED
  BY <1>3 DEF valid, exists, h, r

\* No series of a history that is answered is longer than max_points, a series
\* that was cut stands for every point of its key, and the response says
\* whether one was cut, wherever the points lie in time.
THEOREM SeriesWithinLimitAlways == Spec => []SeriesWithinLimit
<1>1. ASSUME Inv PROVE SeriesWithinLimit
  <2>1. ASSUME NEW cutoff \in Cutoffs, NEW q \in HistoryQueries,
               QueryMetrics(points, cutoff, q).status = 200
        PROVE  LET h == QueryMetrics(points, cutoff, q).body
                   S == Filtered(points, cutoff, q)
               IN  /\ \A k \in DOMAIN h.series :
                        /\ Cardinality(h.series[k]) <= MaxPoints(q)
                        /\ SumCount(h.series[k]) = Cardinality(OfKey(S, k))
                   /\ h.downsampled <=> \E k \in DOMAIN h.series : \E b \in h.series[k] : b.count > 1
    <3>1. /\ ValidHistoryQuery(q)
          /\ QueryMetrics(points, cutoff, q).body = SelectHistory(points, cutoff, q)
      BY <2>1, AnsweredHistory
    <3>2. q.maxPoints # Null => q.maxPoints \in 1..5000
      BY <3>1 DEF ValidHistoryQuery
    <3>3. QED
      BY <1>1, <3>1, <3>2, HistoryFits
  <2>2. QED
    BY <2>1, Zenon DEF SeriesWithinLimit, SumCount
<1>2. QED
  BY <1>1, InvInvariant, PTL

\* The summary of a task agrees with its history, when that is answered, on
\* the keys, on the extremes of each however it was cut, and on the latest
\* point when nothing was.
THEOREM SummaryAgreesWithHistoryAlways == Spec => []SummaryAgreesWithHistory
<1>1. ASSUME Inv PROVE SummaryAgreesWithHistory
  <2>1. ASSUME NEW cutoff, NEW t, Exists(points, cutoff, t) PROVE Recent(cutoff, t) # {}
    BY <2>1 DEF Exists, Recent
  <2>2. ASSUME NEW cutoff \in Cutoffs, NEW t \in {q.task : q \in HistoryQueries},
               NEW n \in {1, 2, Null},
               QueryMetrics(points, cutoff, WholeHistory(t, n)).status = 200
        PROVE  Agree(QuerySummary(points, cutoff, t),
                     QueryMetrics(points, cutoff, WholeHistory(t, n)).body)
    <3> DEFINE q == WholeHistory(t, n)
    <3>1. q.task = t
      BY DEF WholeHistory
    <3> HIDE DEF q
    <3>2. /\ Exists(points, cutoff, t)
          /\ QueryMetrics(points, cutoff, q).body = SelectHistory(points, cutoff, q)
      BY <2>2, <3>1, AnsweredHistory DEF q
    <3>3. Agree(QuerySummary(points, cutoff, t), SelectHistory(points, cutoff, q))
      BY <1>1, <2>1, <3>2, SummaryAgrees DEF q
    <3>4. QED
      BY <3>2, <3>3 DEF q
  <2>3. QED
    BY <2>2, Zenon DEF SummaryAgreesWithHistory, WholeHistory, Agree
<1>2. QED
  BY <1>1, InvInvariant, PTL
=============================================================================
