---------------------------- MODULE KDSearch_proofs ----------------------------
(***************************************************************************)
(* Proofs about RankSelect and KDSearch, for arrays, ranks, descriptors    *)
(* and queries of every size.                                              *)
(***************************************************************************)
EXTENDS KDSearch, FiniteSetTheorems, FunctionTheorems, SequenceTheorems, TLAPS

-----------------------------------------------------------------------------
(* Arrays: what re-ordering one, and taking one apart, does to ranks.      *)

\* A set of positions has a greatest one.
LEMMA GreatestIn ==
    ASSUME NEW a \in Int, NEW b \in Int, NEW S \in SUBSET (a..b), S # {}
    PROVE  Greatest(S) \in S /\ \A y \in S : y <= Greatest(S)
<1> DEFINE T == {b - s : s \in S}
<1>1. T \subseteq Nat /\ T # {}
  <2>1. \A s \in S : b - s \in Nat
    OBVIOUS
  <2> QED
    BY <2>1
<1>2. PICK u \in T : \A v \in T : ~(<<v, u>> \in OpToRel(<, Nat))
  BY <1>1, NatLessThanWellFounded, WFMin
<1>3. \A v \in T : ~(v < u)
  BY <1>1, <1>2 DEF OpToRel
<1>4. PICK x \in S : u = b - x
  BY <1>2
<1>5. \A y \in S : y <= x
  <2> TAKE y \in S
  <2>1. ~(b - y < b - x)
    BY <1>3, <1>4
  <2> QED
    BY <2>1
<1> QED
  BY <1>4, <1>5 DEF Greatest

\* As many positions map into a set as the set has.
LEMMA SameMany ==
    ASSUME NEW N \in Nat, NEW pi \in Bijection(1..N, 1..N), NEW S \in SUBSET (1..N)
    PROVE  Cardinality({j \in 1..N : pi[j] \in S}) = Cardinality(S)
<1> DEFINE T == {j \in 1..N : pi[j] \in S}
           f == [j \in T |-> pi[j]]
<1>1. pi \in [1..N -> 1..N] /\ (\A a, b \in 1..N : pi[a] = pi[b] => a = b)
      /\ (\A s \in 1..N : \E j \in 1..N : pi[j] = s)
  BY DEF Bijection, Injection, Surjection, IsInjective
<1>2. IsFiniteSet(T)
  <2>1. T \in SUBSET (1..N)
    OBVIOUS
  <2> QED
    BY <2>1, FS_Interval, FS_Subset
<1>3. f \in Bijection(T, S)
  <2>1. f \in [T -> S]
    OBVIOUS
  <2>2. \A a, b \in T : f[a] = f[b] => a = b
    BY <1>1
  <2>3. \A s \in S : \E j \in T : f[j] = s
    BY <1>1
  <2> QED
    BY <2>1, <2>2, <2>3, Fun_IsBij, Zenon
<1> QED
  BY <1>2, <1>3, FS_Bijection, Zenon DEF ExistsBijection

\* The same elements in another order.
Rearranged(a, b) ==
    /\ Len(b) = Len(a)
    /\ \E pi \in Bijection(1..Len(a), 1..Len(a)) : \A j \in 1..Len(a) : b[j] = a[pi[j]]

LEMMA RearrangedRank ==
    ASSUME NEW a \in Seq(Int), NEW b \in Seq(Int), Rearranged(a, b),
           NEW r, NEW x
    PROVE  HasRank(a, r, x) <=> HasRank(b, r, x)
<1> DEFINE N == Len(a)
<1>1. PICK pi \in Bijection(1..N, 1..N) : \A j \in 1..N : b[j] = a[pi[j]]
  BY DEF Rearranged
<1>2. Len(b) = N /\ N \in Nat
  BY DEF Rearranged
<1>3. pi \in [1..N -> 1..N] /\ (\A s \in 1..N : \E j \in 1..N : pi[j] = s)
  BY <1>1 DEF Bijection, Injection, Surjection, IsInjective
<1>4. Below(b, x) = {j \in 1..N : pi[j] \in Below(a, x)}
  BY <1>1, <1>2, <1>3 DEF Below
<1>5. UpTo(b, x) = {j \in 1..N : pi[j] \in UpTo(a, x)}
  BY <1>1, <1>2, <1>3 DEF UpTo
<1>6. Below(a, x) \in SUBSET (1..N) /\ UpTo(a, x) \in SUBSET (1..N)
  BY DEF Below, UpTo
<1>7. /\ Cardinality(Below(b, x)) = Cardinality(Below(a, x))
      /\ Cardinality(UpTo(b, x)) = Cardinality(UpTo(a, x))
  <2> HIDE DEF N
  <2>1. \A S \in SUBSET (1..N) :
            Cardinality({j \in 1..N : pi[j] \in S}) = Cardinality(S)
    BY <1>1, <1>2, SameMany
  <2> QED
    BY <2>1, <1>4, <1>5, <1>6
<1>8. (\E j \in 1..Len(a) : a[j] = x) <=> (\E j \in 1..Len(b) : b[j] = x)
  <2>1. ASSUME NEW j \in 1..N, a[j] = x  PROVE \E l \in 1..N : b[l] = x
    BY <2>1, <1>1, <1>3
  <2>2. ASSUME NEW j \in 1..N, b[j] = x  PROVE \E l \in 1..N : a[l] = x
    BY <2>2, <1>1, <1>3
  <2> QED
    BY <2>1, <2>2, <1>2
<1> QED
  BY <1>7, <1>8 DEF HasRank

\* Exchanging two elements.
LEMMA ExchangedRearranged ==
    ASSUME NEW a \in Seq(Int), NEW i1 \in 1..Len(a), NEW j1 \in 1..Len(a)
    PROVE  /\ Exchanged(a, i1, j1) \in Seq(Int)
           /\ Rearranged(a, Exchanged(a, i1, j1))
<1> DEFINE N == Len(a)
           b == Exchanged(a, i1, j1)
           pi == [l \in 1..N |-> IF l = i1 THEN j1 ELSE IF l = j1 THEN i1 ELSE l]
<1>1. b \in Seq(Int) /\ Len(b) = N
  BY DEF Exchanged
<1>2. pi \in Bijection(1..N, 1..N)
  <2>1. pi \in [1..N -> 1..N]
    OBVIOUS
  <2>2. \A l, m \in 1..N : pi[l] = pi[m] => l = m
    OBVIOUS
  <2>3. \A s \in 1..N : \E l \in 1..N : pi[l] = s
    <3> TAKE s \in 1..N
    <3>1. pi[pi[s]] = s /\ pi[s] \in 1..N
      OBVIOUS
    <3> QED
      BY <3>1
  <2> QED
    BY <2>1, <2>2, <2>3, Fun_IsBij, Zenon
<1>3. \A l \in 1..N : b[l] = a[pi[l]]
  BY DEF Exchanged
<1> QED
  BY <1>1, <1>2, <1>3 DEF Rearranged

\* A turn of insertion_sort moves one element in front of some of its group.
LEMMA InsertedRearranged ==
    ASSUME NEW a \in Seq(Int), NEW m \in 0..(Len(a) - 1)
    PROVE  /\ Inserted(a, m) \in Seq(Int)
           /\ Rearranged(a, Inserted(a, m))
<1> DEFINE N == Len(a)
           b == Inserted(a, m)
           start == m - (m % 5)
           S == {start} \union {j \in (start + 1)..m : a[j] <= a[m + 1]}
           place == PlaceInGroup(a, m)
           pi == [l \in 1..N |-> IF l = place THEN m + 1
                                 ELSE IF l \in place..(m + 1) THEN l - 1 ELSE l]
<1>1. place \in 1..(m + 1)
  <2>1. start \in 0..m
    OBVIOUS
  <2>2. S \in SUBSET (0..m) /\ S # {}
    BY <2>1
  <2>3. Greatest(S) \in 0..m
    <3>1. 0 \in Int /\ m \in Int
      OBVIOUS
    <3> HIDE DEF S
    <3>2. Greatest(S) \in S
      BY <2>2, <3>1, GreatestIn, Zenon
    <3> QED
      BY <2>2, <3>2
  <2>4. place = Greatest(S) + 1
    BY DEF PlaceInGroup
  <2> QED
    BY <2>3, <2>4
<1> HIDE DEF place
<1>2. b \in Seq(Int) /\ Len(b) = N /\ \A l \in 1..N : b[l] = a[pi[l]]
  <2>1. b = [l \in 1..N |-> IF l = place THEN a[m + 1]
                            ELSE IF l \in place..(m + 1) THEN a[l - 1] ELSE a[l]]
    BY DEF Inserted, place
  <2> QED
    BY <1>1, <2>1
<1>3. pi \in Bijection(1..N, 1..N)
  <2>1. pi \in [1..N -> 1..N]
    BY <1>1
  <2>2. \A l, o \in 1..N : pi[l] = pi[o] => l = o
    BY <1>1
  <2>3. \A s \in 1..N : \E l \in 1..N : pi[l] = s
    <3> TAKE s \in 1..N
    <3>1. CASE s = m + 1
      BY <3>1, <1>1
    <3>2. CASE s \in place..m
      <4>1. s + 1 \in 1..N /\ s + 1 # place /\ s + 1 \in place..(m + 1)
        BY <3>2, <1>1
      <4>2. pi[s + 1] = s + 1 - 1
        BY <4>1
      <4> QED
        BY <4>1, <4>2
    <3>3. CASE s < place \/ s > m + 1
      BY <3>3, <1>1
    <3> QED
      BY <3>1, <3>2, <3>3, <1>1
  <2> QED
    BY <2>1, <2>2, <2>3, Fun_IsBij, Zenon
<1> QED
  BY <1>2, <1>3 DEF Rearranged

\* There are fewer medians than elements, at least one, and they are elements.
LEMMA MediansOfGroups ==
    ASSUME NEW a \in Seq(Int), Len(a) > 1
    PROVE  /\ Medians(a) \in Seq(Int)
           /\ Len(Medians(a)) \in 1..(Len(a) - 1)
           /\ \A g \in 1..Len(Medians(a)) : \E j \in 1..Len(a) : Medians(a)[g] = a[j]
<1> DEFINE N == Len(a)
           gr_5 == N \div 5
           rem_elts == N % 5
           gr_tot == IF rem_elts = 0 THEN gr_5 ELSE gr_5 + 1
           at == [g \in 1..gr_tot |-> IF g <= gr_5 THEN 5 * g - 2 ELSE N - rem_elts \div 2]
<1>1. N \in Nat /\ gr_5 \in Nat /\ rem_elts \in 0..4 /\ N = 5 * gr_5 + rem_elts
  OBVIOUS
<1>2. gr_tot \in 1..(N - 1)
  BY <1>1
<1>3. at \in [1..gr_tot -> 1..N]
  <2>1. ASSUME NEW g \in 1..gr_tot  PROVE at[g] \in 1..N
    <3>1. CASE g <= gr_5
      <4>1. 5 * g - 2 \in 1..N
        BY <1>1, <3>1
      <4> QED
        BY <3>1, <4>1
    <3>2. CASE g > gr_5
      <4>1. rem_elts # 0 /\ rem_elts \div 2 \in 0..2
        BY <1>1, <3>2
      <4>2. N - rem_elts \div 2 \in 1..N
        BY <1>1, <4>1, Len(a) > 1
      <4> QED
        BY <3>2, <4>2, <1>1
    <3> QED
      BY <3>1, <3>2, <1>1
  <2> QED
    BY <2>1
<1>4. Medians(a) = [g \in 1..gr_tot |-> a[at[g]]]
  BY <1>1, <1>3 DEF Medians
<1> HIDE DEF gr_tot, at
<1>5. Len(Medians(a)) = gr_tot /\ Medians(a) \in Seq(Int)
  BY <1>2, <1>3, <1>4
<1> QED
  BY <1>2, <1>3, <1>4, <1>5

\* The lower median's rank is one of the array's.
LEMMA MedianRankFits ==
    ASSUME NEW length \in Nat, length > 0
    PROVE  MedianRank(length) \in 0..(length - 1)
BY DEF MedianRank

\* Positions up to i and the positions of S behind them.
LEMMA ManyBehind ==
    ASSUME NEW i1 \in Nat, NEW M \in Nat, NEW S \in SUBSET (1..M)
    PROVE  Cardinality((1..i1) \union {i1 + l : l \in S}) = i1 + Cardinality(S)
<1> DEFINE T == {i1 + l : l \in S}
           f == [l \in S |-> i1 + l]
<1>1. IsFiniteSet(S)
  <2>1. IsFiniteSet(1..M)
    BY FS_Interval
  <2> QED
    BY <2>1, FS_Subset
<1>2. f \in Bijection(S, T)
  <2>1. f \in [S -> T]
    OBVIOUS
  <2>2. \A l, m \in S : f[l] = f[m] => l = m
    OBVIOUS
  <2>3. \A u \in T : \E l \in S : f[l] = u
    OBVIOUS
  <2> QED
    BY <2>1, <2>2, <2>3, Fun_IsBij, Zenon
<1>3. IsFiniteSet(T) /\ Cardinality(T) = Cardinality(S)
  BY <1>1, <1>2, FS_Bijection, Zenon DEF ExistsBijection
<1>4. IsFiniteSet(1..i1) /\ Cardinality(1..i1) = i1
  BY FS_Interval
<1>5. (1..i1) \cap T = {}
  OBVIOUS
<1>6. Cardinality(S) \in Nat
  BY <1>1, FS_CardinalityType
<1> HIDE DEF T
<1>7. Cardinality((1..i1) \union T) = i1 + Cardinality(T) - Cardinality({})
  BY <1>3, <1>4, <1>5, FS_Union
<1> QED
  BY <1>3, <1>6, <1>7, FS_EmptySet DEF T

\* An array divided at its i1-th element, as partition_array leaves it.
DividedAt(a, i1) ==
    /\ \A l \in 1..i1 : a[l] <= a[i1]
    /\ \A l \in (i1 + 1)..Len(a) : a[l] > a[i1]

\* Sets of positions are finite, and smaller ones have fewer.
LEMMA PositionsMany ==
    ASSUME NEW N \in Nat, NEW S \in SUBSET (1..N), NEW T \in SUBSET S
    PROVE  /\ Cardinality(S) \in Nat /\ Cardinality(T) \in Nat
           /\ Cardinality(T) <= Cardinality(S)
<1>1. IsFiniteSet(1..N)
  BY FS_Interval
<1>2. IsFiniteSet(S)
  BY <1>1, FS_Subset
<1>3. IsFiniteSet(T) /\ Cardinality(T) <= Cardinality(S)
  BY <1>2, FS_Subset
<1> QED
  BY <1>2, <1>3, FS_CardinalityType

\* The pivot's rank is how many there are in front of it.
LEMMA PivotRank ==
    ASSUME NEW a \in Seq(Int), NEW i1 \in 1..Len(a), DividedAt(a, i1)
    PROVE  HasRank(a, i1 - 1, a[i1])
<1> DEFINE x == a[i1]
<1>1. UpTo(a, x) = 1..i1
  BY DEF DividedAt, UpTo
<1>2. Below(a, x) \in SUBSET (1..(i1 - 1))
  BY DEF DividedAt, Below
<1>3. Cardinality(1..i1) = i1 /\ Cardinality(1..(i1 - 1)) = i1 - 1
  BY FS_Interval
<1>4. Cardinality(Below(a, x)) <= i1 - 1
  <2>1. i1 - 1 \in Nat /\ 1..(i1 - 1) \in SUBSET (1..(i1 - 1))
    OBVIOUS
  <2>2. Cardinality(Below(a, x)) <= Cardinality(1..(i1 - 1))
    BY <1>2, <2>1, PositionsMany, Zenon
  <2> QED
    BY <1>3, <2>2
<1> QED
  BY <1>1, <1>3, <1>4 DEF HasRank

\* What has a rank among the elements in front of the pivot has it in the array.
LEMMA LeftRank ==
    ASSUME NEW a \in Seq(Int), NEW i1 \in 1..Len(a), DividedAt(a, i1),
           NEW r \in Int, NEW x, HasRank(SubSeq(a, 1, i1 - 1), r, x)
    PROVE  HasRank(a, r, x)
<1> DEFINE b == SubSeq(a, 1, i1 - 1)
<1>1. b \in Seq(Int) /\ Len(b) = i1 - 1 /\ \A l \in 1..(i1 - 1) : b[l] = a[l]
  OBVIOUS
<1>2. PICK o \in 1..(i1 - 1) : a[o] = x
  BY <1>1 DEF HasRank
<1>3. x \in Int /\ x <= a[i1]
  BY <1>2 DEF DividedAt
<1> HIDE DEF b
<1>4. Below(a, x) = Below(b, x)
  <2>1. ASSUME NEW l1 \in Below(a, x)  PROVE l1 \in Below(b, x)
    <3>1. l1 \in 1..Len(a) /\ a[l1] < x
      BY <2>1 DEF Below
    <3>2. l1 # i1 /\ ~(l1 \in (i1 + 1)..Len(a))
      BY <3>1, <1>3 DEF DividedAt
    <3> QED
      BY <3>1, <3>2, <1>1 DEF Below
  <2>2. ASSUME NEW l1 \in Below(b, x)  PROVE l1 \in Below(a, x)
    BY <2>2, <1>1 DEF Below
  <2> QED
    BY <2>1, <2>2
<1>5. UpTo(b, x) \in SUBSET UpTo(a, x) /\ UpTo(a, x) \in SUBSET (1..Len(a))
  BY <1>1 DEF UpTo
<1>6. /\ Cardinality(UpTo(b, x)) \in Nat /\ Cardinality(UpTo(a, x)) \in Nat
      /\ Cardinality(UpTo(b, x)) <= Cardinality(UpTo(a, x))
  <2>1. Len(a) \in Nat
    OBVIOUS
  <2> QED
    BY <1>5, <2>1, PositionsMany, Zenon
<1>7. Cardinality(Below(b, x)) <= r /\ r < Cardinality(UpTo(b, x))
  BY DEF HasRank, b
<1> QED
  BY <1>2, <1>4, <1>6, <1>7 DEF HasRank

\* What has a rank among those behind the pivot has it, and the rank of the first
\* of them, in the array.
LEMMA RightRank ==
    ASSUME NEW a \in Seq(Int), NEW i1 \in 1..Len(a), DividedAt(a, i1),
           NEW r \in Int, NEW x, HasRank(SubSeq(a, i1 + 1, Len(a)), r - i1, x)
    PROVE  HasRank(a, r, x)
<1> DEFINE M == Len(a) - i1
           b == SubSeq(a, i1 + 1, Len(a))
<1>1. b \in Seq(Int) /\ Len(b) = M /\ M \in Nat /\ \A l \in 1..M : b[l] = a[i1 + l]
  <2>1. i1 + 1 \in Int /\ Len(a) \in Int /\ \A l \in (i1 + 1)..Len(a) : a[l] \in Int
    OBVIOUS
  <2>2. /\ b \in Seq(Int)
        /\ Len(b) = IF i1 + 1 <= Len(a) THEN Len(a) - (i1 + 1) + 1 ELSE 0
        /\ \A l \in 1..(Len(a) - (i1 + 1) + 1) : b[l] = a[i1 + 1 + l - 1]
    BY <2>1, SubSeqProperties
  <2> QED
    BY <2>2
<1>2. PICK o \in 1..M : a[i1 + o] = x
  BY <1>1 DEF HasRank
<1>3. x \in Int /\ a[i1] < x
  BY <1>2 DEF DividedAt
<1>4. Cardinality(Below(b, x)) <= r - i1 /\ r - i1 < Cardinality(UpTo(b, x))
  BY DEF HasRank
<1> HIDE DEF b
<1>5. \A l \in 1..i1 : a[l] \in Int /\ a[l] < x
  BY <1>3 DEF DividedAt
<1>6. \A l \in (i1 + 1)..Len(a) : l - i1 \in 1..M /\ a[l] = b[l - i1] /\ l = i1 + (l - i1)
  <2> TAKE l1 \in (i1 + 1)..Len(a)
  <2>1. l1 - i1 \in 1..M /\ l1 = i1 + (l1 - i1)
    OBVIOUS
  <2> QED
    BY <1>1, <2>1
<1>7. Below(a, x) = (1..i1) \union {i1 + j : j \in Below(b, x)}
  <2>1. ASSUME NEW l \in Below(a, x)
        PROVE  l \in (1..i1) \union {i1 + j : j \in Below(b, x)}
    <3>1. CASE l <= i1
      BY <2>1, <3>1 DEF Below
    <3>2. CASE l > i1
      <4>1. l \in (i1 + 1)..Len(a) /\ a[l] < x
        BY <2>1, <3>2 DEF Below
      <4>2. l - i1 \in Below(b, x) /\ l = i1 + (l - i1)
        BY <4>1, <1>1, <1>6 DEF Below
      <4> QED
        BY <4>2
    <3> QED
      BY <2>1, <3>1, <3>2 DEF Below
  <2>2. ASSUME NEW l \in 1..i1  PROVE l \in Below(a, x)
    BY <2>2, <1>5 DEF Below
  <2>3. ASSUME NEW j \in Below(b, x)  PROVE i1 + j \in Below(a, x)
    BY <2>3, <1>1 DEF Below
  <2> QED
    BY <2>1, <2>2, <2>3
<1>8. UpTo(a, x) = (1..i1) \union {i1 + j : j \in UpTo(b, x)}
  <2>1. ASSUME NEW l \in UpTo(a, x)
        PROVE  l \in (1..i1) \union {i1 + j : j \in UpTo(b, x)}
    <3>1. CASE l <= i1
      BY <2>1, <3>1 DEF UpTo
    <3>2. CASE l > i1
      <4>1. l \in (i1 + 1)..Len(a) /\ a[l] <= x
        BY <2>1, <3>2 DEF UpTo
      <4>2. l - i1 \in UpTo(b, x) /\ l = i1 + (l - i1)
        BY <4>1, <1>1, <1>6 DEF UpTo
      <4> QED
        BY <4>2
    <3> QED
      BY <2>1, <3>1, <3>2 DEF UpTo
  <2>2. ASSUME NEW l \in 1..i1  PROVE l \in UpTo(a, x)
    BY <2>2, <1>3, <1>5 DEF UpTo
  <2>3. ASSUME NEW j \in UpTo(b, x)  PROVE i1 + j \in UpTo(a, x)
    BY <2>3, <1>1 DEF UpTo
  <2> QED
    BY <2>1, <2>2, <2>3
<1>9. Below(b, x) \in SUBSET (1..M) /\ UpTo(b, x) \in SUBSET (1..M)
  BY <1>1 DEF Below, UpTo
<1>10. /\ Cardinality(Below(a, x)) = i1 + Cardinality(Below(b, x))
       /\ Cardinality(UpTo(a, x)) = i1 + Cardinality(UpTo(b, x))
  <2>1. i1 \in Nat
    OBVIOUS
  <2>2. \A S \in SUBSET (1..M) :
            Cardinality((1..i1) \union {i1 + j : j \in S}) = i1 + Cardinality(S)
    BY <1>1, <2>1, ManyBehind, Zenon
  <2> QED
    BY <1>7, <1>8, <1>9, <2>2
<1>11. Cardinality(Below(b, x)) \in Nat /\ Cardinality(UpTo(b, x)) \in Nat
  BY <1>1, <1>9, PositionsMany
<1>12. i1 + o \in 1..Len(a)
  BY <1>2
<1> QED
  BY <1>2, <1>4, <1>10, <1>11, <1>12 DEF HasRank

\* The loop that partition_array and partition_features have in common: i1 elements
\* up to the pivot, then those above it up to m1, then those not looked at; p1 is
\* where the pivot was met last, or it is still to come.
LoopAt(a, pivot, i1, m1, p1) ==
    /\ i1 <= m1 /\ p1 <= i1
    /\ \A l \in 1..i1 : a[l] <= pivot
    /\ \A l \in (i1 + 1)..m1 : a[l] > pivot
    /\ p1 = 0 => \E l \in (m1 + 1)..Len(a) : a[l] = pivot
    /\ p1 # 0 => a[p1] = pivot

LEMMA LoopTurnBelow ==
    ASSUME NEW a \in Seq(Int), NEW pivot \in Int, NEW i1 \in Nat, NEW p1 \in Nat,
           NEW m1 \in Nat, m1 < Len(a), LoopAt(a, pivot, i1, m1, p1), a[m1 + 1] <= pivot
    PROVE  /\ i1 + 1 \in 1..Len(a) /\ m1 + 1 \in 1..Len(a)
           /\ LoopAt(Exchanged(a, i1 + 1, m1 + 1), pivot, i1 + 1, m1 + 1,
                     IF a[m1 + 1] = pivot THEN i1 + 1 ELSE p1)
<1> DEFINE b == Exchanged(a, i1 + 1, m1 + 1)
           q == IF a[m1 + 1] = pivot THEN i1 + 1 ELSE p1
<1>1. i1 <= m1 /\ p1 <= i1 /\ Len(a) \in Nat
  BY DEF LoopAt
<1>2. i1 + 1 \in 1..Len(a) /\ m1 + 1 \in 1..Len(a)
  BY <1>1
<1>3. /\ Len(b) = Len(a)
      /\ \A l \in 1..Len(a) : b[l] = IF l = m1 + 1 THEN a[i1 + 1]
                                     ELSE IF l = i1 + 1 THEN a[m1 + 1] ELSE a[l]
  BY <1>2 DEF Exchanged
<1> HIDE DEF b
<1>4. \A l \in 1..(i1 + 1) : b[l] <= pivot
  BY <1>1, <1>2, <1>3 DEF LoopAt
<1>5. \A l \in (i1 + 2)..(m1 + 1) : b[l] > pivot
  <2> SUFFICES ASSUME NEW l \in (i1 + 2)..(m1 + 1)  PROVE b[l] > pivot
    OBVIOUS
  <2>1. l \in 1..Len(a) /\ l # i1 + 1
    BY <1>1
  <2>2. CASE l = m1 + 1
    <3>1. b[l] = a[i1 + 1] /\ i1 + 1 \in (i1 + 1)..m1
      BY <1>1, <1>3, <2>1, <2>2
    <3> QED
      BY <3>1 DEF LoopAt
  <2>3. CASE l # m1 + 1
    <3>1. b[l] = a[l] /\ l \in (i1 + 1)..m1
      BY <1>1, <1>3, <2>1, <2>3
    <3> QED
      BY <3>1 DEF LoopAt
  <2> QED
    BY <2>2, <2>3
<1>6. ASSUME q = 0  PROVE \E l \in (m1 + 2)..Len(b) : b[l] = pivot
  <2>1. a[m1 + 1] # pivot /\ p1 = 0
    BY <1>6
  <2>2. PICK o \in (m1 + 1)..Len(a) : a[o] = pivot
    BY <2>1 DEF LoopAt
  <2>3. o # m1 + 1
    BY <2>1, <2>2
  <2>4. o \in (m1 + 2)..Len(b) /\ o \in 1..Len(a) /\ o # i1 + 1
    BY <1>1, <1>3, <2>3
  <2>5. b[o] = a[o]
    BY <1>3, <2>3, <2>4
  <2> QED
    BY <2>2, <2>4, <2>5
<1>7. ASSUME q # 0  PROVE b[q] = pivot
  <2>1. CASE a[m1 + 1] = pivot
    <3>1. b[i1 + 1] = a[m1 + 1]
      BY <1>2, <1>3
    <3> QED
      BY <2>1, <3>1
  <2>2. CASE a[m1 + 1] # pivot
    <3>1. q = p1 /\ p1 \in 1..Len(a) /\ p1 # i1 + 1 /\ p1 # m1 + 1
      BY <1>1, <1>2, <1>7, <2>2
    <3>2. b[p1] = a[p1]
      BY <1>3, <3>1
    <3> QED
      BY <1>7, <3>1, <3>2 DEF LoopAt
  <2> QED
    BY <2>1, <2>2
<1>8. i1 + 1 <= m1 + 1 /\ q <= i1 + 1
  BY <1>1
<1>9. (i1 + 1) + 1 = i1 + 2 /\ (m1 + 1) + 1 = m1 + 2
  OBVIOUS
<1> HIDE DEF q
<1>10. LoopAt(b, pivot, i1 + 1, m1 + 1, q)
  BY <1>4, <1>5, <1>6, <1>7, <1>8, <1>9 DEF LoopAt
<1> QED
  BY <1>2, <1>10 DEF b, q

LEMMA LoopTurnAbove ==
    ASSUME NEW a \in Seq(Int), NEW pivot \in Int, NEW i1 \in Nat, NEW p1 \in Nat,
           NEW m1 \in Nat, m1 < Len(a), LoopAt(a, pivot, i1, m1, p1),
           ~(a[m1 + 1] <= pivot)
    PROVE  LoopAt(a, pivot, i1, m1 + 1, p1)
<1>1. i1 <= m1 + 1 /\ p1 <= i1 /\ Len(a) \in Nat /\ i1 <= m1
  BY DEF LoopAt
<1>2. a[m1 + 1] \in Int
  BY <1>1
<1>3. \A l \in (i1 + 1)..(m1 + 1) : a[l] > pivot
  <2> SUFFICES ASSUME NEW l \in (i1 + 1)..(m1 + 1)  PROVE a[l] > pivot
    OBVIOUS
  <2>1. CASE l = m1 + 1
    BY <1>2, <2>1
  <2>2. CASE l # m1 + 1
    <3>1. l \in (i1 + 1)..m1
      BY <2>2
    <3> QED
      BY <3>1 DEF LoopAt
  <2> QED
    BY <2>1, <2>2
<1>4. ASSUME p1 = 0  PROVE \E l \in (m1 + 2)..Len(a) : a[l] = pivot
  <2>1. PICK o \in (m1 + 1)..Len(a) : a[o] = pivot
    BY <1>4 DEF LoopAt
  <2>2. o # m1 + 1
    BY <2>1, <1>2
  <2>3. o \in (m1 + 2)..Len(a)
    BY <1>1, <2>2
  <2> QED
    BY <2>1, <2>3
<1>5. (m1 + 1) + 1 = m1 + 2
  OBVIOUS
<1> QED
  BY <1>1, <1>3, <1>4, <1>5 DEF LoopAt

\* At the end the last element up to the pivot is exchanged with the pivot.
LEMMA LoopEnds ==
    ASSUME NEW a \in Seq(Int), NEW pivot \in Int, NEW i1 \in Nat, NEW p1 \in Nat,
           LoopAt(a, pivot, i1, Len(a), p1)
    PROVE  /\ p1 \in 1..i1 /\ i1 \in 1..Len(a) /\ a[p1] = pivot
           /\ DividedAt(Exchanged(a, p1, i1), i1)
           /\ Exchanged(a, p1, i1)[i1] = pivot
<1> DEFINE b == Exchanged(a, p1, i1)
<1>1. i1 <= Len(a) /\ p1 <= i1 /\ Len(a) \in Nat
  BY DEF LoopAt
<1>2. p1 # 0
  BY <1>1 DEF LoopAt
<1>3. p1 \in 1..i1 /\ i1 \in 1..Len(a) /\ p1 \in 1..Len(a) /\ a[p1] = pivot
  BY <1>1, <1>2 DEF LoopAt
<1>4. /\ Len(b) = Len(a)
      /\ \A l \in 1..Len(a) : b[l] = IF l = i1 THEN pivot
                                     ELSE IF l = p1 THEN a[i1] ELSE a[l]
  BY <1>3 DEF Exchanged
<1> HIDE DEF b
<1>5. \A l \in 1..i1 : a[l] <= pivot
  BY DEF LoopAt
<1>6. \A l \in (i1 + 1)..Len(a) : a[l] > pivot
  BY DEF LoopAt
<1>7. b[i1] = pivot
  BY <1>3, <1>4
<1>8. \A l \in 1..i1 : b[l] <= pivot
  <2> SUFFICES ASSUME NEW l \in 1..i1  PROVE b[l] <= pivot
    OBVIOUS
  <2>1. l \in 1..Len(a) /\ i1 \in 1..i1
    BY <1>1, <1>3
  <2> QED
    BY <2>1, <1>4, <1>5
<1>9. \A l \in (i1 + 1)..Len(b) : b[l] > pivot
  <2> SUFFICES ASSUME NEW l \in (i1 + 1)..Len(a)  PROVE b[l] > pivot
    BY <1>4
  <2>1. l \in 1..Len(a) /\ l # i1 /\ l # p1
    BY <1>1, <1>3
  <2> QED
    BY <2>1, <1>4, <1>6
<1>10. DividedAt(b, i1)
  BY <1>7, <1>8, <1>9 DEF DividedAt
<1> QED
  BY <1>3, <1>7, <1>10 DEF b

-----------------------------------------------------------------------------
(* Selection by rank.                                                      *)

Activations ==
    [array: Seq(Int), r: Nat, at: {"sorting", "waiting", "partitioning"},
     m: Nat, pivot: Int, i: Nat, p: Nat]

PartitionLoop(c) == LoopAt(c.array, c.pivot, c.i, c.m, c.p)

ActivationOK(c) ==
    /\ c \in Activations
    /\ c.r < Len(c.array) /\ c.m <= Len(c.array)
    /\ c.at # "sorting" => Len(c.array) > 1
    /\ c.at = "partitioning" => PartitionLoop(c)
    /\ c.at # "partitioning" => c.i = 0 /\ c.p = 0

\* What an activation may return.
Answers(array, r) == {x \in ToSet(array) : HasRank(array, r, x)}
AnswersOf(c) == Answers(c.array, c.r)

SelectTypeOK ==
    /\ given.array \in Seq(Int)
    /\ given.r \in Nat
    /\ selected \in Int
    /\ calls \in Seq(Activations)
    /\ \A c \in 1..Len(calls) : ActivationOK(calls[c])

\* Who waits for whom: a caller waits for one of its elements from fewer of them.
Waits ==
    /\ \A c \in 1..(Len(calls) - 1) :
         /\ calls[c].at = "waiting"
         /\ Len(calls[c + 1].array) < Len(calls[c].array)
         /\ AnswersOf(calls[c + 1]) \subseteq ToSet(calls[c].array)
    /\ calls # <<>> => call.at # "waiting"

\* The outermost activation has gone over to a part of the array, but whatever it
\* may return is still what was asked for.
Leads ==
    /\ calls # <<>> => AnswersOf(calls[1]) \subseteq Answers(given.array, given.r)
    /\ calls = <<>> => HasRank(given.array, given.r, selected)

SelectInv == SelectTypeOK /\ Waits /\ Leads

LEMMA LastCall ==
    ASSUME NEW s, NEW S, s \in Seq(S), s # <<>>
    PROVE  /\ Len(s) \in Nat \ {0}
           /\ Last(s) = s[Len(s)]
           /\ \A j \in 1..Len(s) : s[j] \in S
BY DEF Last

\* Elements and answers of an array.
LEMMA ElementsAre ==
    ASSUME NEW a \in Seq(Int)
    PROVE  /\ ToSet(a) \subseteq Int
           /\ \A j \in 1..Len(a) : a[j] \in ToSet(a)
           /\ \A x \in ToSet(a) : \E j \in 1..Len(a) : a[j] = x
BY DEF ToSet

LEMMA AnswersAre ==
    ASSUME NEW a \in Seq(Int), NEW r, NEW x
    PROVE  x \in Answers(a, r) <=> HasRank(a, r, x)
BY ElementsAre DEF Answers, HasRank

\* The innermost activation goes on, as itself or as a call in its return.
LEMMA BecomesKeeps ==
    ASSUME SelectInv, calls # <<>>, UNCHANGED given,
           NEW new, ActivationOK(new), new.at # "waiting",
           Len(new.array) <= Len(call.array),
           AnswersOf(new) \subseteq AnswersOf(call),
           Becomes(new)
    PROVE  SelectInv'
<1> DEFINE L == Len(calls)
<1>1. L \in Nat \ {0} /\ call = calls[L] /\ calls \in Seq(Activations)
  BY LastCall DEF SelectInv, SelectTypeOK, call
<1>2. new \in Activations
  BY DEF ActivationOK
<1>3. /\ calls' \in Seq(Activations) /\ Len(calls') = L /\ calls' # <<>>
      /\ \A c \in 1..L : calls'[c] = IF c = L THEN new ELSE calls[c]
      /\ selected' = selected /\ given' = given
  BY <1>1, <1>2 DEF Becomes
<1>4. call' = new
  BY <1>1, <1>3, LastCall DEF call
<1> HIDE DEF L
<1>5. SelectTypeOK'
  BY <1>1, <1>3 DEF SelectTypeOK, SelectInv, L
<1>6. Waits'
  <2> SUFFICES ASSUME NEW c \in 1..(L - 1)
               PROVE  /\ calls'[c].at = "waiting"
                      /\ Len(calls'[c + 1].array) < Len(calls'[c].array)
                      /\ AnswersOf(calls'[c + 1]) \subseteq ToSet(calls'[c].array)
    BY <1>3, <1>4 DEF Waits, AnswersOf, Answers, HasRank, Below, UpTo
  <2>1. calls'[c] = calls[c]
    BY <1>1, <1>3
  <2>2. /\ calls[c].at = "waiting"
        /\ Len(calls[c + 1].array) < Len(calls[c].array)
        /\ AnswersOf(calls[c + 1]) \subseteq ToSet(calls[c].array)
    BY DEF SelectInv, Waits, L
  <2>3. CASE c + 1 = L
    <3>1. calls'[c + 1] = new /\ calls[c + 1] = call
      BY <2>3, <1>1, <1>3
    <3>2. call \in Activations /\ calls[c] \in Activations
      BY <1>1 DEF L
    <3>3. new.array \in Seq(Int) /\ call.array \in Seq(Int) /\ calls[c].array \in Seq(Int)
      BY <1>2, <3>2 DEF Activations
    <3>4. Len(new.array) \in Nat /\ Len(call.array) \in Nat /\ Len(calls[c].array) \in Nat
      BY <3>3
    <3> QED
      BY <2>1, <2>2, <3>1, <3>4
  <2>4. CASE c + 1 # L
    <3>1. calls'[c + 1] = calls[c + 1]
      BY <2>4, <1>1, <1>3
    <3> QED
      BY <2>1, <2>2, <3>1
  <2> QED
    BY <2>3, <2>4
<1>7. Leads'
  <2>1. AnswersOf(calls'[1]) \subseteq AnswersOf(calls[1])
    BY <1>1, <1>3
  <2>2. AnswersOf(calls[1]) \subseteq Answers(given.array, given.r)
    BY DEF SelectInv, Leads
  <2> QED
    BY <2>1, <2>2, <1>3 DEF Leads, AnswersOf, Answers, HasRank, Below, UpTo
<1> QED
  BY <1>5, <1>6, <1>7 DEF SelectInv

\* An activation returns one of its answers.
LEMMA ReturnsKeeps ==
    ASSUME SelectInv, calls # <<>>, UNCHANGED given,
           NEW x, x \in AnswersOf(call), Returns(x)
    PROVE  SelectInv'
<1> DEFINE L == Len(calls)
<1>1. L \in Nat \ {0} /\ call = calls[L] /\ calls \in Seq(Activations)
  BY LastCall DEF SelectInv, SelectTypeOK, call
<1>2. \A c \in 1..L : ActivationOK(calls[c]) /\ calls[c] \in Activations
  BY <1>1 DEF SelectInv, SelectTypeOK
<1>3. call.array \in Seq(Int) /\ x \in ToSet(call.array) /\ x \in Int
  <2>1. call \in Activations
    BY <1>1
  <2>2. call.array \in Seq(Int)
    BY <2>1 DEF Activations
  <2>3. x \in ToSet(call.array)
    BY DEF AnswersOf, Answers
  <2> QED
    BY <2>2, <2>3, ElementsAre
<1>4. given.array \in Seq(Int) /\ given.r \in Nat
  BY DEF SelectInv, SelectTypeOK
<1>5. CASE L = 1
  <2>1. calls' = <<>> /\ selected' = x /\ given' = given
    BY <1>5 DEF Returns
  <2>2. x \in Answers(given.array, given.r)
    BY <1>1, <1>5 DEF SelectInv, Leads
  <2>3. Leads'
    BY <2>1, <2>2 DEF Leads, Answers, HasRank, Below, UpTo
  <2>4. Waits'
    BY <2>1 DEF Waits
  <2>5. SelectTypeOK'
    BY <2>1, <1>3, <1>4 DEF SelectTypeOK
  <2> QED
    BY <2>3, <2>4, <2>5 DEF SelectInv
<1>6. CASE L > 1
  <2> DEFINE caller == Front(calls)[L - 1]
             new == [caller EXCEPT !.at = "partitioning", !.m = 0, !.pivot = x]
  <2>1. /\ Front(calls) \in Seq(Activations)
        /\ Len(Front(calls)) = L - 1
        /\ \A c \in 1..(L - 1) : Front(calls)[c] = calls[c]
    BY <1>1, <1>6 DEF Front
  <2>2. calls' = [Front(calls) EXCEPT ![L - 1] = new] /\ selected' = selected
    <3>1. Len(calls) # 1
      BY <1>6
    <3> QED
      BY <3>1, Zenon DEF Returns
  <2>3. /\ caller \in Activations /\ ActivationOK(caller) /\ caller.at = "waiting"
        /\ AnswersOf(call) \subseteq ToSet(caller.array)
    <3>1. L - 1 \in 1..(Len(calls) - 1) /\ L - 1 + 1 = L
      BY <1>1, <1>6
    <3>0. caller = calls[L - 1]
      BY <1>1, <1>6, <2>1
    <3>2. caller \in Activations /\ ActivationOK(caller)
      BY <1>2, <3>0, <3>1
    <3>3. caller.at = "waiting" /\ AnswersOf(calls[L - 1 + 1]) \subseteq ToSet(caller.array)
      BY <3>0, <3>1 DEF SelectInv, Waits
    <3> QED
      BY <1>1, <3>1, <3>2, <3>3
  <2>4. \E l \in 1..Len(caller.array) : caller.array[l] = x
    BY <2>3, ElementsAre DEF Activations
  <2>5. /\ new \in Activations /\ new.array = caller.array /\ new.r = caller.r
        /\ new.at = "partitioning" /\ new.m = 0 /\ new.pivot = x
        /\ new.i = 0 /\ new.p = 0
    BY <1>3, <2>3 DEF Activations, ActivationOK
  <2>6. ActivationOK(new)
    <3>1. PartitionLoop(new)
      BY <2>4, <2>5 DEF PartitionLoop, LoopAt
    <3> HIDE DEF new
    <3>2. new.r < Len(new.array) /\ new.m <= Len(new.array) /\ Len(new.array) > 1
      BY <2>3, <2>5 DEF ActivationOK, Activations
    <3> QED
      BY <2>5, <3>1, <3>2 DEF ActivationOK
  <2>12. caller = calls[L - 1]
    BY <1>1, <1>6, <2>1
  <2> HIDE DEF new, caller
  <2>7. /\ calls' \in Seq(Activations) /\ Len(calls') = L - 1 /\ calls' # <<>>
        /\ \A c \in 1..(L - 1) : calls'[c] = IF c = L - 1 THEN new ELSE calls[c]
    BY <1>1, <1>6, <2>1, <2>2, <2>5
  <2> HIDE DEF L
  <2>8. call' = new
    <3>1. calls'[L - 1] = new
      BY <1>1, <1>6, <2>7
    <3> QED
      BY <2>7, <3>1, LastCall DEF call
  <2>9. SelectTypeOK'
    <3>1. \A c \in 1..(L - 1) : ActivationOK(calls'[c])
      BY <1>1, <1>2, <2>6, <2>7
    <3> QED
      BY <1>4, <2>2, <2>7, <3>1 DEF SelectTypeOK, SelectInv
  <2>10. Waits'
    <3> SUFFICES ASSUME NEW c \in 1..(L - 2)
                 PROVE  /\ calls'[c].at = "waiting"
                        /\ Len(calls'[c + 1].array) < Len(calls'[c].array)
                        /\ AnswersOf(calls'[c + 1]) \subseteq ToSet(calls'[c].array)
      <4>1. Len(calls') - 1 = L - 2
        BY <1>1, <2>7
      <4>2. call'.at # "waiting"
        BY <2>5, <2>8
      <4> QED
        BY <4>1, <4>2, <2>8 DEF Waits, AnswersOf, Answers, HasRank, Below, UpTo
    <3>1. c \in 1..(Len(calls) - 1) /\ c \in 1..(L - 1) /\ c + 1 \in 1..(L - 1) /\ c # L - 1
      BY <1>1 DEF L
    <3>2. calls'[c] = calls[c]
      BY <2>7, <3>1
    <3>3. /\ calls[c].at = "waiting"
          /\ Len(calls[c + 1].array) < Len(calls[c].array)
          /\ AnswersOf(calls[c + 1]) \subseteq ToSet(calls[c].array)
      BY <3>1 DEF SelectInv, Waits
    <3>4. calls'[c + 1].array = calls[c + 1].array /\ calls'[c + 1].r = calls[c + 1].r
      BY <2>5, <2>7, <2>12, <3>1
    <3> QED
      BY <3>2, <3>3, <3>4 DEF AnswersOf
  <2>11. Leads'
    <3>1. 1 \in 1..(L - 1)
      BY <1>1, <1>6
    <3>2. calls'[1].array = calls[1].array /\ calls'[1].r = calls[1].r
      BY <2>5, <2>7, <2>12, <3>1
    <3>3. AnswersOf(calls[1]) \subseteq Answers(given.array, given.r)
      BY DEF SelectInv, Leads
    <3>4. AnswersOf(calls'[1]) \subseteq Answers(given.array, given.r)
      BY <3>2, <3>3 DEF AnswersOf
    <3> QED
      BY <2>7, <3>4 DEF Leads, AnswersOf, Answers, HasRank, Below, UpTo
  <2> QED
    BY <2>9, <2>10, <2>11 DEF SelectInv
<1>7. L = 1 \/ L > 1
  <2>1. L \in Nat \ {0}
    BY <1>1
  <2> HIDE DEF L
  <2> QED
    BY <2>1
<1> QED
  BY <1>5, <1>6, <1>7, Zenon

\* What holds of the innermost activation.
LEMMA Innermost ==
    ASSUME SelectInv, calls # <<>>
    PROVE  /\ ActivationOK(call) /\ call.at # "waiting"
           /\ call \in Activations
           /\ call.array \in Seq(Int) /\ size \in Nat \ {0} /\ size = Len(call.array)
           /\ call.r \in 0..(size - 1) /\ call.m \in 0..size
           /\ call.i \in Nat /\ call.p \in Nat /\ call.pivot \in Int
<1>1. Len(calls) \in Nat \ {0} /\ call = calls[Len(calls)]
  BY LastCall DEF SelectInv, SelectTypeOK, call
<1>2. ActivationOK(call) /\ call.at # "waiting"
  BY <1>1 DEF SelectInv, SelectTypeOK, Waits
<1>3. call \in Activations /\ call.r < Len(call.array) /\ call.m <= Len(call.array)
  BY <1>2 DEF ActivationOK
<1>4. /\ call.array \in Seq(Int) /\ call.r \in Nat /\ call.m \in Nat
      /\ call.i \in Nat /\ call.p \in Nat /\ call.pivot \in Int
  BY <1>3 DEF Activations
<1>5. Len(call.array) \in Nat
  BY <1>4
<1> QED
  BY <1>2, <1>3, <1>4, <1>5 DEF size

\* A new activation.
LEMMA CallOK ==
    ASSUME NEW a \in Seq(Int), NEW r \in 0..(Len(a) - 1)
    PROVE  /\ ActivationOK(Call(a, r)) /\ Call(a, r) \in Activations
           /\ Call(a, r).at = "sorting"
           /\ Call(a, r).array = a /\ Call(a, r).r = r
           /\ AnswersOf(Call(a, r)) = Answers(a, r)
BY DEF Call, ActivationOK, Activations, AnswersOf

\* Re-ordering does not change what may be returned.
LEMMA RearrangedAnswers ==
    ASSUME NEW a \in Seq(Int), NEW b \in Seq(Int), Rearranged(a, b), NEW r
    PROVE  Answers(b, r) = Answers(a, r)
<1>1. \A x : HasRank(a, r, x) <=> HasRank(b, r, x)
  BY RearrangedRank
<1>2. \A x : x \in Answers(a, r) <=> HasRank(a, r, x)
  BY AnswersAre
<1>3. \A x : x \in Answers(b, r) <=> HasRank(b, r, x)
  BY AnswersAre
<1> QED
  BY <1>1, <1>2, <1>3

LEMMA ReturnOnlyKeeps ==
    ASSUME SelectInv, calls # <<>>, ReturnOnly
    PROVE  SelectInv'
<1> DEFINE a == call.array
<1>1. a \in Seq(Int) /\ Len(a) = 1 /\ call.r = 0
  BY Innermost DEF ReturnOnly, size
<1>2. DividedAt(a, 1)
  BY <1>1 DEF DividedAt
<1>3. HasRank(a, 1 - 1, a[1])
  BY <1>1, <1>2, PivotRank
<1>4. a[1] \in AnswersOf(call)
  BY <1>1, <1>3, AnswersAre DEF AnswersOf
<1> QED
  BY <1>4, ReturnsKeeps DEF ReturnOnly

LEMMA SortTurnKeeps ==
    ASSUME SelectInv, calls # <<>>, SortTurn
    PROVE  SelectInv'
<1> DEFINE a == call.array
           b == Inserted(a, call.m)
           new == [call EXCEPT !.array = b, !.m = @ + 1]
<1>1. /\ a \in Seq(Int) /\ call \in Activations /\ ActivationOK(call)
      /\ call.m \in 0..(Len(a) - 1) /\ call.at = "sorting" /\ Len(a) > 1
      /\ call.r < Len(a) /\ Len(a) \in Nat /\ call.m \in Nat /\ call.m + 1 \in Nat
  BY Innermost DEF SortTurn, size
<1>2. b \in Seq(Int) /\ Rearranged(a, b)
  BY <1>1, InsertedRearranged
<1>3. Len(b) = Len(a)
  BY <1>2 DEF Rearranged
<1> HIDE DEF b
<1>4. /\ new \in Activations /\ new.array = b /\ new.r = call.r /\ new.at = "sorting"
      /\ new.m = call.m + 1 /\ new.i = call.i /\ new.p = call.p
  BY <1>1, <1>2 DEF Activations
<1> HIDE DEF new
<1>5. ActivationOK(new)
  BY <1>1, <1>3, <1>4 DEF ActivationOK
<1>6. AnswersOf(new) = AnswersOf(call)
  BY <1>1, <1>2, <1>4, RearrangedAnswers DEF AnswersOf
<1>7. Becomes(new) /\ UNCHANGED given
  BY DEF SortTurn, new, b
<1>8. new.at # "waiting" /\ Len(new.array) <= Len(call.array)
  BY <1>1, <1>3, <1>4
<1> QED
  BY <1>5, <1>6, <1>7, <1>8, BecomesKeeps

LEMMA PartitionTurnKeeps ==
    ASSUME SelectInv, calls # <<>>, PartitionTurn
    PROVE  SelectInv'
<1> DEFINE a == call.array
           x == a[call.m + 1]
<1>1. /\ a \in Seq(Int) /\ call \in Activations /\ ActivationOK(call)
      /\ call.m < Len(a) /\ call.at = "partitioning"
      /\ call.r < Len(a) /\ call.i \in Nat /\ call.p \in Nat /\ call.pivot \in Int
      /\ Len(a) \in Nat /\ call.m \in Nat /\ call.m + 1 \in Nat /\ call.i + 1 \in Nat
  BY Innermost DEF PartitionTurn, size
<1>2. LoopAt(a, call.pivot, call.i, call.m, call.p) /\ Len(a) > 1
  BY <1>1 DEF ActivationOK, PartitionLoop
<1>3. CASE x <= call.pivot
  <2> DEFINE b == Exchanged(a, call.i + 1, call.m + 1)
             q == IF x = call.pivot THEN call.i + 1 ELSE call.p
             new == [call EXCEPT !.array = b, !.p = q, !.i = @ + 1, !.m = @ + 1]
  <2>1. /\ call.i + 1 \in 1..Len(a) /\ call.m + 1 \in 1..Len(a)
        /\ LoopAt(b, call.pivot, call.i + 1, call.m + 1, q)
    BY <1>1, <1>2, <1>3, LoopTurnBelow
  <2>2. b \in Seq(Int) /\ Rearranged(a, b)
    BY <1>1, <2>1, ExchangedRearranged
  <2>3. Len(b) = Len(a)
    BY <2>2 DEF Rearranged
  <2> HIDE DEF b
  <2>5. /\ new \in Activations /\ new.array = b /\ new.r = call.r
        /\ new.at = "partitioning" /\ new.pivot = call.pivot
        /\ new.m = call.m + 1 /\ new.i = call.i + 1 /\ new.p = q
    BY <1>1, <2>2 DEF Activations
  <2>6. Becomes(new) /\ UNCHANGED given
    BY <1>3 DEF PartitionTurn, b
  <2> HIDE DEF new, q
  <2>7. ActivationOK(new)
    BY <1>1, <1>2, <2>1, <2>3, <2>5 DEF ActivationOK, PartitionLoop
  <2>8. AnswersOf(new) = AnswersOf(call)
    BY <1>1, <2>2, <2>5, RearrangedAnswers DEF AnswersOf
  <2>9. new.at # "waiting" /\ Len(new.array) <= Len(call.array)
    BY <1>1, <2>3, <2>5
  <2> QED
    BY <2>6, <2>7, <2>8, <2>9, BecomesKeeps
<1>4. CASE ~(x <= call.pivot)
  <2> DEFINE new == [call EXCEPT !.m = @ + 1]
  <2>1. /\ new \in Activations /\ new.array = a /\ new.r = call.r
        /\ new.at = "partitioning" /\ new.pivot = call.pivot
        /\ new.m = call.m + 1 /\ new.i = call.i /\ new.p = call.p
    BY <1>1 DEF Activations
  <2>2. Becomes(new) /\ UNCHANGED given
    BY <1>4 DEF PartitionTurn
  <2> HIDE DEF new
  <2>3. LoopAt(a, call.pivot, call.i, call.m + 1, call.p)
    BY <1>1, <1>2, <1>4, LoopTurnAbove
  <2>4. ActivationOK(new)
    BY <1>1, <1>2, <2>1, <2>3 DEF ActivationOK, PartitionLoop
  <2>5. AnswersOf(new) = AnswersOf(call)
    BY <2>1 DEF AnswersOf
  <2>6. new.at # "waiting" /\ Len(new.array) <= Len(call.array)
    BY <1>1, <2>1
  <2> QED
    BY <2>2, <2>4, <2>5, <2>6, BecomesKeeps
<1> QED
  BY <1>3, <1>4

LEMMA SelectSideKeeps ==
    ASSUME SelectInv, calls # <<>>, SelectSide
    PROVE  SelectInv'
<1> DEFINE a == call.array
           i1 == call.i
           b == Partitioned(call)
<1>1. /\ a \in Seq(Int) /\ call \in Activations /\ ActivationOK(call)
      /\ call.m = Len(a) /\ call.at = "partitioning"
      /\ call.r < Len(a) /\ call.i \in Nat /\ call.p \in Nat /\ call.pivot \in Int
      /\ Len(a) \in Nat /\ call.r \in Nat
  BY Innermost DEF SelectSide, size
<1>2. LoopAt(a, call.pivot, i1, Len(a), call.p)
  BY <1>1 DEF ActivationOK, PartitionLoop
<1>3. /\ call.p \in 1..i1 /\ i1 \in 1..Len(a) /\ a[call.p] = call.pivot
      /\ DividedAt(Exchanged(a, call.p, i1), i1)
      /\ Exchanged(a, call.p, i1)[i1] = call.pivot
  BY <1>1, <1>2, LoopEnds
<1>4. b = Exchanged(a, call.p, i1)
  BY <1>3 DEF Partitioned, Exchanged
<1>5. b \in Seq(Int) /\ Rearranged(a, b)
  <2>1. call.p \in 1..Len(a) /\ i1 \in 1..Len(a)
    BY <1>1, <1>3
  <2> QED
    BY <1>1, <1>4, <2>1, ExchangedRearranged
<1>6. Len(b) = Len(a) /\ DividedAt(b, i1) /\ b[i1] = call.pivot
  BY <1>3, <1>4, <1>5 DEF Rearranged
<1>7. AnswersOf(call) = Answers(b, call.r)
  BY <1>1, <1>5, RearrangedAnswers DEF AnswersOf
<1>8. /\ call.r = i1 - 1 => Returns(call.pivot)
      /\ call.r < i1 - 1 => Becomes(Call(SubSeq(b, 1, i1 - 1), call.r))
      /\ call.r > i1 - 1 => Becomes(Call(SubSeq(b, i1 + 1, Len(b)), call.r - i1))
      /\ UNCHANGED given
  <2>1. i1 - 1 + 2 = i1 + 1 /\ call.r - (i1 - 1) - 1 = call.r - i1 /\ size = Len(b)
    BY <1>1, <1>6 DEF size
  <2> HIDE DEF b
  <2>2. /\ call.r = i1 - 1 => Returns(call.pivot)
        /\ call.r # i1 - 1 /\ call.r < i1 - 1 =>
             Becomes(Call(SubSeq(b, 1, i1 - 1), call.r))
        /\ call.r # i1 - 1 /\ ~(call.r < i1 - 1) =>
             Becomes(Call(SubSeq(b, i1 - 1 + 2, size), call.r - (i1 - 1) - 1))
        /\ UNCHANGED given
    BY Zenon DEF SelectSide, b
  <2>3. /\ call.r < i1 - 1 => call.r # i1 - 1
        /\ call.r > i1 - 1 => call.r # i1 - 1 /\ ~(call.r < i1 - 1)
    BY <1>1
  <2> QED
    BY <2>1, <2>2, <2>3
<1> HIDE DEF b
<1>9. CASE call.r = i1 - 1
  <2>1. HasRank(b, i1 - 1, b[i1])
    BY <1>3, <1>5, <1>6, PivotRank
  <2>2. call.pivot \in AnswersOf(call)
    BY <1>5, <1>6, <1>7, <1>9, <2>1, AnswersAre
  <2> QED
    BY <1>8, <1>9, <2>2, ReturnsKeeps
<1>10. CASE call.r < i1 - 1
  <2> DEFINE c == SubSeq(b, 1, i1 - 1)
  <2>1. c \in Seq(Int) /\ Len(c) = i1 - 1
    BY <1>3, <1>5, <1>6
  <2>2. call.r \in 0..(Len(c) - 1)
    BY <1>1, <1>10, <2>1
  <2>3. Answers(c, call.r) \subseteq Answers(b, call.r)
    <3> SUFFICES ASSUME NEW x \in Answers(c, call.r)  PROVE x \in Answers(b, call.r)
      OBVIOUS
    <3>1. HasRank(c, call.r, x)
      BY DEF Answers
    <3>2. i1 \in 1..Len(b) /\ call.r \in Int
      BY <1>1, <1>3, <1>6
    <3>3. HasRank(b, call.r, x)
      BY <1>5, <1>6, <3>1, <3>2, LeftRank
    <3> QED
      BY <1>5, <3>3, AnswersAre
  <2> HIDE DEF c
  <2>4. /\ ActivationOK(Call(c, call.r)) /\ Call(c, call.r).at = "sorting"
        /\ Call(c, call.r).array = c
        /\ AnswersOf(Call(c, call.r)) = Answers(c, call.r)
    BY <2>1, <2>2, CallOK
  <2>5. Len(c) <= Len(a)
    BY <1>1, <1>3, <2>1
  <2>6. Becomes(Call(c, call.r)) /\ UNCHANGED given
    BY <1>8, <1>10 DEF c
  <2>7. AnswersOf(Call(c, call.r)) \subseteq AnswersOf(call)
    BY <1>7, <2>3, <2>4
  <2> QED
    BY <2>4, <2>5, <2>6, <2>7, BecomesKeeps
<1>11. CASE call.r > i1 - 1
  <2> DEFINE c == SubSeq(b, i1 + 1, Len(b))
             r == call.r - i1
  <2>1. c \in Seq(Int) /\ Len(c) = Len(b) - i1
    <3>1. i1 + 1 \in Int /\ Len(b) \in Int /\ \A l \in (i1 + 1)..Len(b) : b[l] \in Int
      BY <1>1, <1>3, <1>5, <1>6
    <3>2. /\ c \in Seq(Int)
          /\ Len(c) = IF i1 + 1 <= Len(b) THEN Len(b) - (i1 + 1) + 1 ELSE 0
      BY <3>1, SubSeqProperties
    <3> QED
      BY <3>2, <1>1, <1>3, <1>6
  <2>2. r \in 0..(Len(c) - 1)
    <3> HIDE DEF c
    <3> QED
      BY <1>1, <1>3, <1>6, <1>11, <2>1
  <2>3. Answers(c, r) \subseteq Answers(b, call.r)
    <3> SUFFICES ASSUME NEW x \in Answers(c, r)  PROVE x \in Answers(b, call.r)
      OBVIOUS
    <3>1. HasRank(c, r, x)
      BY DEF Answers
    <3>2. i1 \in 1..Len(b) /\ call.r \in Int
      BY <1>1, <1>3, <1>6
    <3>3. HasRank(b, call.r, x)
      BY <1>5, <1>6, <3>1, <3>2, RightRank
    <3> QED
      BY <1>5, <3>3, AnswersAre
  <2> HIDE DEF c, r
  <2>4. /\ ActivationOK(Call(c, r)) /\ Call(c, r).at = "sorting"
        /\ Call(c, r).array = c
        /\ AnswersOf(Call(c, r)) = Answers(c, r)
    BY <2>1, <2>2, CallOK
  <2>5. Len(c) <= Len(a)
    BY <1>1, <1>3, <1>6, <2>1
  <2>6. Becomes(Call(c, r)) /\ UNCHANGED given
    BY <1>8, <1>11 DEF c, r
  <2>7. AnswersOf(Call(c, r)) \subseteq AnswersOf(call)
    BY <1>7, <2>3, <2>4
  <2> QED
    BY <2>4, <2>5, <2>6, <2>7, BecomesKeeps
<1> QED
  BY <1>1, <1>3, <1>9, <1>10, <1>11

\* The activation for the pivot is asked for an element of its caller's array.
LEMMA SelectPivotKeeps ==
    ASSUME SelectInv, calls # <<>>, SelectPivot
    PROVE  SelectInv'
<1> DEFINE L == Len(calls)
           a == call.array
           medians == Medians(a)
           new == Call(medians, MedianRank(Len(medians)))
           waiting == [call EXCEPT !.at = "waiting"]
<1>1. /\ a \in Seq(Int) /\ call \in Activations /\ ActivationOK(call)
      /\ call.at = "sorting" /\ Len(a) > 1 /\ Len(a) \in Nat
  BY Innermost DEF SelectPivot, size
<1>2. /\ L \in Nat \ {0} /\ call = calls[L] /\ calls \in Seq(Activations)
      /\ \A c \in 1..L : ActivationOK(calls[c])
  BY LastCall DEF SelectInv, SelectTypeOK, call
<1>3. /\ medians \in Seq(Int) /\ Len(medians) \in 1..(Len(a) - 1)
      /\ \A g \in 1..Len(medians) : \E j \in 1..Len(a) : medians[g] = a[j]
  BY <1>1, MediansOfGroups
<1> HIDE DEF medians
<1>4. MedianRank(Len(medians)) \in 0..(Len(medians) - 1)
  BY <1>1, <1>3, MedianRankFits
<1>5. /\ ActivationOK(new) /\ new \in Activations /\ new.at = "sorting"
      /\ new.array = medians /\ AnswersOf(new) \subseteq ToSet(a)
  <2>1. ToSet(medians) \subseteq ToSet(a)
    BY <1>3 DEF ToSet
  <2>2. AnswersOf(new) \subseteq ToSet(medians)
    BY <1>3, <1>4, CallOK DEF Answers
  <2> QED
    BY <1>3, <1>4, <2>1, <2>2, CallOK
<1>6. /\ waiting \in Activations /\ waiting.at = "waiting" /\ waiting.array = a
      /\ waiting.r = call.r /\ waiting.m = call.m /\ waiting.i = call.i
      /\ waiting.p = call.p
  BY <1>1 DEF Activations
<1>7. calls' = Append([calls EXCEPT ![L] = waiting], new)
      /\ given' = given /\ selected' = selected
  <2>1. [calls EXCEPT ![L].at = "waiting"] = [calls EXCEPT ![L] = waiting]
    BY <1>2
  <2> QED
    BY <2>1 DEF SelectPivot, medians
<1> HIDE DEF new, waiting
<1>8. ActivationOK(waiting)
  BY <1>1, <1>6 DEF ActivationOK
<1>9. /\ calls' \in Seq(Activations) /\ Len(calls') = L + 1 /\ calls' # <<>>
      /\ \A c \in 1..(L + 1) : calls'[c] = IF c = L + 1 THEN new
                                           ELSE IF c = L THEN waiting ELSE calls[c]
  BY <1>2, <1>5, <1>6, <1>7
<1> HIDE DEF L
<1>10. call' = new
  <2>1. calls'[L + 1] = new
    BY <1>2, <1>9
  <2> QED
    BY <1>9, <2>1, LastCall DEF call
<1>11. SelectTypeOK'
  <2>1. \A c \in 1..(L + 1) : ActivationOK(calls'[c])
    <3> TAKE c \in 1..(L + 1)
    <3>1. CASE c = L + 1
      BY <3>1, <1>5, <1>9
    <3>2. CASE c = L
      BY <3>2, <1>2, <1>8, <1>9
    <3>3. CASE c \in 1..(L - 1)
      BY <3>3, <1>2, <1>9
    <3> QED
      BY <1>2, <3>1, <3>2, <3>3
  <2> QED
    BY <1>7, <1>9, <2>1 DEF SelectInv, SelectTypeOK
<1>12. Waits'
  <2> SUFFICES ASSUME NEW c \in 1..L
               PROVE  /\ calls'[c].at = "waiting"
                      /\ Len(calls'[c + 1].array) < Len(calls'[c].array)
                      /\ AnswersOf(calls'[c + 1]) \subseteq ToSet(calls'[c].array)
    <3>1. Len(calls') - 1 = L /\ call'.at # "waiting"
      BY <1>2, <1>5, <1>9, <1>10
    <3> QED
      BY <3>1, <1>10 DEF Waits, AnswersOf, Answers, HasRank, Below, UpTo
  <2>1. CASE c = L
    <3>1. calls'[c] = waiting /\ calls'[c + 1] = new
      BY <1>2, <1>9, <2>1
    <3> QED
      BY <1>1, <1>3, <1>5, <1>6, <3>1
  <2>2. CASE c \in 1..(L - 1)
    <3>1. calls'[c] = calls[c] /\ calls'[c + 1] \in {calls[c + 1], waiting}
          /\ (calls'[c + 1] = waiting => c + 1 = L \/ calls[c + 1] = waiting)
      BY <1>2, <1>9, <2>2
    <3>2. calls'[c + 1].array = calls[c + 1].array /\ calls'[c + 1].r = calls[c + 1].r
      BY <1>2, <1>6, <3>1
    <3>3. /\ calls[c].at = "waiting"
          /\ Len(calls[c + 1].array) < Len(calls[c].array)
          /\ AnswersOf(calls[c + 1]) \subseteq ToSet(calls[c].array)
      BY <2>2 DEF SelectInv, Waits, L
    <3> QED
      BY <3>1, <3>2, <3>3 DEF AnswersOf
  <2> QED
    BY <1>2, <2>1, <2>2
<1>13. Leads'
  <2>1. calls'[1].array = calls[1].array /\ calls'[1].r = calls[1].r
    BY <1>2, <1>6, <1>9
  <2>2. AnswersOf(calls[1]) \subseteq Answers(given.array, given.r)
    BY DEF SelectInv, Leads
  <2>3. AnswersOf(calls'[1]) \subseteq Answers(given.array, given.r)
    BY <2>1, <2>2 DEF AnswersOf
  <2>4. given' = given
    BY <1>7
  <2> QED
    BY <1>9, <2>3, <2>4 DEF Leads, AnswersOf, Answers, HasRank, Below, UpTo
<1> QED
  BY <1>11, <1>12, <1>13 DEF SelectInv

LEMMA SelectStepKeeps ==
    ASSUME SelectInv, SelectStep
    PROVE  SelectInv'
BY ReturnOnlyKeeps, SortTurnKeeps, SelectPivotKeeps, PartitionTurnKeeps, SelectSideKeeps
   DEF SelectStep

LEMMA SelectBeginsRight ==
    ASSUME NEW a \in Seq(Int), NEW r \in 0..(Len(a) - 1), SelectBegins(a, r)
    PROVE  SelectInv
<1>1. /\ given.array = a /\ given.r = r /\ selected = 0
      /\ calls = <<Call(a, r)>>
  BY DEF SelectBegins
<1>2. /\ ActivationOK(Call(a, r)) /\ Call(a, r) \in Activations
      /\ Call(a, r).at = "sorting" /\ AnswersOf(Call(a, r)) = Answers(a, r)
  BY CallOK
<1>3. /\ calls \in Seq(Activations) /\ Len(calls) = 1 /\ calls[1] = Call(a, r)
      /\ calls # <<>>
  BY <1>1, <1>2
<1>4. call = Call(a, r)
  BY <1>3, LastCall DEF call
<1>5. SelectTypeOK
  BY <1>1, <1>2, <1>3 DEF SelectTypeOK
<1>6. Waits
  BY <1>2, <1>3, <1>4 DEF Waits
<1>7. Leads
  BY <1>1, <1>2, <1>3 DEF Leads
<1> QED
  BY <1>5, <1>6, <1>7 DEF SelectInv

LEMMA SelectStutters ==
    ASSUME SelectInv, UNCHANGED selection
    PROVE  SelectInv'
<1>1. given' = given /\ calls' = calls /\ selected' = selected
  BY DEF selection
<1>2. SelectTypeOK'
  BY <1>1 DEF SelectInv, SelectTypeOK
<1>3. Waits'
  BY <1>1 DEF SelectInv, Waits, call, AnswersOf, Answers, HasRank, Below, UpTo
<1>4. Leads'
  <2>1. AnswersOf(calls[1])' = AnswersOf(calls[1])
    BY <1>1
  <2>2. Answers(given.array, given.r)' = Answers(given.array, given.r)
    BY <1>1
  <2>3. HasRank(given.array, given.r, selected)' <=> HasRank(given.array, given.r, selected)
    BY <1>1
  <2> QED
    BY <1>1, <2>1, <2>2, <2>3 DEF SelectInv, Leads
<1> QED
  BY <1>2, <1>3, <1>4 DEF SelectInv

LEMMA SelectInvMeans ==
    ASSUME SelectInv
    PROVE  SelectsRank /\ PivotIsFound /\ CallsShrink
<1>1. SelectsRank
  BY DEF SelectInv, Leads, SelectsRank
<1>2. PivotIsFound
  <2> SUFFICES ASSUME calls # <<>>, call.at = "partitioning", call.m = size
               PROVE  call.p \in 1..call.i /\ call.array[call.p] = call.pivot
    BY DEF PivotIsFound
  <2>1. /\ call.array \in Seq(Int) /\ call.pivot \in Int /\ call.i \in Nat
        /\ call.p \in Nat /\ ActivationOK(call) /\ call.m = Len(call.array)
    BY Innermost
  <2>2. LoopAt(call.array, call.pivot, call.i, Len(call.array), call.p)
    BY <2>1 DEF ActivationOK, PartitionLoop
  <2> QED
    BY <2>1, <2>2, LoopEnds
<1>3. CallsShrink
  <2>1. \A c \in 1..Len(calls) : calls[c].r \in 0..(Len(calls[c].array) - 1)
    <3> TAKE c \in 1..Len(calls)
    <3>1. calls[c] \in Activations /\ calls[c].r < Len(calls[c].array)
      BY DEF SelectInv, SelectTypeOK, ActivationOK
    <3>2. calls[c].array \in Seq(Int) /\ calls[c].r \in Nat
      BY <3>1 DEF Activations
    <3> QED
      BY <3>1, <3>2
  <2>2. \A c \in 2..Len(calls) : Len(calls[c].array) < Len(calls[c - 1].array)
    <3> TAKE c \in 2..Len(calls)
    <3>1. Len(calls) \in Nat
      BY DEF SelectInv, SelectTypeOK
    <3>2. c - 1 \in 1..(Len(calls) - 1) /\ (c - 1) + 1 = c
      BY <3>1
    <3> QED
      BY <3>2 DEF SelectInv, Waits
  <2> QED
    BY <2>1, <2>2 DEF CallsShrink
<1> QED
  BY <1>1, <1>2, <1>3

\* For every array and every rank of it: what rank_select returns has that rank,
\* partition_array reads p only where it was set, and every recursive call has
\* fewer elements and a rank of theirs (kdtree.c:369-468).
THEOREM RankSelection ==
    ASSUME NEW CONSTANT array \in Seq(Int), NEW CONSTANT r \in 0..(Len(array) - 1)
    PROVE  SelectSpec(array, r) => [](SelectsRank /\ SelectionIsSound)
<1>1. SelectBegins(array, r) => SelectInv
  BY SelectBeginsRight
<1>2. SelectInv /\ [SelectStep]_selection => SelectInv'
  BY SelectStepKeeps, SelectStutters
<1>3. SelectInv => SelectsRank /\ SelectionIsSound
  BY SelectInvMeans DEF SelectionIsSound
<1> QED
  BY <1>1, <1>2, <1>3, PTL DEF SelectSpec

-----------------------------------------------------------------------------
(* The tree.                                                               *)

Descriptor == [1..Dims -> Int]
Infos == [leaf: BOOLEAN, ki: Nat, kv: Int, left: Nat]

\* A column of an array of descriptors, for any such array.
ColumnOf(fs, m, ki) == [j \in 1..m.n |-> fs[m.first + j - 1][ki]]

\* A node of an array is a part of it that is not empty.
PartOf(fs, m) == m \in Nodes /\ m.first >= 1 /\ m.n >= 1 /\ m.first + m.n - 1 <= Len(fs)

\* What a node that is no leaf says of an array.
LeftOf(m, info) == NodeAt(m.first, info.left)
RightOf(m, info) == NodeAt(m.first + info.left, m.n - info.left)
DividedNode(fs, m, info) ==
    /\ info.left \in 1..(m.n - 1)
    /\ \A f \in Entries(LeftOf(m, info)) : fs[f][info.ki] <= info.kv
    /\ \A f \in Entries(RightOf(m, info)) : fs[f][info.ki] > info.kv
    /\ HasRank(ColumnOf(fs, m, info.ki), MedianRank(m.n), info.kv)

\* Of two parts, in any tree, neither has an entry of the other, or one is in the
\* other.
Apart(m, o) == m.first + m.n <= o.first \/ o.first + o.n <= m.first
Within(m, o) == o.first <= m.first /\ m.first + m.n <= o.first + o.n

LEMMA EntriesAre ==
    ASSUME NEW fs \in Seq(Descriptor), NEW m, PartOf(fs, m)
    PROVE  /\ m.first \in Nat /\ m.n \in Nat /\ Len(fs) \in Nat
           /\ Entries(m) \subseteq 1..Len(fs)
           /\ \A f \in Entries(m) : f - m.first + 1 \in 1..m.n
           /\ \A j \in 1..m.n : m.first + j - 1 \in Entries(m)
BY DEF PartOf, Nodes, Entries

LEMMA ColumnIs ==
    ASSUME NEW fs \in Seq(Descriptor), NEW m, PartOf(fs, m), NEW ki \in 1..Dims
    PROVE  /\ ColumnOf(fs, m, ki) \in Seq(Int)
           /\ Len(ColumnOf(fs, m, ki)) = m.n
           /\ \A j \in 1..m.n : ColumnOf(fs, m, ki)[j] = fs[m.first + j - 1][ki]
<1>1. m.n \in Nat
  BY EntriesAre
<1>2. \A j \in 1..m.n : fs[m.first + j - 1][ki] \in Int
  <2> TAKE j \in 1..m.n
  <2>1. m.first + j - 1 \in 1..Len(fs)
    BY EntriesAre
  <2>2. fs[m.first + j - 1] \in Descriptor
    BY <2>1
  <2> QED
    BY <2>2 DEF Descriptor
<1> DEFINE c == ColumnOf(fs, m, ki)
<1>3. c \in [1..m.n -> Int]
  BY <1>2 DEF ColumnOf
<1>4. \A j \in 1..m.n : c[j] = fs[m.first + j - 1][ki]
  BY DEF ColumnOf
<1> HIDE DEF c
<1>5. c \in Seq(Int) /\ Len(c) = m.n
  BY <1>1, <1>3
<1> QED
  BY <1>4, <1>5 DEF c

\* Exchanging two features of a node.
LEMMA FeaturesExchanged ==
    ASSUME NEW fs \in Seq(Descriptor), NEW a \in 1..Len(fs), NEW b \in 1..Len(fs)
    PROVE  /\ Exchanged(fs, a, b) \in Seq(Descriptor)
           /\ Len(Exchanged(fs, a, b)) = Len(fs)
           /\ \A f \in 1..Len(fs) :
                Exchanged(fs, a, b)[f] = IF f = b THEN fs[a]
                                         ELSE IF f = a THEN fs[b] ELSE fs[f]
BY DEF Exchanged

LEMMA ColumnExchanged ==
    ASSUME NEW fs \in Seq(Descriptor), NEW m, PartOf(fs, m), NEW ki \in 1..Dims,
           NEW a \in Entries(m), NEW b \in Entries(m)
    PROVE  ColumnOf(Exchanged(fs, a, b), m, ki)
             = Exchanged(ColumnOf(fs, m, ki), a - m.first + 1, b - m.first + 1)
<1> DEFINE c == ColumnOf(fs, m, ki)
           gs == Exchanged(fs, a, b)
           a1 == a - m.first + 1
           b1 == b - m.first + 1
<1>1. /\ m.first \in Nat /\ m.n \in Nat /\ a1 \in 1..m.n /\ b1 \in 1..m.n
      /\ a \in 1..Len(fs) /\ b \in 1..Len(fs)
      /\ m.first + a1 - 1 = a /\ m.first + b1 - 1 = b
  BY EntriesAre
<1>2. \A j \in 1..m.n : m.first + j - 1 \in 1..Len(fs)
  BY EntriesAre
<1> HIDE DEF a1, b1
<1>9. \A f \in 1..Len(fs) :
        gs[f] = IF f = b THEN fs[a] ELSE IF f = a THEN fs[b] ELSE fs[f]
  <2>1. a \in 1..Len(fs) /\ b \in 1..Len(fs)
    BY <1>1
  <2> QED
    BY <2>1, FeaturesExchanged, Zenon
<1>3. \A j \in 1..m.n :
        gs[m.first + j - 1] = IF j = b1 THEN fs[a]
                              ELSE IF j = a1 THEN fs[b] ELSE fs[m.first + j - 1]
  <2> TAKE j \in 1..m.n
  <2>1. m.first + j - 1 = b <=> j = b1
    BY <1>1
  <2>2. m.first + j - 1 = a <=> j = a1
    BY <1>1
  <2> QED
    BY <1>2, <1>9, <2>1, <2>2
<1>4. c \in Seq(Int) /\ Len(c) = m.n
      /\ (\A j \in 1..m.n : c[j] = fs[m.first + j - 1][ki])
  BY ColumnIs
<1>5. Exchanged(c, a1, b1) =
        [j \in 1..m.n |-> IF j = b1 THEN c[a1] ELSE IF j = a1 THEN c[b1] ELSE c[j]]
  <2>1. c \in [1..m.n -> Int]
    BY <1>4
  <2> HIDE DEF c
  <2> QED
    BY <1>1, <2>1 DEF Exchanged
<1>6. \A j \in 1..m.n :
        gs[m.first + j - 1][ki] = IF j = b1 THEN c[a1] ELSE IF j = a1 THEN c[b1] ELSE c[j]
  BY <1>1, <1>3, <1>4
<1>7. ColumnOf(gs, m, ki) = [j \in 1..m.n |-> gs[m.first + j - 1][ki]]
  BY DEF ColumnOf
<1> HIDE DEF c, gs, a1, b1
<1>8. ColumnOf(gs, m, ki) = Exchanged(c, a1, b1)
  BY <1>5, <1>6, <1>7
<1> QED
  BY <1>8 DEF c, gs, a1, b1

LEMMA SidesAre ==
    ASSUME NEW fs \in Seq(Descriptor), NEW m, PartOf(fs, m), NEW info \in Infos,
           info.left \in 1..(m.n - 1)
    PROVE  /\ PartOf(fs, LeftOf(m, info)) /\ PartOf(fs, RightOf(m, info))
           /\ Entries(LeftOf(m, info)) \union Entries(RightOf(m, info)) = Entries(m)
           /\ Entries(LeftOf(m, info)) \intersect Entries(RightOf(m, info)) = {}
           /\ Within(LeftOf(m, info), m) /\ Within(RightOf(m, info), m)
           /\ Apart(LeftOf(m, info), RightOf(m, info))
BY DEF PartOf, LeftOf, RightOf, NodeAt, Nodes, Entries, Infos, Within, Apart

\* Features of a part are exchanged: a node that does not meet the part, or has it
\* on one side, stays divided as it is.
LEMMA ExchangeKeepsDivided ==
    ASSUME NEW fs \in Seq(Descriptor), NEW m, PartOf(fs, m), NEW info \in Infos,
           info.ki \in 1..Dims, DividedNode(fs, m, info),
           NEW u, PartOf(fs, u),
           Apart(u, m) \/ Within(u, LeftOf(m, info)) \/ Within(u, RightOf(m, info)),
           NEW a \in Entries(u), NEW b \in Entries(u)
    PROVE  DividedNode(Exchanged(fs, a, b), m, info)
<1> DEFINE gs == Exchanged(fs, a, b)
           lt == LeftOf(m, info)
           rt == RightOf(m, info)
           c == ColumnOf(fs, m, info.ki)
           rank == MedianRank(m.n)
<1>1. /\ PartOf(fs, lt) /\ PartOf(fs, rt)
      /\ Entries(lt) \union Entries(rt) = Entries(m)
      /\ Entries(lt) \intersect Entries(rt) = {}
      /\ Within(lt, m) /\ Within(rt, m)
  BY SidesAre DEF DividedNode
<1>2. a \in 1..Len(fs) /\ b \in 1..Len(fs) /\ Entries(m) \subseteq 1..Len(fs)
  BY EntriesAre
<1>3. \A f \in 1..Len(fs) :
        gs[f] = IF f = b THEN fs[a] ELSE IF f = a THEN fs[b] ELSE fs[f]
  BY <1>2, FeaturesExchanged
<1>4. CASE Apart(u, m)
  <2>1. a \notin Entries(m) /\ b \notin Entries(m)
    BY <1>4 DEF PartOf, Nodes, Apart, Entries
  <2>2. \A f \in Entries(m) : gs[f] = fs[f]
    BY <1>2, <1>3, <2>1
  <2>3. ColumnOf(gs, m, info.ki) = c
    <3>1. \A j \in 1..m.n : m.first + j - 1 \in Entries(m)
      BY EntriesAre
    <3>2. \A j \in 1..m.n : gs[m.first + j - 1][info.ki] = fs[m.first + j - 1][info.ki]
      BY <2>2, <3>1
    <3> QED
      BY <3>2 DEF ColumnOf
  <2> HIDE DEF gs, c
  <2>4. HasRank(ColumnOf(gs, m, info.ki), rank, info.kv)
    BY <2>3 DEF DividedNode, c
  <2>5. \A f \in Entries(lt) : gs[f] = fs[f]
    BY <1>1, <2>2
  <2>6. \A f \in Entries(rt) : gs[f] = fs[f]
    BY <1>1, <2>2
  <2> QED
    BY <2>4, <2>5, <2>6 DEF DividedNode, gs
<1>5. CASE Within(u, lt) \/ Within(u, rt)
  <2>1. \/ a \in Entries(lt) /\ b \in Entries(lt)
        \/ a \in Entries(rt) /\ b \in Entries(rt)
    <3>1. \A o : PartOf(fs, o) /\ Within(u, o) => a \in Entries(o) /\ b \in Entries(o)
      BY DEF PartOf, Nodes, Within, Entries
    <3> QED
      BY <1>1, <1>5, <3>1
  <2>2. a \in Entries(m) /\ b \in Entries(m)
    BY <1>1, <2>1
  <2>3. c \in Seq(Int) /\ Len(c) = m.n
    BY ColumnIs
  <2>4. /\ m.first \in Nat /\ a - m.first + 1 \in 1..m.n /\ b - m.first + 1 \in 1..m.n
    BY <2>2, EntriesAre
  <2>5. ColumnOf(gs, m, info.ki) = Exchanged(c, a - m.first + 1, b - m.first + 1)
    BY <2>2, ColumnExchanged
  <2>6. /\ ColumnOf(gs, m, info.ki) \in Seq(Int)
        /\ Rearranged(c, ColumnOf(gs, m, info.ki))
    BY <2>3, <2>4, <2>5, ExchangedRearranged
  <2>7. HasRank(c, rank, info.kv)
    BY DEF DividedNode
  <2>8. HasRank(ColumnOf(gs, m, info.ki), rank, info.kv)
    BY <2>3, <2>6, <2>7, RearrangedRank
  <2>9. \A f \in Entries(lt) : gs[f][info.ki] <= info.kv
    <3> TAKE f \in Entries(lt)
    <3>1. fs[f][info.ki] <= info.kv
      BY DEF DividedNode
    <3>2. a \in Entries(lt) <=> b \in Entries(lt)
      BY <1>1, <2>1
    <3>3. f = a => fs[b][info.ki] <= info.kv
      BY <3>2 DEF DividedNode
    <3>4. f = b => fs[a][info.ki] <= info.kv
      BY <3>2 DEF DividedNode
    <3>5. f \in 1..Len(fs)
      BY <1>1, <1>2
    <3> QED
      BY <1>3, <3>1, <3>3, <3>4, <3>5
  <2>10. \A f \in Entries(rt) : gs[f][info.ki] > info.kv
    <3> TAKE f \in Entries(rt)
    <3>1. fs[f][info.ki] > info.kv
      BY DEF DividedNode
    <3>2. a \in Entries(rt) <=> b \in Entries(rt)
      BY <1>1, <2>1
    <3>3. f = a => fs[b][info.ki] > info.kv
      BY <3>2 DEF DividedNode
    <3>4. f = b => fs[a][info.ki] > info.kv
      BY <3>2 DEF DividedNode
    <3>5. f \in 1..Len(fs)
      BY <1>1, <1>2
    <3> QED
      BY <1>3, <3>1, <3>3, <3>4, <3>5
  <2> QED
    BY <2>8, <2>9, <2>10 DEF DividedNode
<1> QED
  BY <1>4, <1>5

-----------------------------------------------------------------------------
(* The tree.  Its inductive invariant.                                     *)

TreeTypeOK ==
    /\ selected \in Int
    /\ features \in Seq(Descriptor) /\ Len(features) > 0
    /\ unexpanded \in Seq(Nodes)
    /\ \A a \in 1..Len(unexpanded) : PartOf(features, unexpanded[a])
    /\ \A m \in DOMAIN tree :
         /\ PartOf(features, m) /\ tree[m] \in Infos
         /\ ~tree[m].leaf => tree[m].ki \in 1..Dims /\ tree[m].left \in 1..(m.n - 1)

\* The calls still to come are for parts that do not meet, and each of them is on
\* one side of every node above it.
UnexpandedApart ==
    /\ \A a, b \in 1..Len(unexpanded) : a # b => Apart(unexpanded[a], unexpanded[b])
    /\ \A m \in DOMAIN tree, a \in 1..Len(unexpanded) :
         ~tree[m].leaf => \/ Apart(unexpanded[a], m)
                          \/ Within(unexpanded[a], LeftOf(m, tree[m]))
                          \/ Within(unexpanded[a], RightOf(m, tree[m]))

\* Every node that has been made is expanded or will be.
Made == DOMAIN tree \union ToSet(unexpanded)
NodesAreMade ==
    /\ Root \in Made
    /\ \A m \in DOMAIN tree :
         ~tree[m].leaf => LeftOf(m, tree[m]) \in Made /\ RightOf(m, tree[m]) \in Made

\* assign_part_key and partition_features at work on the next node: its values in
\* the dimension chosen, and the loop over them.
PartColumn == ColumnOf(features, node, part.ki)
PartAt == IF part.p = 0 THEN 0 ELSE part.p - node.first + 1

Dividing ==
    pc = "dividing" =>
        /\ unexpanded # <<>> /\ node.n > 1
        /\ part.ki \in 1..Dims
        /\ part.i \in 0..node.n /\ part.j \in Nat
        /\ part.p = 0 \/ part.p \in Entries(node)
        /\ SelectInv
        /\ calls # <<>> =>
             /\ given = [array |-> PartColumn, r |-> MedianRank(node.n)]
             /\ part.i = 0 /\ part.j = 0 /\ part.p = 0
        /\ calls = <<>> =>
             /\ HasRank(PartColumn, MedianRank(node.n), selected)
             /\ LoopAt(PartColumn, selected, part.j, part.i, PartAt)

TreeDivided ==
    \A m \in DOMAIN tree : ~tree[m].leaf => DividedNode(features, m, tree[m])

TreeInv == TreeTypeOK /\ UnexpandedApart /\ NodesAreMade /\ Dividing /\ TreeDivided

\* assign_part_key asks for a median: the call it starts with.
LEMMA SelectBegan ==
    ASSUME NEW a \in Seq(Int), NEW r \in 0..(Len(a) - 1), selected' \in Int,
           given' = [array |-> a, r |-> r], calls' = <<Call(a, r)>>
    PROVE  SelectInv' /\ calls' # <<>>
<1>1. given.array' = a /\ given.r' = r
  OBVIOUS
<1>2. /\ ActivationOK(Call(a, r)) /\ Call(a, r) \in Activations
      /\ Call(a, r).at = "sorting" /\ AnswersOf(Call(a, r)) = Answers(a, r)
  BY CallOK
<1>3. /\ calls' \in Seq(Activations) /\ Len(calls') = 1 /\ calls'[1] = Call(a, r)
      /\ calls' # <<>>
  BY <1>1, <1>2
<1>4. call' = Call(a, r)
  BY <1>3, LastCall DEF call
<1>5. SelectTypeOK'
  BY <1>1, <1>2, <1>3 DEF SelectTypeOK
<1>6. Waits'
  BY <1>2, <1>3, <1>4 DEF Waits
<1>7. Leads'
  <2>1. AnswersOf(calls[1])' = Answers(a, r)
    BY <1>2, <1>3 DEF AnswersOf
  <2>2. Answers(given.array, given.r)' = Answers(a, r)
    BY <1>1
  <2> QED
    BY <1>3, <2>1, <2>2 DEF Leads
<1> QED
  BY <1>3, <1>5, <1>6, <1>7 DEF SelectInv

LEMMA TreeStarts == Init => TreeInv
<1> SUFFICES ASSUME Init  PROVE TreeInv
  OBVIOUS
<1>1. features \in Seq(Descriptor) /\ Len(features) > 0 /\ Len(features) \in Nat
  BY KDAssumption DEF Init, Descriptor
<1>2. unexpanded = <<Root>> /\ DOMAIN tree = {} /\ pc = "building" /\ selected = 0
  BY DEF Init
<1>3. PartOf(features, Root)
  BY <1>1 DEF PartOf, Root, NodeAt, Nodes
<1>4. Root \in Nodes /\ Len(unexpanded) = 1 /\ unexpanded[1] = Root
  BY <1>2, <1>3 DEF PartOf
<1>5. TreeTypeOK
  BY <1>1, <1>2, <1>3, <1>4 DEF TreeTypeOK
<1>6. UnexpandedApart
  BY <1>2, <1>4 DEF UnexpandedApart
<1>7. NodesAreMade
  BY <1>2, <1>4 DEF NodesAreMade, Made, ToSet
<1> QED
  BY <1>2, <1>5, <1>6, <1>7 DEF TreeInv, Dividing, TreeDivided

\* The first of a sequence gives way to others.
LEMMA HeadReplaced ==
    ASSUME NEW S, NEW s \in Seq(S), s # <<>>, NEW u \in Seq(S)
    PROVE  /\ u \o Tail(s) \in Seq(S)
           /\ Len(u \o Tail(s)) = Len(u) + Len(s) - 1
           /\ Len(u) \in Nat /\ Len(s) \in Nat \ {0}
           /\ \A a \in 1..Len(u) : (u \o Tail(s))[a] = u[a]
           /\ \A a \in (Len(u) + 1)..(Len(u) + Len(s) - 1) :
                 (u \o Tail(s))[a] = s[a - Len(u) + 1]
           /\ Head(s) = s[1]
           /\ ToSet(s) \subseteq ToSet(u \o Tail(s)) \union {Head(s)}
           /\ ToSet(u) \subseteq ToSet(u \o Tail(s))
<1> DEFINE w == u \o Tail(s)
           n == Len(u)
           N == Len(s)
<1>1. n \in Nat /\ N \in Nat \ {0} /\ Head(s) = s[1]
  OBVIOUS
<1>2. Tail(s) \in Seq(S) /\ Len(Tail(s)) = N - 1 /\ \A a \in 1..(N - 1) : Tail(s)[a] = s[a + 1]
  OBVIOUS
<1>3. w \in Seq(S) /\ Len(w) = n + N - 1 /\ \A a \in 1..n : w[a] = u[a]
  BY <1>1, <1>2
<1>4. \A a \in (n + 1)..(n + N - 1) : w[a] = s[a - n + 1]
  <2> TAKE a \in (n + 1)..(n + N - 1)
  <2>1. a - n \in 1..(N - 1)
    BY <1>1
  <2>2. w[a] = Tail(s)[a - n]
    BY <1>1, <1>2, <2>1
  <2> QED
    BY <1>2, <2>1, <2>2
<1>5. \A v \in Seq(S) : ToSet(v) = {v[a] : a \in 1..Len(v)}
  BY DEF ToSet
<1> HIDE DEF w, n, N
<1>6. \A a \in 1..N : s[a] = Head(s) \/ \E b \in 1..Len(w) : s[a] = w[b]
  <2> TAKE a \in 1..N
  <2>1. CASE a = 1
    BY <2>1, <1>1
  <2>2. CASE a # 1
    <3>1. a - 1 + n \in (n + 1)..(n + N - 1) /\ a - 1 + n \in 1..Len(w)
          /\ (a - 1 + n) - n + 1 = a
      BY <2>2, <1>1, <1>3
    <3> QED
      BY <3>1, <1>4
  <2> QED
    BY <2>1, <2>2
<1>7. \A a \in 1..n : \E b \in 1..Len(w) : u[a] = w[b]
  BY <1>1, <1>3
<1>8. ToSet(s) \subseteq ToSet(w) \union {Head(s)}
  <2>1. ToSet(w) = {w[a] : a \in 1..Len(w)} /\ ToSet(s) = {s[a] : a \in 1..N}
    BY <1>3, <1>5 DEF N
  <2> QED
    BY <2>1, <1>6
<1>9. ToSet(u) \subseteq ToSet(w)
  <2>1. ToSet(w) = {w[a] : a \in 1..Len(w)} /\ ToSet(u) = {u[a] : a \in 1..n}
    BY <1>3, <1>5 DEF n
  <2> QED
    BY <2>1, <1>7
<1> QED
  BY <1>1, <1>3, <1>4, <1>8, <1>9, Zenon DEF w, n, N

\* Parts of parts.
LEMMA PartsOfParts ==
    ASSUME NEW m \in Nodes, NEW o \in Nodes, NEW u \in Nodes, Within(u, o)
    PROVE  /\ Apart(o, m) => Apart(u, m) /\ Apart(m, u)
           /\ Apart(m, o) => Apart(u, m) /\ Apart(m, u)
           /\ Within(o, m) => Within(u, m)
BY DEF Nodes, Apart, Within

LEMMA NodeHere ==
    ASSUME TreeTypeOK, unexpanded # <<>>
    PROVE  /\ PartOf(features, node) /\ node \in Nodes /\ node = unexpanded[1]
           /\ node.first \in Nat /\ node.n \in Nat \ {0}
           /\ Len(unexpanded) \in Nat \ {0}
BY DEF TreeTypeOK, node, PartOf, Nodes

\* The next node is expanded: it is a leaf, or its sides are to be expanded next.
LEMMA TreeGrows ==
    ASSUME TreeTypeOK, UnexpandedApart, NodesAreMade, unexpanded # <<>>,
           features' \in Seq(Descriptor), Len(features') = Len(features),
           selected' \in Int,
           NEW info \in Infos, NEW new \in Seq(Nodes),
           tree' = WithNode(node, info), unexpanded' = new \o Tail(unexpanded),
           \/ info.leaf /\ new = <<>>
           \/ /\ ~info.leaf /\ info.ki \in 1..Dims /\ info.left \in 1..(node.n - 1)
              /\ new = <<LeftOf(node, info), RightOf(node, info)>>
    PROVE  TreeTypeOK' /\ UnexpandedApart' /\ NodesAreMade'
<1> DEFINE n == Len(new)
           N == Len(unexpanded)
<1>1. /\ DOMAIN tree' = DOMAIN tree \union {node}
      /\ tree'[node] = info
      /\ \A m \in DOMAIN tree : m # node => tree'[m] = tree[m]
  BY DEF WithNode
<1>2. /\ unexpanded' \in Seq(Nodes) /\ Len(unexpanded') = n + N - 1
      /\ n \in Nat /\ N \in Nat \ {0} /\ node = unexpanded[1]
      /\ \A a \in 1..n : unexpanded'[a] = new[a]
      /\ \A a \in (n + 1)..(n + N - 1) : unexpanded'[a] = unexpanded[a - n + 1]
      /\ ToSet(unexpanded) \subseteq ToSet(unexpanded') \union {node}
      /\ ToSet(new) \subseteq ToSet(unexpanded')
  <2>1. unexpanded \in Seq(Nodes)
    BY DEF TreeTypeOK
  <2>2. /\ new \o Tail(unexpanded) \in Seq(Nodes)
        /\ Len(new \o Tail(unexpanded)) = n + N - 1
        /\ n \in Nat /\ N \in Nat \ {0} /\ Head(unexpanded) = unexpanded[1]
        /\ \A a \in 1..n : (new \o Tail(unexpanded))[a] = new[a]
        /\ \A a \in (n + 1)..(n + N - 1) :
              (new \o Tail(unexpanded))[a] = unexpanded[a - n + 1]
        /\ ToSet(unexpanded) \subseteq ToSet(new \o Tail(unexpanded)) \union {Head(unexpanded)}
        /\ ToSet(new) \subseteq ToSet(new \o Tail(unexpanded))
    BY <2>1, HeadReplaced
  <2>3. ToSet(unexpanded)' = ToSet(unexpanded')
    OBVIOUS
  <2> HIDE DEF n, N
  <2> QED
    BY <2>2, Zenon DEF node
<1>3. PartOf(features, node) /\ node \in Nodes /\ node.n \in Nat
  BY NodeHere
<1>4. \A m : PartOf(features, m) <=> PartOf(features', m)
  BY DEF PartOf
<1>5. \A a \in 1..n : PartOf(features, new[a]) /\ Within(new[a], node)
  <2>1. CASE info.leaf /\ new = <<>>
    BY <2>1
  <2>2. CASE ~(info.leaf /\ new = <<>>)
    <3>1. /\ new = <<LeftOf(node, info), RightOf(node, info)>>
          /\ info.left \in 1..(node.n - 1)
      BY <2>2
    <3>2. /\ PartOf(features, LeftOf(node, info)) /\ PartOf(features, RightOf(node, info))
          /\ Within(LeftOf(node, info), node) /\ Within(RightOf(node, info), node)
      BY <1>3, <3>1, SidesAre DEF TreeTypeOK
    <3>3. n = 2 /\ new[1] = LeftOf(node, info) /\ new[2] = RightOf(node, info)
      BY <3>1
    <3> QED
      BY <3>2, <3>3
  <2> QED
    BY <2>1, <2>2
<1>6. \A a, b \in 1..n : a # b => Apart(new[a], new[b])
  <2>1. CASE info.leaf /\ new = <<>>
    BY <2>1
  <2>2. CASE ~(info.leaf /\ new = <<>>)
    <3>1. /\ new = <<LeftOf(node, info), RightOf(node, info)>>
          /\ info.left \in 1..(node.n - 1)
      BY <2>2
    <3>2. Apart(LeftOf(node, info), RightOf(node, info))
      BY <1>3, <3>1, SidesAre DEF TreeTypeOK
    <3>3. n = 2 /\ new[1] = LeftOf(node, info) /\ new[2] = RightOf(node, info)
      BY <3>1
    <3> QED
      BY <3>2, <3>3 DEF Apart
  <2> QED
    BY <2>1, <2>2
<1>7. \A a \in 1..n : ~info.leaf => \/ new[a] = LeftOf(node, info)
                                    \/ new[a] = RightOf(node, info)
  OBVIOUS
<1> HIDE DEF n, N
<1>8. \A a \in 1..Len(unexpanded') :
         \/ a \in 1..n /\ unexpanded'[a] = new[a]
         \/ /\ a - n + 1 \in 2..N
            /\ a \notin 1..n
            /\ unexpanded'[a] = unexpanded[a - n + 1]
  <2> TAKE a \in 1..Len(unexpanded')
  <2>1. a \in 1..(n + N - 1)
    BY <1>2
  <2>2. CASE a <= n
    BY <2>1, <2>2, <1>2
  <2>3. CASE ~(a <= n)
    <3>1. a \in (n + 1)..(n + N - 1) /\ a - n + 1 \in 2..N /\ a \notin 1..n
      BY <2>1, <2>3, <1>2
    <3> QED
      BY <3>1, <1>2
  <2> QED
    BY <2>2, <2>3
<1>9. \A b \in 2..N : /\ b \in 1..N /\ PartOf(features, unexpanded[b])
                      /\ unexpanded[b] \in Nodes /\ Apart(unexpanded[b], node)
                      /\ Apart(node, unexpanded[b])
  <2> TAKE b \in 2..N
  <2>1. b \in 1..N /\ 1 \in 1..N /\ b # 1
    BY <1>2
  <2>2. PartOf(features, unexpanded[b])
    BY <2>1 DEF TreeTypeOK, N
  <2>3. Apart(unexpanded[b], unexpanded[1]) /\ Apart(unexpanded[1], unexpanded[b])
    BY <2>1 DEF UnexpandedApart, N
  <2> QED
    BY <1>2, <2>1, <2>2, <2>3 DEF PartOf
<1>10. TreeTypeOK'
  <2>1. \A a \in 1..Len(unexpanded') : PartOf(features', unexpanded'[a])
    BY <1>4, <1>5, <1>8, <1>9
  <2>2. \A m \in DOMAIN tree' :
         /\ PartOf(features', m) /\ tree'[m] \in Infos
         /\ ~tree'[m].leaf => tree'[m].ki \in 1..Dims /\ tree'[m].left \in 1..(m.n - 1)
    <3> TAKE m \in DOMAIN tree'
    <3>1. CASE m = node
      BY <3>1, <1>1, <1>3, <1>4
    <3>2. CASE m # node
      <4>1. m \in DOMAIN tree /\ tree'[m] = tree[m]
        BY <3>2, <1>1
      <4> QED
        BY <4>1, <1>4 DEF TreeTypeOK
    <3> QED
      BY <3>1, <3>2
  <2> QED
    BY <1>2, <2>1, <2>2 DEF TreeTypeOK
<1>11. UnexpandedApart'
  <2>1. ASSUME NEW a \in 1..Len(unexpanded'), NEW b \in 1..Len(unexpanded'), a # b
        PROVE  Apart(unexpanded'[a], unexpanded'[b])
    <3>1. CASE a \in 1..n /\ b \in 1..n
      BY <3>1, <2>1, <1>6, <1>8
    <3>2. CASE a \in 1..n /\ b \notin 1..n
      <4>1. unexpanded'[a] = new[a] /\ Within(new[a], node) /\ new[a] \in Nodes
        BY <3>2, <1>5, <1>8 DEF PartOf
      <4>2. PICK o \in 2..N : unexpanded'[b] = unexpanded[o]
        BY <3>2, <1>8
      <4> QED
        BY <4>1, <4>2, <1>3, <1>9, PartsOfParts
    <3>3. CASE a \notin 1..n /\ b \in 1..n
      <4>1. unexpanded'[b] = new[b] /\ Within(new[b], node) /\ new[b] \in Nodes
        BY <3>3, <1>5, <1>8 DEF PartOf
      <4>2. PICK o \in 2..N : unexpanded'[a] = unexpanded[o]
        BY <3>3, <1>8
      <4> QED
        BY <4>1, <4>2, <1>3, <1>9, PartsOfParts
    <3>4. CASE a \notin 1..n /\ b \notin 1..n
      <4>1. /\ a - n + 1 \in 1..N /\ unexpanded'[a] = unexpanded[a - n + 1]
            /\ b - n + 1 \in 1..N /\ unexpanded'[b] = unexpanded[b - n + 1]
        BY <3>4, <1>8, <1>9
      <4>2. a - n + 1 # b - n + 1
        BY <2>1, <1>2
      <4> QED
        BY <4>1, <4>2 DEF UnexpandedApart, N
    <3> QED
      BY <3>1, <3>2, <3>3, <3>4
  <2>2. ASSUME NEW m \in DOMAIN tree', NEW a \in 1..Len(unexpanded'), ~tree'[m].leaf
        PROVE  \/ Apart(unexpanded'[a], m)
               \/ Within(unexpanded'[a], LeftOf(m, tree'[m]))
               \/ Within(unexpanded'[a], RightOf(m, tree'[m]))
    <3>1. CASE m = node
      <4>1. CASE a \in 1..n
        <5>1. unexpanded'[a] = new[a] /\ tree'[m] = info
          BY <3>1, <4>1, <1>1, <1>8
        <5>2. \/ new[a] = LeftOf(node, info)
              \/ new[a] = RightOf(node, info)
          BY <4>1, <5>1, <2>2, <1>7
        <5>3. new[a] \in Nodes
          BY <4>1, <1>5 DEF PartOf
        <5>4. Within(new[a], new[a])
          BY <5>3 DEF Within, Nodes
        <5> QED
          BY <3>1, <5>1, <5>2, <5>4
      <4>2. CASE a \notin 1..n
        BY <3>1, <4>2, <1>8, <1>9
      <4> QED
        BY <4>1, <4>2
    <3>2. CASE m # node
      <4>1. m \in DOMAIN tree /\ tree'[m] = tree[m] /\ ~tree[m].leaf
        BY <3>2, <1>1, <2>2
      <4>2. \A c \in 1..N : \/ Apart(unexpanded[c], m)
                            \/ Within(unexpanded[c], LeftOf(m, tree[m]))
                            \/ Within(unexpanded[c], RightOf(m, tree[m]))
        BY <4>1 DEF UnexpandedApart, N
      <4>3. CASE a \notin 1..n
        BY <4>1, <4>2, <4>3, <1>8, <1>9
      <4>4. CASE a \in 1..n
        <5>1. unexpanded'[a] = new[a] /\ Within(new[a], node) /\ new[a] \in Nodes
          BY <4>4, <1>5, <1>8 DEF PartOf
        <5>2. \/ Apart(node, m)
              \/ Within(node, LeftOf(m, tree[m]))
              \/ Within(node, RightOf(m, tree[m]))
          BY <4>2, <1>2
        <5>3. PartOf(features, m) /\ tree[m].left \in 1..(m.n - 1) /\ tree[m] \in Infos
          BY <4>1 DEF TreeTypeOK
        <5>4. m \in Nodes /\ LeftOf(m, tree[m]) \in Nodes /\ RightOf(m, tree[m]) \in Nodes
          BY <5>3, SidesAre DEF TreeTypeOK, PartOf
        <5> QED
          BY <4>1, <5>1, <5>2, <5>4, <1>3, PartsOfParts
      <4> QED
        BY <4>3, <4>4
    <3> QED
      BY <3>1, <3>2
  <2> QED
    BY <2>1, <2>2 DEF UnexpandedApart
<1>12. NodesAreMade'
  <2>1. \A m \in Made : m \in Made'
    BY <1>1, <1>2 DEF Made
  <2>2. Root' = Root
    BY DEF Root
  <2>3. ~info.leaf => LeftOf(node, info) \in Made' /\ RightOf(node, info) \in Made'
    <3> SUFFICES ASSUME ~info.leaf
                 PROVE  LeftOf(node, info) \in Made' /\ RightOf(node, info) \in Made'
      OBVIOUS
    <3>1. new = <<LeftOf(node, info), RightOf(node, info)>>
      OBVIOUS
    <3>2. LeftOf(node, info) \in ToSet(new) /\ RightOf(node, info) \in ToSet(new)
      BY <3>1 DEF ToSet
    <3> QED
      BY <3>2, <1>2 DEF Made
  <2>4. \A m \in DOMAIN tree' :
           ~tree'[m].leaf => LeftOf(m, tree'[m]) \in Made' /\ RightOf(m, tree'[m]) \in Made'
    <3> TAKE m \in DOMAIN tree'
    <3>1. CASE m = node
      BY <3>1, <1>1, <2>3
    <3>2. CASE m # node
      <4>1. m \in DOMAIN tree /\ tree'[m] = tree[m]
        BY <3>2, <1>1
      <4> QED
        BY <4>1, <2>1 DEF NodesAreMade
    <3> QED
      BY <3>1, <3>2
  <2> QED
    BY <2>1, <2>2, <2>4 DEF NodesAreMade
<1> QED
  BY <1>10, <1>11, <1>12

LEMMA TreeSame ==
    ASSUME TreeTypeOK, UnexpandedApart, NodesAreMade, TreeDivided,
           UNCHANGED <<features, tree, unexpanded>>, selected' \in Int
    PROVE  TreeTypeOK' /\ UnexpandedApart' /\ NodesAreMade' /\ TreeDivided'
<1>1. features' = features /\ tree' = tree /\ unexpanded' = unexpanded
  OBVIOUS
<1>2. TreeTypeOK'
  BY <1>1 DEF TreeTypeOK
<1>3. UnexpandedApart'
  BY <1>1 DEF UnexpandedApart
<1>4. NodesAreMade'
  BY <1>1 DEF NodesAreMade, Made, Root
<1>5. TreeDivided'
  BY <1>1 DEF TreeDivided
<1> QED
  BY <1>2, <1>3, <1>4, <1>5

LEMMA TreeUnchanged ==
    ASSUME TreeInv, UNCHANGED building, pc' # "dividing"
    PROVE  TreeInv'
<1>1. UNCHANGED <<features, tree, unexpanded>> /\ selected' = selected
  BY DEF building, selection
<1>2. selected' \in Int
  BY <1>1 DEF TreeInv, TreeTypeOK
<1>3. Dividing'
  BY DEF Dividing
<1> QED
  BY <1>1, <1>2, <1>3, TreeSame DEF TreeInv

LEMMA TreeStutters ==
    ASSUME TreeInv, pc = "dividing", UNCHANGED vars
    PROVE  TreeInv'
<1>1. /\ UNCHANGED <<features, tree, unexpanded>> /\ selected' = selected
      /\ UNCHANGED selection /\ part' = part /\ calls' = calls /\ given' = given /\ pc' = pc
  BY DEF vars, building, selection
<1>2. selected' \in Int
  BY <1>1 DEF TreeInv, TreeTypeOK
<1>3. SelectInv'
  BY <1>1, SelectStutters DEF TreeInv, Dividing
<1>4. node' = node /\ PartColumn' = PartColumn /\ PartAt' = PartAt
  BY <1>1 DEF node, PartColumn, PartAt
<1>5. Dividing'
  BY <1>1, <1>3, <1>4 DEF TreeInv, Dividing
<1> QED
  BY <1>1, <1>2, <1>5, TreeSame DEF TreeInv

LEMMA ExpandLeafTree ==
    ASSUME TreeInv, ExpandLeaf
    PROVE  TreeInv'
<1>1. /\ pc' = "building" /\ unexpanded # <<>>
      /\ tree' = WithNode(node, LeafInfo) /\ unexpanded' = Tail(unexpanded)
      /\ features' = features /\ selected' = selected
  BY DEF ExpandLeaf, selection
<1>2. /\ LeafInfo \in Infos /\ LeafInfo.leaf /\ << >> \in Seq(Nodes)
      /\ unexpanded' = << >> \o Tail(unexpanded)
  <2>1. Tail(unexpanded) \in Seq(Nodes)
    BY <1>1 DEF TreeInv, TreeTypeOK
  <2> QED
    BY <1>1, <2>1 DEF LeafInfo, Infos
<1>3. selected' \in Int /\ features' \in Seq(Descriptor) /\ Len(features') = Len(features)
  BY <1>1 DEF TreeInv, TreeTypeOK
<1>4. TreeTypeOK' /\ UnexpandedApart' /\ NodesAreMade'
  BY <1>1, <1>2, <1>3, TreeGrows DEF TreeInv
<1>5. TreeDivided'
  <2>1. \A m \in DOMAIN tree' :
           \/ tree'[m] = LeafInfo
           \/ m \in DOMAIN tree /\ tree'[m] = tree[m]
    BY <1>1 DEF WithNode
  <2> QED
    BY <1>1, <1>2, <2>1 DEF TreeInv, TreeDivided
<1> QED
  BY <1>1, <1>4, <1>5 DEF TreeInv, Dividing

LEMMA PartKeysAre == \A m : PartKeys(m) \subseteq 1..Dims
<1> 1 \in 1..Dims
  BY KDAssumption
<1> QED
  BY DEF PartKeys

LEMMA ColumnsAre ==
    /\ \A m, ki : Column(m, ki) = ColumnOf(features, m, ki)
    /\ \A m : KdLeft(m) = LeftOf(m, tree[m]) /\ KdRight(m) = RightOf(m, tree[m])
BY DEF Column, ColumnOf, KdLeft, KdRight, LeftOf, RightOf

LEMMA AssignPartKeyTree ==
    ASSUME TreeInv, AssignPartKey
    PROVE  TreeInv'
<1> PICK ki \in PartKeys(node) :
      /\ part' = [NoPart EXCEPT !.ki = ki]
      /\ given' = [array |-> Column(node, ki), r |-> MedianRank(node.n)]
      /\ calls' = <<Call(Column(node, ki), MedianRank(node.n))>>
  BY DEF AssignPartKey
<1>1. /\ unexpanded # <<>> /\ node.n > 1
      /\ UNCHANGED <<features, tree, unexpanded>> /\ selected' = selected
  BY DEF AssignPartKey
<1>2. selected' \in Int
  BY <1>1 DEF TreeInv, TreeTypeOK
<1>3. ki \in 1..Dims
  BY PartKeysAre
<1>4. PartOf(features, node) /\ node.n \in Nat
  BY <1>1, NodeHere DEF TreeInv
<1> DEFINE c == ColumnOf(features, node, ki)
           r == MedianRank(node.n)
<1>5. c \in Seq(Int) /\ Len(c) = node.n
  BY <1>3, <1>4, ColumnIs DEF TreeInv, TreeTypeOK
<1>6. r \in 0..(node.n - 1)
  BY <1>1, <1>4, MedianRankFits
<1>7. given' = [array |-> c, r |-> r] /\ calls' = <<Call(c, r)>>
  BY ColumnsAre
<1> HIDE DEF c, r
<1>8. SelectInv' /\ calls' # <<>>
  BY <1>2, <1>5, <1>6, <1>7, SelectBegan
<1>9. /\ part'.ki = ki /\ part'.i = 0 /\ part'.j = 0 /\ part'.p = 0
  BY DEF NoPart
<1>10. node' = node /\ PartColumn' = c
  <2>1. node' = node
    BY <1>1 DEF node
  <2> QED
    BY <1>1, <1>9, <2>1 DEF PartColumn, c
<1>11. Dividing'
  BY <1>1, <1>3, <1>4, <1>7, <1>8, <1>9, <1>10 DEF Dividing, r
<1> QED
  BY <1>1, <1>2, <1>11, TreeSame DEF TreeInv

LEMMA SelectStepAsks ==
    ASSUME SelectStep
    PROVE  calls # <<>> /\ given' = given
BY DEF SelectStep, ReturnOnly, SortTurn, SelectPivot, PartitionTurn, SelectSide

LEMMA SelectMedianTree ==
    ASSUME TreeInv, SelectMedian
    PROVE  TreeInv'
<1>1. /\ pc = "dividing" /\ SelectStep
      /\ UNCHANGED <<features, tree, unexpanded>> /\ part' = part
  BY DEF SelectMedian
<1>2. Dividing /\ SelectInv
  BY <1>1 DEF TreeInv, Dividing
<1>3. calls # <<>> /\ given' = given
  BY <1>1, SelectStepAsks
<1>4. SelectInv'
  BY <1>1, <1>2, SelectStepKeeps
<1>5. selected' \in Int
  BY <1>4 DEF SelectInv, SelectTypeOK
<1>6. /\ unexpanded # <<>> /\ node.n > 1
      /\ part.ki \in 1..Dims
      /\ part.i = 0 /\ part.j = 0 /\ part.p = 0
      /\ given = [array |-> PartColumn, r |-> MedianRank(node.n)]
  BY <1>1, <1>2, <1>3 DEF Dividing
<1>7. node' = node /\ PartColumn' = PartColumn /\ PartAt' = 0 /\ PartAt = 0
  <2>1. node' = node
    BY <1>1 DEF node
  <2> QED
    BY <1>1, <1>6, <2>1 DEF PartColumn, PartAt
<1>8. calls' = <<>> => /\ HasRank(PartColumn, MedianRank(node.n), selected')
                       /\ LoopAt(PartColumn, selected', 0, 0, 0)
  <2> SUFFICES ASSUME calls' = <<>>
               PROVE  /\ HasRank(PartColumn, MedianRank(node.n), selected')
                      /\ LoopAt(PartColumn, selected', 0, 0, 0)
    OBVIOUS
  <2>1. HasRank(given.array, given.r, selected)'
    BY <1>4 DEF SelectInv, Leads
  <2>2. HasRank(PartColumn, MedianRank(node.n), selected')
    BY <2>1, <1>3, <1>6
  <2>3. \E l \in 1..Len(PartColumn) : PartColumn[l] = selected'
    BY <2>2 DEF HasRank
  <2> QED
    BY <2>2, <2>3 DEF LoopAt
<1>9. node.n \in Nat
  BY <1>6, NodeHere DEF TreeInv
<1>10. Dividing'
  BY <1>1, <1>3, <1>4, <1>6, <1>7, <1>8, <1>9 DEF Dividing
<1> QED
  BY <1>1, <1>5, <1>10, TreeSame DEF TreeInv

\* Features of the next node are exchanged.
LEMMA TreeStaysDivided ==
    ASSUME TreeTypeOK, UnexpandedApart, TreeDivided, unexpanded # <<>>,
           NEW a \in Entries(node), NEW b \in Entries(node),
           features' = Exchanged(features, a, b)
    PROVE  /\ features' \in Seq(Descriptor) /\ Len(features') = Len(features)
           /\ \A m \in DOMAIN tree : ~tree[m].leaf => DividedNode(features', m, tree[m])
<1>1. PartOf(features, node) /\ node = unexpanded[1] /\ 1 \in 1..Len(unexpanded)
      /\ features \in Seq(Descriptor)
  BY NodeHere DEF TreeTypeOK
<1>2. a \in 1..Len(features) /\ b \in 1..Len(features)
  BY <1>1, EntriesAre
<1>3. features' \in Seq(Descriptor) /\ Len(features') = Len(features)
  BY <1>1, <1>2, FeaturesExchanged
<1>4. ASSUME NEW m \in DOMAIN tree, ~tree[m].leaf
      PROVE  DividedNode(features', m, tree[m])
  <2>1. PartOf(features, m) /\ tree[m] \in Infos /\ tree[m].ki \in 1..Dims
    BY <1>4 DEF TreeTypeOK
  <2>2. DividedNode(features, m, tree[m])
    BY <1>4 DEF TreeDivided
  <2>3. \/ Apart(node, m) \/ Within(node, LeftOf(m, tree[m]))
        \/ Within(node, RightOf(m, tree[m]))
    BY <1>1, <1>4 DEF UnexpandedApart
  <2> QED
    BY <1>1, <2>1, <2>2, <2>3, ExchangeKeepsDivided
<1> QED
  BY <1>3, <1>4

\* The values of the next node, in the loop of partition_features.
LEMMA InTheLoop ==
    ASSUME TreeInv, pc = "dividing", calls = <<>>
    PROVE  /\ unexpanded # <<>> /\ PartOf(features, node) /\ node.n > 1
           /\ node.first \in Nat /\ node.n \in Nat /\ node.first >= 1
           /\ features \in Seq(Descriptor) /\ selected \in Int
           /\ part.ki \in 1..Dims /\ part.i \in 0..node.n /\ part.j \in Nat
           /\ part.j <= part.i
           /\ part.p = 0 \/ part.p \in Entries(node)
           /\ PartColumn \in Seq(Int) /\ Len(PartColumn) = node.n
           /\ \A j \in 1..node.n : PartColumn[j] = features[node.first + j - 1][part.ki]
           /\ PartAt \in Nat
           /\ HasRank(PartColumn, MedianRank(node.n), selected)
           /\ LoopAt(PartColumn, selected, part.j, part.i, PartAt)
<1>1. Dividing /\ TreeTypeOK
  BY DEF TreeInv
<1>2. /\ unexpanded # <<>> /\ node.n > 1
      /\ part.ki \in 1..Dims
      /\ part.i \in 0..node.n /\ part.j \in Nat
      /\ part.p = 0 \/ part.p \in Entries(node)
      /\ HasRank(PartColumn, MedianRank(node.n), selected)
      /\ LoopAt(PartColumn, selected, part.j, part.i, PartAt)
  BY <1>1 DEF Dividing
<1>3. PartOf(features, node) /\ node.first \in Nat /\ node.n \in Nat /\ node.first >= 1
  BY <1>1, <1>2, NodeHere DEF PartOf
<1>4. features \in Seq(Descriptor) /\ selected \in Int
  BY <1>1 DEF TreeTypeOK
<1>5. PartColumn \in Seq(Int) /\ Len(PartColumn) = node.n
      /\ \A j \in 1..node.n : PartColumn[j] = features[node.first + j - 1][part.ki]
  BY <1>2, <1>3, <1>4, ColumnIs DEF PartColumn
<1>6. PartAt \in Nat
  BY <1>2, <1>3 DEF PartAt, Entries
<1>7. part.j <= part.i
  BY <1>2 DEF LoopAt
<1> QED
  BY <1>2, <1>3, <1>4, <1>5, <1>6, <1>7

LEMMA FeatureTurnTree ==
    ASSUME TreeInv, FeatureTurn
    PROVE  TreeInv' /\ Len(features') = Len(features)
<1> DEFINE c == PartColumn
           x == features[node.first + part.i][part.ki]
           a == node.first + part.j
           b == node.first + part.i
<1>1. /\ pc = "dividing" /\ calls = <<>> /\ part.i < node.n /\ pc' = pc
      /\ tree' = tree /\ unexpanded' = unexpanded /\ UNCHANGED selection
  BY DEF FeatureTurn
<1>2. /\ unexpanded # <<>> /\ PartOf(features, node) /\ node.n > 1
      /\ node.first \in Nat /\ node.n \in Nat /\ node.first >= 1
      /\ features \in Seq(Descriptor) /\ selected \in Int
      /\ part.ki \in 1..Dims /\ part.i \in 0..node.n /\ part.j \in Nat
      /\ part.j <= part.i
      /\ part.p = 0 \/ part.p \in Entries(node)
      /\ c \in Seq(Int) /\ Len(c) = node.n
      /\ \A j \in 1..node.n : c[j] = features[node.first + j - 1][part.ki]
      /\ PartAt \in Nat
      /\ HasRank(c, MedianRank(node.n), selected)
      /\ LoopAt(c, selected, part.j, part.i, PartAt)
  BY <1>1, InTheLoop
<1>3. part.i \in Nat /\ part.i + 1 \in 1..node.n /\ x = c[part.i + 1]
  <2>1. part.i \in Nat /\ part.i + 1 \in 1..node.n
    BY <1>1, <1>2
  <2>2. node.first + (part.i + 1) - 1 = node.first + part.i
    BY <1>2, <2>1
  <2> QED
    BY <1>2, <2>1, <2>2
<1>4. selected' = selected /\ calls' = <<>> /\ SelectInv'
  <2>1. SelectInv
    BY <1>1 DEF TreeInv, Dividing
  <2> QED
    BY <1>1, <2>1, SelectStutters DEF selection
<1>5. node' = node
  BY <1>1 DEF node
<1> HIDE DEF c, x
<1>6. CASE x <= selected
  <2>1. /\ features' = Exchanged(features, a, b)
        /\ part' = [part EXCEPT !.i = @ + 1, !.j = @ + 1,
                      !.p = IF x = selected THEN a ELSE @]
    BY <1>6 DEF FeatureTurn, x
  <2> DEFINE p1 == IF x = selected THEN a ELSE part.p
  <2>2. /\ part'.ki = part.ki /\ part'.i = part.i + 1 /\ part'.j = part.j + 1
        /\ part'.p = p1
    <3>1. DOMAIN part = DOMAIN part
      OBVIOUS
    <3> QED
      BY <2>1
  <2>3. a \in Entries(node) /\ b \in Entries(node) /\ a # 0
    <3>1. /\ node.first \in Nat /\ node.n \in Nat /\ node.first >= 1
          /\ part.i \in Nat /\ part.j \in Nat /\ part.j <= part.i /\ part.i < node.n
      BY <1>1, <1>2, <1>3
    <3> QED
      BY <3>1 DEF Entries
  <2>4. /\ features' \in Seq(Descriptor) /\ Len(features') = Len(features)
        /\ \A m \in DOMAIN tree : ~tree[m].leaf => DividedNode(features', m, tree[m])
    BY <1>2, <2>1, <2>3, TreeStaysDivided DEF TreeInv
  <2>5. part.j + 1 \in 1..node.n
        /\ LoopAt(Exchanged(c, part.j + 1, part.i + 1), selected, part.j + 1, part.i + 1,
                  IF x = selected THEN part.j + 1 ELSE PartAt)
    BY <1>1, <1>2, <1>3, <1>6, LoopTurnBelow
  <2>6. PartColumn' = Exchanged(c, part.j + 1, part.i + 1)
    <3>1. PartColumn' = ColumnOf(Exchanged(features, a, b), node, part.ki)
      BY <1>5, <2>1, <2>2 DEF PartColumn
    <3>2. a - node.first + 1 = part.j + 1 /\ b - node.first + 1 = part.i + 1
      BY <1>2, <1>3
    <3>3. ColumnOf(Exchanged(features, a, b), node, part.ki)
            = Exchanged(c, a - node.first + 1, b - node.first + 1)
      BY <1>2, <2>3, ColumnExchanged DEF PartColumn, c
    <3> QED
      BY <3>1, <3>2, <3>3
  <2>7. HasRank(PartColumn', MedianRank(node.n), selected)
    BY <1>2, <1>3, <2>5, <2>6, ExchangedRearranged, RearrangedRank
  <2>8. PartAt' = IF x = selected THEN part.j + 1 ELSE PartAt
    <3>1. CASE x = selected
      BY <1>2, <1>5, <2>2, <2>3, <3>1 DEF PartAt
    <3>2. CASE x # selected
      BY <1>5, <2>2, <3>2 DEF PartAt
    <3> QED
      BY <3>1, <3>2
  <2>9. part'.p = 0 \/ part'.p \in Entries(node)
    BY <1>2, <2>2, <2>3
  <2>10. Dividing'
    BY <1>1, <1>2, <1>3, <1>4, <1>5, <2>2, <2>5, <2>6, <2>7, <2>8, <2>9 DEF Dividing
  <2>11. TreeTypeOK' /\ UnexpandedApart' /\ NodesAreMade' /\ TreeDivided'
    <3>1. TreeTypeOK'
      BY <1>1, <1>4, <2>4 DEF TreeInv, TreeTypeOK, PartOf
    <3>2. UnexpandedApart'
      BY <1>1 DEF TreeInv, UnexpandedApart
    <3>3. NodesAreMade'
      BY <1>1, <2>4 DEF TreeInv, NodesAreMade, Made, Root
    <3>4. TreeDivided'
      BY <1>1, <2>4 DEF TreeDivided
    <3> QED
      BY <3>1, <3>2, <3>3, <3>4
  <2> QED
    BY <2>4, <2>10, <2>11 DEF TreeInv
<1>7. CASE ~(x <= selected)
  <2>1. /\ features' = features
        /\ part' = [part EXCEPT !.i = @ + 1]
    BY <1>7 DEF FeatureTurn, x
  <2>2. /\ part'.ki = part.ki /\ part'.i = part.i + 1 /\ part'.j = part.j
        /\ part'.p = part.p
    BY <2>1
  <2>3. LoopAt(c, selected, part.j, part.i + 1, PartAt)
    BY <1>1, <1>2, <1>3, <1>7, LoopTurnAbove
  <2>4. PartColumn' = c /\ PartAt' = PartAt
    BY <1>5, <2>1, <2>2 DEF PartColumn, PartAt, c
  <2>5. Dividing'
    BY <1>1, <1>2, <1>3, <1>4, <1>5, <2>2, <2>3, <2>4 DEF Dividing
  <2> QED
    BY <1>1, <1>2, <1>4, <2>1, <2>5, TreeSame DEF TreeInv
<1> QED
  BY <1>6, <1>7

\* The end of partition_features.
LEMMA DivideTree ==
    ASSUME TreeInv, Divide
    PROVE  TreeInv' /\ Len(features') = Len(features)
<1> DEFINE c == PartColumn
           b == node.first + part.j - 1
           d == Exchanged(c, PartAt, part.j)
           info == [leaf |-> FALSE, ki |-> part.ki, kv |-> selected, left |-> part.j]
<1>1. /\ pc = "dividing" /\ calls = <<>> /\ part.i = node.n /\ pc' = "building"
      /\ features' = Exchanged(features, part.p, b)
      /\ selected' = selected
  BY DEF Divide, selection
<1>2. /\ unexpanded # <<>> /\ PartOf(features, node) /\ node.n > 1
      /\ node.first \in Nat /\ node.n \in Nat /\ node.first >= 1
      /\ features \in Seq(Descriptor) /\ selected \in Int
      /\ part.ki \in 1..Dims /\ part.j \in Nat
      /\ part.p = 0 \/ part.p \in Entries(node)
      /\ c \in Seq(Int) /\ Len(c) = node.n
      /\ PartAt \in Nat
      /\ HasRank(c, MedianRank(node.n), selected)
      /\ LoopAt(c, selected, part.j, Len(c), PartAt)
  BY <1>1, InTheLoop
<1>3. /\ PartAt \in 1..part.j /\ part.j \in 1..node.n
      /\ DividedAt(d, part.j) /\ d[part.j] = selected
  BY <1>2, LoopEnds
<1>4. /\ part.p \in Entries(node) /\ b \in Entries(node)
      /\ part.p - node.first + 1 = PartAt /\ b - node.first + 1 = part.j
  <2>1. /\ node.first \in Nat /\ node.n \in Nat /\ part.j \in 1..node.n
        /\ PartAt \in 1..part.j
        /\ part.p = 0 \/ part.p \in node.first..(node.first + node.n - 1)
    BY <1>2, <1>3 DEF Entries
  <2>2. part.p # 0
    BY <2>1 DEF PartAt
  <2>3. PartAt = part.p - node.first + 1 /\ part.p \in Entries(node)
    BY <2>1, <2>2 DEF PartAt, Entries
  <2>4. b \in Entries(node) /\ b - node.first + 1 = part.j
    BY <2>1 DEF Entries
  <2> QED
    BY <2>3, <2>4
<1>5. /\ features' \in Seq(Descriptor) /\ Len(features') = Len(features)
      /\ \A m \in DOMAIN tree : ~tree[m].leaf => DividedNode(features', m, tree[m])
  BY <1>1, <1>2, <1>4, TreeStaysDivided DEF TreeInv
<1>6. ColumnOf(features', node, part.ki) = d
  BY <1>1, <1>2, <1>4, ColumnExchanged DEF PartColumn
<1>7. /\ d \in Seq(Int) /\ Len(d) = node.n
      /\ HasRank(d, MedianRank(node.n), selected)
  <2>1. PartAt \in 1..Len(c) /\ part.j \in 1..Len(c)
    BY <1>2, <1>3
  <2>2. d \in Seq(Int) /\ Rearranged(c, d)
    BY <1>2, <2>1, ExchangedRearranged
  <2>3. HasRank(c, MedianRank(node.n), selected) <=> HasRank(d, MedianRank(node.n), selected)
    BY <1>2, <2>2, RearrangedRank
  <2> QED
    BY <1>2, <2>2, <2>3 DEF Rearranged
<1>8. PartOf(features', node)
  BY <1>2, <1>5 DEF PartOf
<1>9. \A j \in 1..node.n : d[j] = features'[node.first + j - 1][part.ki]
  <2>1. \A j \in 1..node.n :
          ColumnOf(features', node, part.ki)[j] = features'[node.first + j - 1][part.ki]
    BY <1>2, <1>5, <1>8, ColumnIs
  <2> HIDE DEF d
  <2> QED
    BY <1>6, <2>1
<1>10. part.j < node.n => DividedNode(features', node, info)
  <2> SUFFICES ASSUME part.j < node.n  PROVE DividedNode(features', node, info)
    OBVIOUS
  <2>1. /\ info.left = part.j /\ info.ki = part.ki /\ info.kv = selected
        /\ Entries(LeftOf(node, info)) = node.first..(node.first + part.j - 1)
        /\ Entries(RightOf(node, info)) = (node.first + part.j)..(node.first + node.n - 1)
    BY <1>2, <1>3 DEF LeftOf, RightOf, NodeAt, Entries
  <2> HIDE DEF info, d, c
  <2>2. \A f \in node.first..(node.first + part.j - 1) : features'[f][part.ki] <= selected
    <3> TAKE f \in node.first..(node.first + part.j - 1)
    <3>1. /\ f - node.first + 1 \in 1..part.j /\ f - node.first + 1 \in 1..node.n
          /\ node.first + (f - node.first + 1) - 1 = f
      <4>1. node.first \in Nat /\ node.n \in Nat /\ part.j \in 1..node.n
        BY <1>2, <1>3
      <4> QED
        BY <4>1
    <3>2. d[f - node.first + 1] <= selected
      BY <1>3, <3>1 DEF DividedAt
    <3> QED
      BY <1>9, <3>1, <3>2
  <2>3. \A f \in (node.first + part.j)..(node.first + node.n - 1) :
           features'[f][part.ki] > selected
    <3> TAKE f \in (node.first + part.j)..(node.first + node.n - 1)
    <3>1. /\ f - node.first + 1 \in (part.j + 1)..node.n /\ f - node.first + 1 \in 1..node.n
          /\ node.first + (f - node.first + 1) - 1 = f
      <4>1. node.first \in Nat /\ node.n \in Nat /\ part.j \in 1..node.n
        BY <1>2, <1>3
      <4> QED
        BY <4>1
    <3>2. d[f - node.first + 1] > selected
      BY <1>3, <1>7, <3>1 DEF DividedAt
    <3> QED
      BY <1>9, <3>1, <3>2
  <2>4. part.j \in 1..(node.n - 1)
    BY <1>2, <1>3
  <2>5. HasRank(ColumnOf(features', node, part.ki), MedianRank(node.n), selected)
    BY <1>6, <1>7
  <2> QED
    BY <2>1, <2>2, <2>3, <2>4, <2>5 DEF DividedNode
<1> HIDE DEF c, d
<1>11. CASE part.j = node.n
  <2>1. tree' = WithNode(node, LeafInfo) /\ unexpanded' = Tail(unexpanded)
    BY <1>11 DEF Divide
  <2>2. /\ LeafInfo \in Infos /\ LeafInfo.leaf /\ << >> \in Seq(Nodes)
        /\ unexpanded' = << >> \o Tail(unexpanded)
    <3>1. Tail(unexpanded) \in Seq(Nodes)
      BY <1>2 DEF TreeInv, TreeTypeOK
    <3> QED
      BY <2>1, <3>1 DEF LeafInfo, Infos
  <2>3. TreeTypeOK' /\ UnexpandedApart' /\ NodesAreMade'
    BY <1>1, <1>2, <1>5, <2>1, <2>2, TreeGrows DEF TreeInv
  <2>4. TreeDivided'
    <3>1. \A m \in DOMAIN tree' :
             \/ tree'[m] = LeafInfo
             \/ m \in DOMAIN tree /\ tree'[m] = tree[m]
      BY <2>1 DEF WithNode
    <3> QED
      BY <1>5, <2>2, <3>1 DEF TreeDivided
  <2> QED
    BY <1>1, <1>5, <2>3, <2>4 DEF TreeInv, Dividing
<1>12. CASE part.j # node.n
  <2> DEFINE new == <<LeftOf(node, info), RightOf(node, info)>>
  <2>1. tree' = WithNode(node, info) /\ unexpanded' = new \o Tail(unexpanded)
    <3>1. LeftOf(node, info) = NodeAt(node.first, part.j)
      BY DEF LeftOf
    <3>2. RightOf(node, info) = NodeAt(node.first + part.j, node.n - part.j)
      BY DEF RightOf
    <3> QED
      BY <1>12, <3>1, <3>2 DEF Divide
  <2>2. part.j < node.n /\ part.j \in 1..(node.n - 1)
    BY <1>2, <1>3, <1>12
  <2>3. info \in Infos /\ ~info.leaf /\ info.ki \in 1..Dims /\ info.left \in 1..(node.n - 1)
    BY <1>2, <2>2, KDAssumption DEF Infos
  <2>4. new \in Seq(Nodes)
    <3>1. LeftOf(node, info) \in Nodes /\ RightOf(node, info) \in Nodes
      BY <1>2, <2>3, SidesAre DEF PartOf
    <3> QED
      BY <3>1
  <2> HIDE DEF info
  <2>5. TreeTypeOK' /\ UnexpandedApart' /\ NodesAreMade'
    BY <1>1, <1>2, <1>5, <2>1, <2>3, <2>4, TreeGrows DEF TreeInv
  <2>6. TreeDivided'
    <3>1. \A m \in DOMAIN tree' :
             \/ m = node /\ tree'[m] = info
             \/ m \in DOMAIN tree /\ tree'[m] = tree[m]
      BY <2>1 DEF WithNode
    <3>2. DividedNode(features', node, info)
      BY <1>10, <2>2
    <3> QED
      BY <1>5, <3>1, <3>2 DEF TreeDivided
  <2> QED
    BY <1>1, <1>5, <2>5, <2>6 DEF TreeInv, Dividing
<1> QED
  BY <1>11, <1>12

LEMMA TreeInvMeans ==
    ASSUME TreeInv
    PROVE  TreeDividesFeatures /\ MediansDivide
<1>1. ASSUME NEW m \in DOMAIN tree, ~tree[m].leaf
      PROVE  DividedNode(features, m, tree[m])
  BY <1>1 DEF TreeInv, TreeDivided
<1>2. TreeDividesFeatures
  BY <1>1, ColumnsAre DEF TreeDividesFeatures, DividedNode
<1>3. MediansDivide
  BY <1>1, ColumnsAre DEF MediansDivide, DividedNode
<1> QED
  BY <1>2, <1>3

\* What a search relies on: a whole tree.
LEMMA WholeTree ==
    ASSUME TreeInv, unexpanded = <<>>
    PROVE  /\ Root \in DOMAIN tree
           /\ features \in Seq(Descriptor) /\ Len(features) \in Nat
           /\ Entries(Root) = 1..Len(features)
           /\ \A m \in DOMAIN tree :
                /\ m.first \in Nat /\ m.n \in Nat \ {0}
                /\ Entries(m) \subseteq 1..Len(features)
           /\ \A m \in DOMAIN tree : ~tree[m].leaf =>
                /\ KdLeft(m) \in DOMAIN tree /\ KdRight(m) \in DOMAIN tree
                /\ Entries(KdLeft(m)) \union Entries(KdRight(m)) = Entries(m)
                /\ Entries(KdLeft(m)) \intersect Entries(KdRight(m)) = {}
<1>1. features \in Seq(Descriptor) /\ Len(features) \in Nat
  BY DEF TreeInv, TreeTypeOK
<1>2. Made = DOMAIN tree
  <2>1. ToSet(unexpanded) = {}
    BY DEF ToSet
  <2> QED
    BY <2>1 DEF Made
<1>3. Root \in DOMAIN tree
  BY <1>2 DEF TreeInv, NodesAreMade
<1>4. Entries(Root) = 1..Len(features)
  BY <1>1 DEF Entries, Root, NodeAt
<1>5. \A m \in DOMAIN tree :
         /\ PartOf(features, m)
         /\ tree[m] \in Infos
         /\ m.first \in Nat /\ m.n \in Nat \ {0}
         /\ Entries(m) \subseteq 1..Len(features)
  <2> TAKE m \in DOMAIN tree
  <2>1. PartOf(features, m) /\ tree[m] \in Infos
    BY DEF TreeInv, TreeTypeOK
  <2>2. m.first \in Nat /\ m.n \in Nat \ {0}
    BY <2>1 DEF PartOf, Nodes
  <2> QED
    BY <1>1, <2>1, <2>2, EntriesAre
<1>6. ASSUME NEW m \in DOMAIN tree, ~tree[m].leaf
      PROVE  /\ KdLeft(m) \in DOMAIN tree /\ KdRight(m) \in DOMAIN tree
             /\ Entries(KdLeft(m)) \union Entries(KdRight(m)) = Entries(m)
             /\ Entries(KdLeft(m)) \intersect Entries(KdRight(m)) = {}
  <2>1. LeftOf(m, tree[m]) \in DOMAIN tree /\ RightOf(m, tree[m]) \in DOMAIN tree
    BY <1>2, <1>6 DEF TreeInv, NodesAreMade
  <2>2. tree[m].left \in 1..(m.n - 1)
    BY <1>6 DEF TreeInv, TreeTypeOK
  <2> QED
    BY <1>1, <1>5, <2>1, <2>2, SidesAre, ColumnsAre
<1> QED
  BY <1>1, <1>3, <1>4, <1>5, <1>6

-----------------------------------------------------------------------------
(* Recursion over the numbers up to N.                                     *)

\* What holds of 0, and of each number after one that it holds of.
LEMMA CountingUp ==
    ASSUME NEW N \in Nat, NEW T, 0 \in T, \A d \in 1..N : d - 1 \in T => d \in T
    PROVE  0..N \subseteq T
<1> DEFINE U == (0..N) \ T
<1>1. SUFFICES ASSUME U # {}  PROVE FALSE
  OBVIOUS
<1>2. U \subseteq Nat
  OBVIOUS
<1>3. PICK u \in U : \A v \in U : ~(<<v, u>> \in OpToRel(<, Nat))
  BY <1>1, <1>2, NatLessThanWellFounded, WFMin
<1>4. u \in 1..N /\ u - 1 \in Nat
  BY <1>2
<1>5. u - 1 \notin U
  <2>1. <<u - 1, u>> \in OpToRel(<, Nat)
    BY <1>4 DEF OpToRel
  <2> QED
    BY <1>3, <2>1
<1> QED
  BY <1>4, <1>5

\* The sum of squares that kdtree.c takes from descr_dist_sq is a number.
LEMMA DistanceIsInt ==
    ASSUME feat \in Descriptor, NEW f, features[f] \in Descriptor
    PROVE  Distance(f) \in Int
<1> DEFINE sq == [d \in 1..Dims |-> (feat[d] - features[f][d]) * (feat[d] - features[f][d])]
           Turn(g) == [d \in 0..Dims |->
                         IF d = 0 THEN 0
                         ELSE g[d - 1] + (feat[d] - features[f][d]) * (feat[d] - features[f][d])]
           Right(n, g) == g[0] = 0 /\ \A d \in 1..n : g[d] = g[d - 1] + sq[d]
           sum == CHOOSE g : g = Turn(g)
<1>1. Dims \in Nat \ {0}
  BY KDAssumption
<1>2. sq \in [1..Dims -> Int]
  <2>1. \A x \in Int : x * x \in Int
    OBVIOUS
  <2>2. \A d \in 1..Dims : feat[d] - features[f][d] \in Int
    <3> TAKE d \in 1..Dims
    <3>1. feat \in [1..Dims -> Int] /\ features[f] \in [1..Dims -> Int]
      BY DEF Descriptor
    <3>2. feat[d] \in Int /\ features[f][d] \in Int
      BY <3>1
    <3> QED
      BY <3>2
  <2>3. \A d \in 1..Dims :
           (feat[d] - features[f][d]) * (feat[d] - features[f][d]) \in Int
    BY <2>1, <2>2, Zenon
  <2> QED
    BY <2>3, Zenon
<1>3. \E g \in [0..Dims -> Int] : Right(Dims, g)
  <2> HIDE DEF sq
  <2> DEFINE T == {n \in 0..Dims : \E g \in [0..n -> Int] : Right(n, g)}
  <2>1. 0 \in T
    <3>1. [d \in 0..0 |-> 0] \in [0..0 -> Int] /\ Right(0, [d \in 0..0 |-> 0])
      OBVIOUS
    <3>2. 0 \in 0..Dims
      BY <1>1
    <3> HIDE DEF Right
    <3> QED
      BY <3>1, <3>2, Zenon
  <2>2. ASSUME NEW n \in 1..Dims, n - 1 \in T  PROVE n \in T
    <3>1. PICK g \in [0..(n - 1) -> Int] : Right(n - 1, g)
      BY <2>2
    <3> DEFINE h == [d \in 0..n |-> IF d = n THEN g[n - 1] + sq[n] ELSE g[d]]
    <3>2. h \in [0..n -> Int]
      BY <1>2
    <3>3. Right(n, h)
      BY <3>1
    <3>4. n \in 0..Dims
      BY <1>1
    <3> HIDE DEF Right, h
    <3> QED
      BY <3>2, <3>3, <3>4, Zenon
  <2>3. Dims \in T
    <3> HIDE DEF T
    <3>1. 0..Dims \subseteq T
      BY <1>1, <2>1, <2>2, CountingUp
    <3> QED
      BY <1>1, <3>1
  <2> QED
    BY <2>3
<1>4. \E g : g = Turn(g)
  <2>1. PICK g \in [0..Dims -> Int] : Right(Dims, g)
    BY <1>3
  <2>2. \A d \in 0..Dims : g[d] = Turn(g)[d]
    BY <1>1, <2>1
  <2>3. Turn(g) = [d \in 0..Dims |-> Turn(g)[d]]
    OBVIOUS
  <2> HIDE DEF Turn
  <2>4. g = Turn(g)
    BY <2>2, <2>3
  <2> QED
    BY <2>4
<1>5. sum = Turn(sum)
  BY <1>4
<1>6. \A d \in 0..Dims :
        sum[d] = IF d = 0 THEN 0 ELSE sum[d - 1] + sq[d]
  <2> HIDE DEF sum
  <2>1. \A d \in 0..Dims : Turn(sum)[d] = IF d = 0 THEN 0 ELSE sum[d - 1] + sq[d]
    BY <1>1
  <2> HIDE DEF Turn
  <2> QED
    BY <1>5, <2>1
<1> HIDE DEF sum, sq
<1>7. Dims \in {d \in 0..Dims : sum[d] \in Int}
  <2> DEFINE T == {d \in 0..Dims : sum[d] \in Int}
  <2>1. 0 \in T
    BY <1>1, <1>6
  <2>2. ASSUME NEW d \in 1..Dims, d - 1 \in T  PROVE d \in T
    BY <1>1, <1>2, <1>6, <2>2
  <2> HIDE DEF T
  <2>3. 0..Dims \subseteq T
    BY <1>1, <2>1, <2>2, CountingUp
  <2> QED
    BY <1>1, <2>3 DEF T
<1>8. Distance(f) = sum[Dims]
  BY DEF Distance, sum
<1> QED
  BY <1>7, <1>8

-----------------------------------------------------------------------------
(* The nearest of what was seen: D is the distance of each.                *)

Nearest(s, seen, D, most) ==
    /\ s \in Seq(DOMAIN D) /\ Len(s) <= most
    /\ \A a, b \in 1..Len(s) : a # b => s[a] # s[b]
    /\ \A a, b \in 1..Len(s) : a < b => D[s[a]] <= D[s[b]]
    /\ ToSet(s) \subseteq seen /\ seen \subseteq DOMAIN D
    /\ Len(s) < most => seen \subseteq ToSet(s)
    /\ \A f \in seen \ ToSet(s), g \in ToSet(s) : D[g] <= D[f]

LEMMA ToSetIs ==
    ASSUME NEW S, NEW s \in Seq(S)
    PROVE  /\ ToSet(s) = {s[j] : j \in 1..Len(s)}
           /\ Len(s) \in Nat /\ s \in [1..Len(s) -> S]
           /\ \A j \in 1..Len(s) : s[j] \in ToSet(s) /\ s[j] \in S
BY DEF ToSet

LEMMA SequenceIs ==
    ASSUME NEW S, NEW n \in Nat, NEW w \in [1..n -> S]
    PROVE  w \in Seq(S) /\ Len(w) = n
OBVIOUS

LEMMA NoneSeen ==
    ASSUME NEW D, NEW most \in Nat
    PROVE  Nearest(<<>>, {}, D, most)
BY DEF Nearest, ToSet

\* Farther than the k neighbours, or as far as the last: there is no change.
LEMMA NearestStays ==
    ASSUME NEW N \in Nat, NEW D \in [1..N -> Int], NEW most \in Nat \ {0},
           NEW s, NEW seen, Nearest(s, seen, D, most),
           NEW x \in 1..N, x \notin seen,
           Len(s) = most, \A j \in 1..most : D[s[j]] <= D[x]
    PROVE  Nearest(s, seen \union {x}, D, most)
<1>1. \A g \in ToSet(s) : D[g] <= D[x]
  <2>1. s \in Seq(1..N)
    BY DEF Nearest
  <2>2. ToSet(s) = {s[j] : j \in 1..Len(s)}
    BY <2>1, ToSetIs
  <2> QED
    BY <2>2
<1> QED
  BY <1>1 DEF Nearest

\* s with x at place p.
With(s, x, p, most) ==
    [j \in 1..(IF Len(s) = most THEN most ELSE Len(s) + 1) |->
        IF j < p THEN s[j] ELSE IF j = p THEN x ELSE s[j - 1]]

\* x was not seen yet, p is behind those of s that are not farther, and is one of
\* the places there are.
Fits(x, p, s, seen, D, most) ==
    /\ Nearest(s, seen, D, most)
    /\ x \in DOMAIN D /\ x \notin seen
    /\ p \in 1..(Len(s) + 1)
    /\ \A j \in 1..(p - 1) : D[s[j]] <= D[x]
    /\ \A j \in p..Len(s) : D[x] < D[s[j]]
    /\ ~(Len(s) = most /\ p > most)

\* w is s with x, and without the last of s if there were enough already.
TakenIn(x, w, s, seen, D, most) ==
    /\ Nearest(w, seen \union {x}, D, most)
    /\ x \notin ToSet(s)
    /\ Len(s) = most => /\ s[most] \in ToSet(s)
                        /\ ToSet(w) = (ToSet(s) \ {s[most]}) \union {x}
    /\ Len(s) # most => ToSet(w) = ToSet(s) \union {x}

\* insert_into_nbr_array: x comes behind those that are not farther, and of more
\* than k the last goes.
LEMMA NearestGrows ==
    ASSUME NEW N \in Nat, NEW D \in [1..N -> Int], NEW most \in Nat \ {0},
           NEW x, NEW p, NEW s, NEW seen, Fits(x, p, s, seen, D, most)
    PROVE  TakenIn(x, With(s, x, p, most), s, seen, D, most)
<1> DEFINE n == Len(s)
           q == IF n = most THEN most ELSE n + 1
           w == With(s, x, p, most)
<1>0. w = [j \in 1..q |-> IF j < p THEN s[j] ELSE IF j = p THEN x ELSE s[j - 1]]
  BY DEF With
<1> HIDE DEF w
<1>15. /\ Nearest(s, seen, D, most)
       /\ p \in 1..(n + 1)
       /\ \A j \in 1..(p - 1) : D[s[j]] <= D[x]
       /\ \A j \in p..n : D[x] < D[s[j]]
       /\ ~(n = most /\ p > most)
       /\ x \in 1..N /\ x \notin seen
  BY DEF Fits
<1>1. /\ s \in Seq(1..N) /\ n \in Nat /\ n <= most
      /\ \A a, b \in 1..n : a # b => s[a] # s[b]
      /\ \A a, b \in 1..n : a < b => D[s[a]] <= D[s[b]]
      /\ ToSet(s) \subseteq seen /\ seen \subseteq 1..N
      /\ n < most => seen \subseteq ToSet(s)
      /\ \A f \in seen \ ToSet(s), g \in ToSet(s) : D[g] <= D[f]
  BY <1>15 DEF Nearest
<1>2. /\ ToSet(s) = {s[j] : j \in 1..n}
      /\ \A j \in 1..n : s[j] \in ToSet(s) /\ s[j] \in 1..N
  BY <1>1, ToSetIs
<1>3. q \in Nat \ {0} /\ q <= most /\ p \in 1..q /\ q \in {n, n + 1}
  BY <1>1, <1>15
<1>4. x \notin ToSet(s) /\ x \in 1..N
  BY <1>1, <1>15
<1>5. \A j \in 1..q : /\ j < p => j \in 1..n /\ w[j] = s[j]
                      /\ j = p => w[j] = x
                      /\ j > p => j - 1 \in p..n /\ j - 1 \in 1..n /\ w[j] = s[j - 1]
  <2> TAKE j \in 1..q
  <2>1. w[j] = IF j < p THEN s[j] ELSE IF j = p THEN x ELSE s[j - 1]
    BY <1>0
  <2>2. p \in Nat /\ p >= 1 /\ j \in Nat
    BY <1>3
  <2> QED
    BY <1>1, <1>3, <2>1, <2>2
<1>6. w \in Seq(1..N) /\ Len(w) = q
  <2>1. \A j \in 1..q : w[j] \in 1..N
    <3> TAKE j \in 1..q
    <3>1. j < p \/ j = p \/ j > p
      BY <1>3
    <3> QED
      BY <1>2, <1>4, <1>5, <3>1
  <2>2. w = [j \in 1..q |-> w[j]]
    BY <1>0
  <2> HIDE DEF q
  <2>3. w \in [1..q -> 1..N]
    BY <2>1, <2>2
  <2>4. q \in Nat
    BY <1>3
  <2> QED
    BY <2>3, <2>4, SequenceIs, Zenon
<1>7. ToSet(w) = {w[j] : j \in 1..q}
  <2>1. ToSet(w) = {w[j] : j \in 1..Len(w)}
    <3>1. \A v \in Seq(1..N) : ToSet(v) = {v[j] : j \in 1..Len(v)}
      BY ToSetIs
    <3>2. w \in Seq(1..N)
      BY <1>6
    <3> QED
      BY <3>1, <3>2, Zenon
  <2> HIDE DEF q
  <2> QED
    BY <1>6, <2>1, Zenon
<1> HIDE DEF n, q
<1>8. \A a, b \in 1..q : a # b => w[a] # w[b]
  <2>1. ASSUME NEW a \in 1..q, NEW b \in 1..q, a < b  PROVE w[a] # w[b]
    <3>0. a \in Int /\ b \in Int /\ p \in Int
      BY <1>3
    <3>1. CASE b < p
      <4>1. a < p
        BY <2>1, <3>0, <3>1
      <4>2. a \in 1..n /\ w[a] = s[a]
        BY <1>5, <4>1
      <4>3. b \in 1..n /\ w[b] = s[b]
        BY <1>5, <3>1
      <4>4. a # b
        BY <2>1, <3>0
      <4> QED
        BY <1>1, <4>2, <4>3, <4>4
    <3>2. CASE b = p
      <4>1. a < p
        BY <2>1, <3>2
      <4> QED
        BY <1>2, <1>4, <1>5, <3>2, <4>1
    <3>3. CASE b > p /\ a < p
      <4>1. a \in 1..n /\ w[a] = s[a]
        BY <1>5, <3>3
      <4>2. b - 1 \in 1..n /\ w[b] = s[b - 1]
        BY <1>5, <3>3
      <4>3. a # b - 1
        BY <3>0, <3>3
      <4> QED
        BY <1>1, <4>1, <4>2, <4>3
    <3>4. CASE b > p /\ a = p
      BY <1>2, <1>4, <1>5, <3>4
    <3>5. CASE b > p /\ a > p
      <4>1. /\ a - 1 \in 1..n /\ w[a] = s[a - 1] /\ b - 1 \in 1..n /\ w[b] = s[b - 1]
            /\ a - 1 # b - 1
        BY <1>5, <2>1, <3>0, <3>5
      <4> QED
        BY <1>1, <4>1
    <3> QED
      BY <2>1, <3>0, <3>1, <3>2, <3>3, <3>4, <3>5
  <2> SUFFICES ASSUME NEW c \in 1..q, NEW d \in 1..q, c # d  PROVE w[c] # w[d]
    OBVIOUS
  <2>2. c < d \/ d < c
    BY <1>3
  <2> QED
    BY <2>1, <2>2
<1>9. \A a, b \in 1..q : a < b => D[w[a]] <= D[w[b]]
  <2> SUFFICES ASSUME NEW a \in 1..q, NEW b \in 1..q, a < b  PROVE D[w[a]] <= D[w[b]]
    OBVIOUS
  <2>0. a \in Int /\ b \in Int /\ p \in Int
    BY <1>3
  <2>1. CASE b < p
    <3>1. a < p
      BY <2>0, <2>1
    <3> QED
      BY <1>1, <1>5, <2>0, <2>1, <3>1
  <2>2. CASE b = p
    <3>1. a < p /\ a \in 1..(p - 1)
      BY <2>0, <2>2
    <3>2. D[s[a]] <= D[x]
      BY <1>15, <3>1
    <3> QED
      BY <1>5, <2>2, <3>1, <3>2
  <2>3. CASE b > p /\ a < p
    <3>1. a < b - 1
      BY <2>0, <2>3
    <3>2. a \in 1..n /\ w[a] = s[a]
      BY <1>5, <2>3
    <3>3. b - 1 \in 1..n /\ w[b] = s[b - 1]
      BY <1>5, <2>3
    <3> QED
      BY <1>1, <3>1, <3>2, <3>3
  <2>4. CASE b > p /\ a = p
    <3>1. b - 1 \in p..n /\ b - 1 \in 1..n /\ w[b] = s[b - 1] /\ w[a] = x
      BY <1>5, <2>4
    <3>2. D[x] < D[s[b - 1]]
      BY <1>15, <3>1
    <3>3. D[x] \in Int /\ D[s[b - 1]] \in Int
      BY <1>2, <1>4, <3>1
    <3> QED
      BY <3>1, <3>2, <3>3
  <2>5. CASE b > p /\ a > p
    <3>1. a - 1 < b - 1
      BY <2>0
    <3>2. a - 1 \in 1..n /\ w[a] = s[a - 1]
      BY <1>5, <2>5
    <3>3. b - 1 \in 1..n /\ w[b] = s[b - 1]
      BY <1>5, <2>5
    <3> QED
      BY <1>1, <3>1, <3>2, <3>3
  <2> QED
    BY <2>0, <2>1, <2>2, <2>3, <2>4, <2>5
<1>10. \A j \in 1..n : j \in 1..(q - 1) => \E l \in 1..q : w[l] = s[j]
  <2> SUFFICES ASSUME NEW j \in 1..n, j \in 1..(q - 1)  PROVE \E l \in 1..q : w[l] = s[j]
    OBVIOUS
  <2>1. j \in 1..q /\ j + 1 \in 1..q /\ (j + 1) - 1 = j
    BY <1>3
  <2>2. CASE j < p
    BY <1>5, <2>1, <2>2
  <2>3. CASE ~(j < p)
    <3>1. j + 1 > p
      BY <1>3, <2>3
    <3>2. w[j + 1] = s[(j + 1) - 1]
      BY <1>5, <2>1, <3>1
    <3> QED
      BY <2>1, <3>2
  <2> QED
    BY <2>2, <2>3
<1>11. x \in ToSet(w)
  BY <1>3, <1>5, <1>7
<1>12. \A j \in 1..q : w[j] = x \/ \E l \in 1..n : w[j] = s[l] /\ l \in 1..(q - 1)
  <2> TAKE j \in 1..q
  <2>1. CASE j < p
    <3>1. j \in 1..(q - 1)
      BY <1>3, <2>1
    <3> QED
      BY <1>5, <2>1, <3>1
  <2>2. CASE j = p
    BY <1>5, <2>2
  <2>3. CASE j > p
    <3>1. j - 1 \in 1..n /\ w[j] = s[j - 1]
      BY <1>5, <2>3
    <3>2. j - 1 \in 1..(q - 1)
      BY <1>3, <2>3, <3>1
    <3> QED
      BY <3>1, <3>2
  <2>4. j < p \/ j = p \/ j > p
    BY <1>3
  <2> QED
    BY <2>1, <2>2, <2>3, <2>4
<1>13. CASE n = most
  <2>1. q = n /\ n \in 1..n /\ p <= n
    BY <1>1, <1>3, <1>13 DEF q
  <2>2. s[n] \in ToSet(s) /\ D[s[n]] \in Int /\ D[x] \in Int /\ D[x] < D[s[n]]
    <3>1. n \in p..n
      BY <1>1, <1>3, <2>1
    <3>2. D[x] < D[s[n]]
      BY <1>15, <3>1
    <3> QED
      BY <1>2, <1>4, <2>1, <3>2
  <2>3. ToSet(w) = (ToSet(s) \ {s[n]}) \union {x}
    <3>1. ASSUME NEW g \in ToSet(w), g # x  PROVE g \in ToSet(s) \ {s[n]}
      <4>1. PICK l \in 1..n : g = s[l] /\ l \in 1..(q - 1)
        BY <1>7, <1>12, <3>1
      <4>2. l # n
        BY <2>1, <4>1
      <4> QED
        BY <1>1, <1>2, <2>1, <4>1, <4>2
    <3>2. ASSUME NEW g \in ToSet(s), g # s[n]  PROVE g \in ToSet(w)
      <4>1. PICK l \in 1..n : g = s[l]
        BY <1>2
      <4>2. l \in 1..(q - 1)
        BY <2>1, <3>2, <4>1
      <4> QED
        BY <1>7, <1>10, <4>1, <4>2
    <3> QED
      BY <1>11, <3>1, <3>2
  <2>4. \A j \in 1..n : D[s[j]] <= D[s[n]]
    <3> TAKE j \in 1..n
    <3>1. j < n \/ j = n
      BY <1>1
    <3> QED
      BY <1>1, <2>1, <2>2, <3>1
  <2>5. \A f \in (seen \union {x}) \ ToSet(w), g \in ToSet(w) : D[g] <= D[f]
    <3> TAKE f \in (seen \union {x}) \ ToSet(w), g \in ToSet(w)
    <3>1. f \in seen \ ToSet(s) \/ f = s[n]
      BY <1>11, <2>3
    <3>2. D[s[n]] <= D[f] /\ D[f] \in Int
      BY <1>1, <2>2, <3>1
    <3>3. g = x \/ \E j \in 1..n : g = s[j]
      BY <1>2, <2>3
    <3>4. D[g] <= D[s[n]] /\ D[g] \in Int
      BY <1>2, <2>2, <2>4, <3>3
    <3> QED
      BY <2>2, <3>2, <3>4
  <2>6. ToSet(w) \subseteq seen \union {x} /\ seen \union {x} \subseteq 1..N
    BY <1>1, <1>4, <2>3
  <2>7. Nearest(w, seen \union {x}, D, most)
    <3>1. DOMAIN D = 1..N /\ Len(w) = most /\ Len(w) <= most /\ ~(Len(w) < most)
      BY <1>6, <1>13, <2>1
    <3>2. q = Len(w)
      BY <1>6
    <3>3. /\ \A a, b \in 1..Len(w) : a # b => w[a] # w[b]
          /\ \A a, b \in 1..Len(w) : a < b => D[w[a]] <= D[w[b]]
      BY <1>8, <1>9, <3>2, Zenon
    <3> QED
      BY <1>6, <2>5, <2>6, <3>1, <3>3, Zenon DEF Nearest
  <2> QED
    BY <1>4, <1>13, <2>2, <2>3, <2>7 DEF n, w, TakenIn
<1>14. CASE n # most
  <2>1. q = n + 1 /\ n < most
    BY <1>1, <1>14 DEF q
  <2>2. ToSet(w) = ToSet(s) \union {x}
    <3>1. \A g \in ToSet(w) : g = x \/ g \in ToSet(s)
      BY <1>2, <1>7, <1>12
    <3>2. ASSUME NEW g \in ToSet(s)  PROVE g \in ToSet(w)
      <4>1. PICK l \in 1..n : g = s[l]
        BY <1>2
      <4>2. l \in 1..(q - 1)
        BY <1>1, <2>1
      <4> QED
        BY <1>7, <1>10, <4>1, <4>2
    <3> QED
      BY <1>11, <3>1, <3>2
  <2>3. seen \union {x} \subseteq ToSet(w) /\ ToSet(w) \subseteq seen \union {x}
    BY <1>1, <2>1, <2>2
  <2>4. seen \union {x} \subseteq 1..N
    BY <1>1, <1>4
  <2>5. Nearest(w, seen \union {x}, D, most)
    BY <1>3, <1>6, <1>8, <1>9, <2>3, <2>4 DEF Nearest
  <2> QED
    BY <1>4, <1>14, <2>2, <2>5 DEF n, w, TakenIn
<1> QED
  BY <1>13, <1>14

\* How many they are.
LEMMA NearestMany ==
    ASSUME NEW N \in Nat, NEW D \in [1..N -> Int], NEW most \in Nat \ {0},
           NEW s, NEW seen, Nearest(s, seen, D, most)
    PROVE  /\ Cardinality(ToSet(s)) = Len(s)
           /\ Len(s) = IF Cardinality(seen) < most THEN Cardinality(seen) ELSE most
<1> DEFINE n == Len(s)
<1>1. /\ s \in Seq(1..N) /\ n \in Nat /\ n <= most
      /\ \A a, b \in 1..n : a # b => s[a] # s[b]
      /\ ToSet(s) \subseteq seen /\ seen \subseteq 1..N
      /\ n < most => seen \subseteq ToSet(s)
  BY DEF Nearest
<1>2. ToSet(s) = {s[j] : j \in 1..n}
  BY <1>1 DEF ToSet
<1>3. s \in Bijection(1..n, ToSet(s))
  <2>1. s \in [1..n -> ToSet(s)]
    BY <1>1, <1>2
  <2> QED
    BY <1>1, <1>2, <2>1, Fun_IsBij, Zenon
<1>4. IsFiniteSet(1..n) /\ Cardinality(1..n) = n
  <2> HIDE DEF n
  <2> QED
    BY <1>1, FS_Interval
<1>5. Cardinality(ToSet(s)) = n
  BY <1>3, <1>4, FS_Bijection, Zenon DEF ExistsBijection
<1>6. Cardinality(seen) \in Nat /\ n <= Cardinality(seen)
  <2>1. seen \in SUBSET (1..N) /\ ToSet(s) \in SUBSET seen
    BY <1>1
  <2>2. Cardinality(ToSet(s)) <= Cardinality(seen) /\ Cardinality(seen) \in Nat
    BY <2>1, PositionsMany, Zenon
  <2> QED
    BY <1>5, <2>2
<1>7. n < most => Cardinality(seen) = n
  <2> SUFFICES ASSUME n < most  PROVE Cardinality(seen) = n
    OBVIOUS
  <2>1. seen = ToSet(s)
    BY <1>1
  <2> QED
    BY <1>5, <2>1
<1> HIDE DEF n
<1>8. n = IF Cardinality(seen) < most THEN Cardinality(seen) ELSE most
  BY <1>1, <1>6, <1>7
<1> QED
  BY <1>5, <1>8 DEF n

-----------------------------------------------------------------------------
(* The search.  Its inductive invariant.                                   *)

Active == pc \in {"searching", "descending", "at leaf"}

\* What a search works with, when the tree is whole.
SearchTypeOK ==
    /\ pc \in {"building", "dividing", "searching", "descending", "at leaf",
               "found", "failed"}
    /\ pc \notin {"building", "dividing"} =>
         /\ unexpanded = <<>>
         /\ feat \in Descriptor /\ k \in Nat \ {0}
    /\ Active => \A e \in min_pq : e.data \in DOMAIN tree
    /\ pc \in {"descending", "at leaf"} => expl \in DOMAIN tree
    /\ pc = "at leaf" => i \in 0..expl.n

\* SearchCoversTree, of each feature.
InQueue(f) == \E e \in min_pq : f \in Entries(e.data)
InHand(f) ==
    \/ pc = "descending" /\ f \in Entries(expl)
    \/ pc = "at leaf" /\ f \in (expl.first + i)..(expl.first + expl.n - 1)

Covers ==
    Active =>
        /\ \A f \in 1..Len(features) : f \in examined \/ InQueue(f) \/ InHand(f)
        /\ \A f \in examined : ~InQueue(f) /\ ~InHand(f)
        /\ \A e, o \in min_pq :
             e # o => Entries(e.data) \intersect Entries(o.data) = {}
        /\ pc # "searching" =>
             \A e \in min_pq : Entries(e.data) \intersect Entries(expl) = {}

Distances == [f \in 1..Len(features) |-> Distance(f)]

\* The neighbours hold their distance and what they had before, and no other
\* feature is touched.
BorrowedData ==
    feature_data = [f \in 1..Len(features) |->
                      IF Active /\ f \in ToSet(nbrs)
                      THEN [old_data |-> Own, d |-> Distances[f]]
                      ELSE Own]

\* The neighbours are the nearest of what was examined so far, and at the end of
\* what a search promises.
NearestSoFar == Active => Nearest(nbrs, examined, Distances, k)
NearestAtEnd ==
    pc = "found" =>
        Nearest(nbrs, IF min_pq = {} THEN 1..Len(features) ELSE examined, Distances, k)

SearchInv ==
    /\ SearchTypeOK /\ Covers /\ BorrowedData /\ NearestSoFar /\ NearestAtEnd

\* The inductive invariant of the specification.
IInv == TreeInv /\ SearchInv

LEMMA DistancesAre ==
    ASSUME feat \in Descriptor, features \in Seq(Descriptor)
    PROVE  /\ Distances \in [1..Len(features) -> Int]
           /\ \A f \in 1..Len(features) : Distances[f] = Distance(f)
<1>1. \A f \in 1..Len(features) : features[f] \in Descriptor
  OBVIOUS
<1>2. \A f \in 1..Len(features) : Distance(f) \in Int
  BY <1>1, DistanceIsInt
<1> QED
  BY <1>2 DEF Distances

LEMMA DistancesStay ==
    ASSUME feat' = feat, features' = features
    PROVE  Distances' = Distances
BY DEF Distances, Distance

LEMMA SearchStarts == Init => SearchInv
<1> SUFFICES ASSUME Init  PROVE SearchInv
  OBVIOUS
<1>1. pc = "building" /\ feature_data = [f \in 1..Len(features) |-> Own]
  BY DEF Init
<1> QED
  BY <1>1 DEF SearchInv, SearchTypeOK, Covers, BorrowedData, NearestSoFar, NearestAtEnd, Active

LEMMA BuildingKeepsSearch ==
    ASSUME SearchInv, pc \in {"building", "dividing"}, pc' \in {"building", "dividing"},
           UNCHANGED searching, Len(features') = Len(features)
    PROVE  SearchInv'
<1>1. feature_data' = feature_data
  BY DEF searching
<1>2. feature_data = [f \in 1..Len(features) |-> Own]
  BY DEF SearchInv, BorrowedData, Active
<1>3. BorrowedData'
  BY <1>1, <1>2 DEF BorrowedData, Active
<1> QED
  BY <1>3 DEF SearchInv, SearchTypeOK, Covers, NearestSoFar, NearestAtEnd, Active

LEMMA SearchStutters ==
    ASSUME SearchInv, UNCHANGED vars
    PROVE  SearchInv'
<1>1. /\ features' = features /\ tree' = tree /\ unexpanded' = unexpanded
      /\ feat' = feat /\ k' = k /\ min_pq' = min_pq /\ expl' = expl /\ i' = i
      /\ nbrs' = nbrs /\ examined' = examined /\ pc' = pc
      /\ feature_data' = feature_data
  BY DEF vars, building, searching, arguments
<1>2. Distances' = Distances
  BY <1>1, DistancesStay
<1>3. SearchTypeOK'
  BY <1>1 DEF SearchInv, SearchTypeOK, Active
<1>4. Covers'
  BY <1>1 DEF SearchInv, Covers, Active, InQueue, InHand
<1>5. BorrowedData'
  BY <1>1, <1>2 DEF SearchInv, BorrowedData, Active
<1>6. NearestSoFar' /\ NearestAtEnd'
  BY <1>1, <1>2 DEF SearchInv, NearestSoFar, NearestAtEnd, Active
<1> QED
  BY <1>3, <1>4, <1>5, <1>6 DEF SearchInv

\* A search goes on without touching its neighbours.
LEMMA NeighboursStay ==
    ASSUME SearchInv, Active, pc' \in {"searching", "descending", "at leaf"},
           UNCHANGED <<building, arguments, feature_data, nbrs, examined>>
    PROVE  BorrowedData' /\ NearestSoFar' /\ NearestAtEnd'
<1>1. /\ features' = features /\ feat' = feat /\ k' = k
      /\ nbrs' = nbrs /\ examined' = examined /\ feature_data' = feature_data
  BY DEF building, arguments
<1>2. Distances' = Distances
  BY <1>1, DistancesStay
<1>3. Active'
  BY DEF Active
<1>4. BorrowedData'
  BY <1>1, <1>2, <1>3 DEF SearchInv, BorrowedData
<1>5. NearestSoFar'
  BY <1>1, <1>2, <1>3 DEF SearchInv, NearestSoFar
<1>6. NearestAtEnd'
  BY DEF NearestAtEnd
<1> QED
  BY <1>4, <1>5, <1>6

LEMMA SearchBeginsKeeps ==
    ASSUME TreeInv, SearchInv, SearchBegins
    PROVE  SearchInv'
<1>1. /\ feat' \in Queries /\ k' \in Ks
      /\ min_pq' = {[data |-> Root, key |-> 0]}
      /\ nbrs' = <<>> /\ examined' = {} /\ pc' = "searching"
      /\ features' = features /\ tree' = tree /\ unexpanded' = unexpanded
      /\ feature_data' = feature_data
  BY DEF SearchBegins, building
<1>2. unexpanded = <<>> /\ ~Active
  BY DEF SearchBegins, SearchInv, SearchTypeOK, Active
<1>3. feat' \in Descriptor /\ k' \in Nat \ {0}
  BY <1>1, KDAssumption DEF Descriptor
<1>4. Root \in DOMAIN tree /\ Entries(Root) = 1..Len(features)
  BY <1>2, WholeTree
<1>5. SearchTypeOK'
  <2>1. \A e \in min_pq' : e.data \in DOMAIN tree'
    BY <1>1, <1>4
  <2>2. unexpanded' = <<>>
    BY <1>1, <1>2
  <2> QED
    BY <1>1, <1>3, <2>1, <2>2 DEF SearchTypeOK
<1>6. Covers'
  <2>1. \A f \in 1..Len(features) : InQueue(f)'
    BY <1>1, <1>4 DEF InQueue
  <2> QED
    BY <1>1, <2>1 DEF Covers
<1>7. BorrowedData'
  <2>1. feature_data = [f \in 1..Len(features) |-> Own]
    BY <1>2 DEF SearchInv, BorrowedData
  <2>2. ToSet(nbrs') = {}
    BY <1>1 DEF ToSet
  <2>3. ToSet(nbrs)' = {}
    BY <2>2
  <2> QED
    BY <1>1, <2>1, <2>3 DEF BorrowedData
<1>8. NearestSoFar' /\ NearestAtEnd'
  BY <1>1, <1>3, NoneSeen DEF NearestSoFar, NearestAtEnd
<1> QED
  BY <1>5, <1>6, <1>7, <1>8 DEF SearchInv

\* While a search is going on.
LEMMA InSearch ==
    ASSUME TreeInv, SearchInv, Active
    PROVE  /\ unexpanded = <<>> /\ feat \in Descriptor /\ k \in Nat \ {0}
           /\ features \in Seq(Descriptor) /\ Len(features) \in Nat
           /\ \A e \in min_pq : e.data \in DOMAIN tree
           /\ \A m \in DOMAIN tree :
                /\ m.first \in Nat /\ m.n \in Nat \ {0}
                /\ Entries(m) \subseteq 1..Len(features)
           /\ \A m \in DOMAIN tree : ~tree[m].leaf =>
                /\ KdLeft(m) \in DOMAIN tree /\ KdRight(m) \in DOMAIN tree
                /\ Entries(KdLeft(m)) \union Entries(KdRight(m)) = Entries(m)
                /\ Entries(KdLeft(m)) \intersect Entries(KdRight(m)) = {}
<1>1. /\ unexpanded = <<>> /\ feat \in Descriptor /\ k \in Nat \ {0}
      /\ \A e \in min_pq : e.data \in DOMAIN tree
  BY DEF SearchInv, SearchTypeOK, Active
<1> QED
  BY <1>1, WholeTree

LEMMA ExtractKeeps ==
    ASSUME TreeInv, SearchInv, Extract
    PROVE  SearchInv'
<1>1. /\ pc = "searching" /\ pc' = "descending" /\ Active
      /\ features' = features /\ tree' = tree /\ unexpanded' = unexpanded
      /\ feat' = feat /\ k' = k /\ examined' = examined
      /\ UNCHANGED <<building, arguments, feature_data, nbrs, examined>>
  BY DEF Extract, building, arguments, Active
<1>2. PICK e \in min_pq : min_pq' = min_pq \ {e} /\ expl' = e.data
  BY DEF Extract, PQ!Smallest
<1>3. /\ unexpanded = <<>> /\ feat \in Descriptor /\ k \in Nat \ {0}
      /\ \A o \in min_pq : o.data \in DOMAIN tree
  BY <1>1, InSearch
<1>4. SearchTypeOK'
  BY <1>1, <1>2, <1>3 DEF SearchTypeOK, Active
<1>5. Covers'
  <2>1. /\ \A f \in 1..Len(features) : f \in examined \/ InQueue(f)
        /\ \A f \in examined : ~InQueue(f)
        /\ \A a, o \in min_pq : a # o => Entries(a.data) \intersect Entries(o.data) = {}
    BY <1>1 DEF SearchInv, Covers, InHand
  <2>2. \A f : InQueue(f) <=> InQueue(f)' \/ InHand(f)'
    BY <1>1, <1>2 DEF InQueue, InHand
  <2>3. \A a \in min_pq' : Entries(a.data) \intersect Entries(expl') = {}
    BY <1>2, <2>1
  <2>4. \A a, o \in min_pq' : a # o => Entries(a.data) \intersect Entries(o.data) = {}
    BY <1>2, <2>1
  <2>5. \A f \in 1..Len(features) : f \in examined' \/ InQueue(f)' \/ InHand(f)'
    BY <1>1, <2>1, <2>2
  <2>6. \A f \in examined' : ~InQueue(f)' /\ ~InHand(f)'
    BY <1>1, <2>1, <2>2
  <2> QED
    BY <1>1, <2>3, <2>4, <2>5, <2>6 DEF Covers
<1> QED
  BY <1>1, <1>4, <1>5, NeighboursStay DEF SearchInv

LEMMA DescendKeeps ==
    ASSUME TreeInv, SearchInv, Descend
    PROVE  SearchInv'
<1> DEFINE new == [data |-> PassedBy(expl),
                   key |-> ABS(tree[expl].kv, feat[tree[expl].ki])]
<1>1. /\ pc = "descending" /\ pc' = "descending" /\ Active /\ ~tree[expl].leaf
      /\ features' = features /\ tree' = tree /\ unexpanded' = unexpanded
      /\ feat' = feat /\ k' = k /\ examined' = examined
      /\ min_pq' = min_pq \union {new} /\ expl' = Toward(expl)
      /\ UNCHANGED <<building, arguments, feature_data, nbrs, examined>>
  BY DEF Descend, building, arguments, Active
<1>2. expl \in DOMAIN tree
  BY <1>1 DEF SearchInv, SearchTypeOK
<1>3. /\ unexpanded = <<>> /\ feat \in Descriptor /\ k \in Nat \ {0}
      /\ \A o \in min_pq : o.data \in DOMAIN tree
      /\ KdLeft(expl) \in DOMAIN tree /\ KdRight(expl) \in DOMAIN tree
      /\ Entries(KdLeft(expl)) \union Entries(KdRight(expl)) = Entries(expl)
      /\ Entries(KdLeft(expl)) \intersect Entries(KdRight(expl)) = {}
  BY <1>1, <1>2, InSearch
<1>4. /\ new.data = PassedBy(expl)
      /\ PassedBy(expl) \in DOMAIN tree /\ Toward(expl) \in DOMAIN tree
      /\ Entries(PassedBy(expl)) \union Entries(Toward(expl)) = Entries(expl)
      /\ Entries(PassedBy(expl)) \intersect Entries(Toward(expl)) = {}
  BY <1>3 DEF PassedBy, Toward
<1> HIDE DEF new
<1>5. SearchTypeOK'
  BY <1>1, <1>3, <1>4 DEF SearchTypeOK, Active
<1>6. Covers'
  <2>1. /\ \A f \in 1..Len(features) : f \in examined \/ InQueue(f) \/ f \in Entries(expl)
        /\ \A f \in examined : ~InQueue(f) /\ f \notin Entries(expl)
        /\ \A a, o \in min_pq : a # o => Entries(a.data) \intersect Entries(o.data) = {}
        /\ \A a \in min_pq : Entries(a.data) \intersect Entries(expl) = {}
    BY <1>1 DEF SearchInv, Covers, InHand
  <2>2. \A f : InQueue(f) \/ f \in Entries(expl) <=> InQueue(f)' \/ InHand(f)'
    <3>1. \A f : InQueue(f)' <=> InQueue(f) \/ f \in Entries(new.data)
      BY <1>1 DEF InQueue
    <3>2. \A f : InHand(f)' <=> f \in Entries(Toward(expl))
      BY <1>1 DEF InHand
    <3> QED
      BY <1>4, <3>1, <3>2
  <2>3. \A a \in min_pq' : Entries(a.data) \intersect Entries(expl') = {}
    <3>1. \A a \in min_pq : Entries(a.data) \intersect Entries(Toward(expl)) = {}
      BY <1>4, <2>1
    <3> QED
      BY <1>1, <1>4, <3>1
  <2>4. \A a, o \in min_pq' : a # o => Entries(a.data) \intersect Entries(o.data) = {}
    <3>1. \A a \in min_pq : Entries(a.data) \intersect Entries(new.data) = {}
      BY <1>4, <2>1
    <3> QED
      BY <1>1, <2>1, <3>1
  <2>5. \A f \in 1..Len(features) : f \in examined' \/ InQueue(f)' \/ InHand(f)'
    BY <1>1, <2>1, <2>2
  <2>6. \A f \in examined' : ~InQueue(f)' /\ ~InHand(f)'
    BY <1>1, <2>1, <2>2
  <2> QED
    BY <1>1, <2>3, <2>4, <2>5, <2>6 DEF Covers
<1> QED
  BY <1>1, <1>5, <1>6, NeighboursStay DEF SearchInv

LEMMA ReachLeafKeeps ==
    ASSUME TreeInv, SearchInv, ReachLeaf
    PROVE  SearchInv'
<1>1. /\ pc = "descending" /\ pc' = "at leaf" /\ Active /\ i' = 0
      /\ features' = features /\ tree' = tree /\ unexpanded' = unexpanded
      /\ feat' = feat /\ k' = k /\ examined' = examined
      /\ min_pq' = min_pq /\ expl' = expl
      /\ UNCHANGED <<building, arguments, feature_data, nbrs, examined>>
  BY DEF ReachLeaf, building, arguments, Active
<1>2. expl \in DOMAIN tree
  BY <1>1 DEF SearchInv, SearchTypeOK
<1>3. /\ unexpanded = <<>> /\ feat \in Descriptor /\ k \in Nat \ {0}
      /\ \A o \in min_pq : o.data \in DOMAIN tree
      /\ expl.first \in Nat /\ expl.n \in Nat \ {0}
  BY <1>1, <1>2, InSearch
<1>4. SearchTypeOK'
  <2>1. \A o \in min_pq' : o.data \in DOMAIN tree'
    BY <1>1, <1>3
  <2>2. i' \in 0..expl'.n
    <3>1. \A a \in Nat : 0 \in 0..a
      OBVIOUS
    <3>2. i' = 0 /\ expl' = expl
      BY <1>1
    <3> QED
      BY <1>3, <3>1, <3>2
  <2>3. unexpanded' = <<>> /\ expl' \in DOMAIN tree' /\ feat' \in Descriptor /\ k' \in Nat \ {0}
    BY <1>1, <1>2, <1>3
  <2> QED
    BY <1>1, <2>1, <2>2, <2>3 DEF SearchTypeOK
<1>5. Covers'
  <2>1. \A f : InQueue(f)' <=> InQueue(f)
    BY <1>1 DEF InQueue
  <2>2. \A f : InHand(f)' <=> InHand(f)
    <3>1. (expl.first + 0)..(expl.first + expl.n - 1) = Entries(expl)
      BY <1>3 DEF Entries
    <3> QED
      BY <1>1, <3>1 DEF InHand
  <2> QED
    BY <1>1, <2>1, <2>2 DEF SearchInv, Covers
<1> QED
  BY <1>1, <1>4, <1>5, NeighboursStay DEF SearchInv

LEMMA LeafIsDoneKeeps ==
    ASSUME TreeInv, SearchInv, LeafIsDone
    PROVE  SearchInv'
<1>1. /\ pc = "at leaf" /\ pc' = "searching" /\ Active /\ i = expl.n
      /\ features' = features /\ tree' = tree /\ unexpanded' = unexpanded
      /\ feat' = feat /\ k' = k /\ examined' = examined
      /\ min_pq' = min_pq
      /\ UNCHANGED <<building, arguments, feature_data, nbrs, examined>>
  BY DEF LeafIsDone, building, arguments, Active
<1>2. expl \in DOMAIN tree
  BY <1>1 DEF SearchInv, SearchTypeOK
<1>3. /\ unexpanded = <<>> /\ feat \in Descriptor /\ k \in Nat \ {0}
      /\ \A o \in min_pq : o.data \in DOMAIN tree
      /\ expl.first \in Nat /\ expl.n \in Nat \ {0}
  BY <1>1, <1>2, InSearch
<1>4. SearchTypeOK'
  BY <1>1, <1>3 DEF SearchTypeOK, Active
<1>5. Covers'
  <2>1. \A f : InQueue(f)' <=> InQueue(f)
    BY <1>1 DEF InQueue
  <2>2. \A f : ~InHand(f)' /\ ~InHand(f)
    <3>1. (expl.first + i)..(expl.first + expl.n - 1) = {}
      <4>1. \A a, b \in Nat : (a + b)..(a + b - 1) = {}
        OBVIOUS
      <4> QED
        BY <1>1, <1>3, <4>1
    <3> QED
      BY <1>1, <3>1 DEF InHand
  <2> QED
    BY <1>1, <2>1, <2>2 DEF SearchInv, Covers
<1> QED
  BY <1>1, <1>4, <1>5, NeighboursStay DEF SearchInv

\* The place of a feature among the neighbours.
LEMMA PlaceIs ==
    ASSUME SearchInv, Active, feat \in Descriptor, features \in Seq(Descriptor),
           NEW x \in Int
    PROVE  /\ PlaceOf(x) \in 1..(Len(nbrs) + 1)
           /\ \A j \in 1..(PlaceOf(x) - 1) : Distances[nbrs[j]] <= x
           /\ \A j \in PlaceOf(x)..Len(nbrs) : x < Distances[nbrs[j]]
<1> DEFINE n == Len(nbrs)
           S == {0} \union {j \in 1..n : dist(nbrs[j]) <= x}
           g == Greatest(S)
<1>1. /\ Nearest(nbrs, examined, Distances, k)
      /\ Distances \in [1..Len(features) -> Int]
  BY DistancesAre DEF SearchInv, NearestSoFar
<1>2. /\ nbrs \in Seq(1..Len(features)) /\ n \in Nat
      /\ \A a, b \in 1..n : a < b => Distances[nbrs[a]] <= Distances[nbrs[b]]
  BY <1>1 DEF Nearest
<1>3. \A j \in 1..n : nbrs[j] \in ToSet(nbrs) /\ nbrs[j] \in 1..Len(features)
  BY <1>2, ToSetIs
<1>4. \A f \in 1..Len(features) :
        f \in ToSet(nbrs) => feature_data[f] = [old_data |-> Own, d |-> Distances[f]]
  BY DEF SearchInv, BorrowedData
<1>5. \A j \in 1..n : dist(nbrs[j]) = Distances[nbrs[j]] /\ Distances[nbrs[j]] \in Int
  <2> TAKE j \in 1..n
  <2>1. feature_data[nbrs[j]] = [old_data |-> Own, d |-> Distances[nbrs[j]]]
    BY <1>3, <1>4
  <2> QED
    BY <1>1, <1>3, <2>1 DEF dist
<1>6. PlaceOf(x) = g + 1
  BY DEF PlaceOf
<1>7. g \in S /\ \A y \in S : y <= g
  <2>1. S \in SUBSET (0..n) /\ S # {}
    BY <1>2
  <2>2. 0 \in Int /\ n \in Int
    BY <1>2
  <2> HIDE DEF S, n
  <2> QED
    BY <2>1, <2>2, GreatestIn, Zenon
<1> HIDE DEF g
<1>8. g \in 0..n
  BY <1>2, <1>7
<1>9. \A j \in 1..g : Distances[nbrs[j]] <= x
  <2> TAKE j \in 1..g
  <2>1. g \in 1..n /\ j \in 1..n
    BY <1>2, <1>8
  <2>2. Distances[nbrs[g]] <= x
    BY <1>5, <1>7, <2>1
  <2>3. j < g \/ j = g
    BY <2>1
  <2> QED
    BY <1>2, <1>5, <2>1, <2>2, <2>3
<1>10. \A j \in (g + 1)..n : x < Distances[nbrs[j]]
  <2> TAKE j \in (g + 1)..n
  <2>1. j \in 1..n /\ ~(j <= g)
    BY <1>2, <1>8
  <2>2. ~(dist(nbrs[j]) <= x)
    BY <1>7, <2>1
  <2> QED
    BY <1>5, <2>1, <2>2
<1> QED
  BY <1>2, <1>6, <1>8, <1>9, <1>10

LEMMA InsertKeeps ==
    ASSUME SearchInv, Active, Active', feat \in Descriptor, features \in Seq(Descriptor),
           k \in Nat \ {0}, feat' = feat, features' = features, k' = k,
           NEW f \in 1..Len(features), f \notin examined,
           InsertIntoNbrs(f, Distance(f)), examined' = examined \union {f}
    PROVE  BorrowedData' /\ NearestSoFar'
<1> DEFINE N == Len(features)
           D == Distances
           x == Distance(f)
           p == PlaceOf(x)
           n == Len(nbrs)
           new == [old_data |-> Own, d |-> x]
           data == [h \in 1..N |-> IF h \in ToSet(nbrs)
                                   THEN [old_data |-> Own, d |-> D[h]] ELSE Own]
<1>1. /\ Nearest(nbrs, examined, D, k) /\ D \in [1..N -> Int]
      /\ x \in Int /\ D[f] = x /\ N \in Nat /\ f \in 1..N
  BY DistancesAre DEF SearchInv, NearestSoFar
<1>2. D' = D
  BY DistancesStay
<1>3. /\ nbrs \in Seq(1..N) /\ n \in Nat /\ n <= k
      /\ ToSet(nbrs) \subseteq examined /\ examined \subseteq 1..N
  BY <1>1 DEF Nearest
<1>4. /\ p \in 1..(n + 1)
      /\ \A j \in 1..(p - 1) : D[nbrs[j]] <= D[f]
      /\ \A j \in p..n : D[f] < D[nbrs[j]]
  BY <1>1, PlaceIs
<1>5. feature_data = data
  BY DEF SearchInv, BorrowedData
<1>6. f \notin ToSet(nbrs) /\ feature_data[f] = Own
  BY <1>3, <1>5
<1> HIDE DEF p, data
<1>7. CASE n = k /\ p > k
  <2>1. nbrs' = nbrs /\ feature_data' = feature_data
    BY <1>7 DEF InsertIntoNbrs, p
  <2>2. \A j \in 1..k : D[nbrs[j]] <= D[f]
    BY <1>3, <1>4, <1>7
  <2>3. Nearest(nbrs, examined \union {f}, D, k)
    <3>1. Len(nbrs) = k
      BY <1>7
    <3> HIDE DEF N, D
    <3> QED
      BY <1>1, <2>2, <3>1, NearestStays, Zenon
  <2>4. NearestSoFar'
    BY <1>2, <2>1, <2>3 DEF NearestSoFar
  <2>5. BorrowedData'
    BY <1>2, <2>1 DEF SearchInv, BorrowedData
  <2> QED
    BY <2>4, <2>5
<1>8. CASE ~(n = k /\ p > k)
  <2> DEFINE w == NbrsWith(f, x)
  <2>1. /\ nbrs' = w
        /\ feature_data' =
              IF n = k
              THEN [feature_data EXCEPT ![f] = new, ![nbrs[k]] = feature_data[nbrs[k]].old_data]
              ELSE [feature_data EXCEPT ![f] = new]
    BY <1>6, <1>8, Zenon DEF InsertIntoNbrs, p
  <2>2. w = With(nbrs, f, p, k)
    BY DEF NbrsWith, With, p
  <2> HIDE DEF w
  <2>3. /\ Nearest(w, examined \union {f}, D, k)
        /\ f \notin ToSet(nbrs)
        /\ n = k => nbrs[k] \in ToSet(nbrs)
        /\ ToSet(w) = IF n = k THEN (ToSet(nbrs) \ {nbrs[k]}) \union {f}
                      ELSE ToSet(nbrs) \union {f}
    <3> HIDE DEF N, D
    <3>1. Fits(f, p, nbrs, examined, D, k)
      BY <1>1, <1>4, <1>8, Zenon DEF Fits
    <3>2. TakenIn(f, w, nbrs, examined, D, k)
      BY <1>1, <2>2, <3>1, NearestGrows, Zenon
    <3> QED
      BY <3>2, Zenon DEF TakenIn
  <2>4. NearestSoFar'
    BY <1>2, <2>1, <2>3 DEF NearestSoFar
  <2>5. feature_data' = [h \in 1..N |-> IF h \in ToSet(w)
                                        THEN [old_data |-> Own, d |-> D[h]] ELSE Own]
    <3>1. DOMAIN feature_data = 1..N
      BY <1>5 DEF data
    <3>2. CASE n = k
      <4> DEFINE last == nbrs[k]
      <4>1. last \in ToSet(nbrs) /\ last # f /\ last \in 1..N
        BY <1>3, <1>6, <2>3, <3>2
      <4>2. feature_data[last].old_data = Own
        BY <1>5, <4>1 DEF data
      <4>3. feature_data' = [feature_data EXCEPT ![f] = new, ![last] = Own]
        BY <2>1, <3>2, <4>2
      <4> HIDE DEF last
      <4>4. \A h \in 1..N : feature_data'[h] = IF h = last THEN Own
                                               ELSE IF h = f THEN new ELSE feature_data[h]
        BY <3>1, <4>1, <4>3
      <4>5. DOMAIN feature_data' = 1..N
        BY <3>1, <4>3
      <4>6. \A h : h \in ToSet(w) <=> h = f \/ (h \in ToSet(nbrs) /\ h # last)
        BY <2>3, <3>2 DEF last
      <4>7. \A h \in 1..N : feature_data[h] = IF h \in ToSet(nbrs)
                               THEN [old_data |-> Own, d |-> D[h]] ELSE Own
        BY <1>5 DEF data
      <4>8. \A h \in 1..N : feature_data'[h] = IF h \in ToSet(w)
                               THEN [old_data |-> Own, d |-> D[h]] ELSE Own
        <5> TAKE h \in 1..N
        <5>1. CASE h = f
          BY <1>1, <4>1, <4>4, <4>6, <5>1
        <5>2. CASE h = last
          BY <4>1, <4>4, <4>6, <5>2
        <5>3. CASE h # f /\ h # last
          BY <4>4, <4>6, <4>7, <5>3
        <5> QED
          BY <5>1, <5>2, <5>3
      <4>9. feature_data' = [h \in 1..N |-> feature_data'[h]]
        BY <4>3, <4>5
      <4> QED
        BY <4>8, <4>9
    <3>3. CASE n # k
      <4>1. feature_data' = [feature_data EXCEPT ![f] = new]
        BY <2>1, <3>3
      <4>4. \A h \in 1..N : feature_data'[h] = IF h = f THEN new ELSE feature_data[h]
        BY <3>1, <4>1
      <4>5. DOMAIN feature_data' = 1..N
        BY <3>1, <4>1
      <4>6. \A h : h \in ToSet(w) <=> h = f \/ h \in ToSet(nbrs)
        BY <2>3, <3>3
      <4>7. \A h \in 1..N : feature_data[h] = IF h \in ToSet(nbrs)
                               THEN [old_data |-> Own, d |-> D[h]] ELSE Own
        BY <1>5 DEF data
      <4>8. \A h \in 1..N : feature_data'[h] = IF h \in ToSet(w)
                               THEN [old_data |-> Own, d |-> D[h]] ELSE Own
        <5> TAKE h \in 1..N
        <5>1. CASE h = f
          BY <1>1, <4>4, <4>6, <5>1
        <5>2. CASE h # f
          BY <4>4, <4>6, <4>7, <5>2
        <5> QED
          BY <5>1, <5>2
      <4>9. feature_data' = [h \in 1..N |-> feature_data'[h]]
        BY <4>1, <4>5
      <4> QED
        BY <4>8, <4>9
    <3> QED
      BY <3>2, <3>3
  <2>6. BorrowedData'
    <3>1. ToSet(nbrs)' = ToSet(w)
      BY <2>1
    <3> HIDE DEF D
    <3> QED
      BY <1>2, <2>5, <3>1 DEF BorrowedData, D
  <2> QED
    BY <2>4, <2>6
<1> QED
  BY <1>7, <1>8

LEMMA ExamineKeeps ==
    ASSUME TreeInv, SearchInv, Examine
    PROVE  SearchInv'
<1>0. PICK f : f = expl.first + i
  OBVIOUS
<1>1. /\ pc = "at leaf" /\ pc' = "at leaf" /\ Active /\ Active' /\ i < expl.n /\ i' = i + 1
      /\ features' = features /\ tree' = tree /\ unexpanded' = unexpanded
      /\ feat' = feat /\ k' = k /\ examined' = examined \union {f}
      /\ min_pq' = min_pq /\ expl' = expl
      /\ InsertIntoNbrs(f, Distance(f))
  BY <1>0 DEF Examine, building, arguments, Active
<1>2. expl \in DOMAIN tree /\ i \in 0..expl.n
  BY <1>1 DEF SearchInv, SearchTypeOK
<1>3. /\ unexpanded = <<>> /\ feat \in Descriptor /\ k \in Nat \ {0}
      /\ features \in Seq(Descriptor)
      /\ \A o \in min_pq : o.data \in DOMAIN tree
      /\ expl.first \in Nat /\ expl.n \in Nat \ {0}
      /\ Entries(expl) \subseteq 1..Len(features)
  BY <1>1, <1>2, InSearch
<1>4. /\ i \in Nat /\ i + 1 \in 0..expl.n
      /\ f \in Entries(expl)
      /\ (expl.first + i)..(expl.first + expl.n - 1)
           = {f} \union ((expl.first + (i + 1))..(expl.first + expl.n - 1))
      /\ f \notin (expl.first + (i + 1))..(expl.first + expl.n - 1)
  <2>1. \A a \in Nat : \A b \in 0..a : b \in Nat
    OBVIOUS
  <2>2. expl.first \in Nat /\ expl.n \in Nat
    BY <1>3
  <2>3. i \in Nat /\ i < expl.n
    BY <1>1, <1>2, <2>1, <2>2
  <2> QED
    BY <1>0, <2>2, <2>3 DEF Entries
<1>5. SearchTypeOK'
  <2>1. \A o \in min_pq' : o.data \in DOMAIN tree'
    BY <1>1, <1>3
  <2>2. i' \in 0..expl'.n
    BY <1>1, <1>4
  <2>3. unexpanded' = <<>> /\ expl' \in DOMAIN tree' /\ feat' \in Descriptor /\ k' \in Nat \ {0}
    BY <1>1, <1>2, <1>3
  <2> QED
    BY <1>1, <2>1, <2>2, <2>3 DEF SearchTypeOK
<1>6. /\ \A h \in 1..Len(features) : h \in examined \/ InQueue(h) \/ InHand(h)
      /\ \A h \in examined : ~InQueue(h) /\ ~InHand(h)
      /\ \A e, o \in min_pq : e # o => Entries(e.data) \intersect Entries(o.data) = {}
      /\ \A e \in min_pq : Entries(e.data) \intersect Entries(expl) = {}
  BY <1>1 DEF SearchInv, Covers
<1>7. \A h : InHand(h) <=> h = f \/ InHand(h)'
  BY <1>1, <1>4 DEF InHand
<1>8. ~InHand(f)' /\ ~InQueue(f) /\ f \notin examined /\ f \in 1..Len(features)
  <2>1. ~InHand(f)'
    BY <1>1, <1>4 DEF InHand
  <2>2. ~InQueue(f)
    BY <1>4, <1>6 DEF InQueue
  <2>3. f \notin examined
    BY <1>6, <1>7
  <2> QED
    BY <1>3, <1>4, <2>1, <2>2, <2>3
<1>9. Covers'
  <2>1. \A h : InQueue(h)' <=> InQueue(h)
    BY <1>1 DEF InQueue
  <2>2. \A h \in 1..Len(features) : h \in examined' \/ InQueue(h)' \/ InHand(h)'
    BY <1>1, <1>6, <1>7, <2>1
  <2>3. \A h \in examined' : ~InQueue(h)' /\ ~InHand(h)'
    BY <1>1, <1>6, <1>7, <1>8, <2>1
  <2> QED
    BY <1>1, <1>6, <2>2, <2>3 DEF Covers
<1>10. BorrowedData' /\ NearestSoFar'
  BY <1>1, <1>3, <1>8, InsertKeeps
<1>11. NearestAtEnd'
  BY <1>1 DEF NearestAtEnd
<1> QED
  BY <1>5, <1>9, <1>10, <1>11 DEF SearchInv

\* Whoever holds a distance gives it back for what it had.
LEMMA RestoredIs ==
    ASSUME SearchInv, Active
    PROVE  Restored = [f \in 1..Len(features) |-> Own]
<1>1. nbrs \in Seq(DOMAIN Distances)
  BY DEF SearchInv, NearestSoFar, Nearest
<1>2. \A f : f \in ToSet(nbrs) <=> \E j \in 1..Len(nbrs) : nbrs[j] = f
  BY <1>1, ToSetIs
<1>3. \A f \in 1..Len(features) :
        /\ f \in ToSet(nbrs) => feature_data[f] = [old_data |-> Own, d |-> Distances[f]]
        /\ f \notin ToSet(nbrs) => feature_data[f] = Own
  BY DEF SearchInv, BorrowedData
<1>4. \A f \in 1..Len(features) :
        (IF \E j \in 1..Len(nbrs) : nbrs[j] = f THEN feature_data[f].old_data
         ELSE feature_data[f]) = Own
  <2> TAKE f \in 1..Len(features)
  <2>1. CASE f \in ToSet(nbrs)
    <3>1. feature_data[f].old_data = Own
      <4>1. feature_data[f] = [old_data |-> Own, d |-> Distances[f]]
        BY <1>3, <2>1
      <4> QED
        BY <4>1
    <3> QED
      BY <1>2, <2>1, <3>1, Zenon
  <2>2. CASE f \notin ToSet(nbrs)
    BY <1>2, <1>3, <2>2, Zenon
  <2> QED
    BY <2>1, <2>2
<1> QED
  BY <1>4 DEF Restored

LEMMA SearchEndsKeeps ==
    ASSUME TreeInv, SearchInv, SearchEnds
    PROVE  SearchInv'
<1>1. /\ pc = "searching" /\ pc' = "found" /\ Active /\ ~Active'
      /\ features' = features /\ tree' = tree /\ unexpanded' = unexpanded
      /\ feat' = feat /\ k' = k /\ examined' = examined /\ min_pq' = min_pq
      /\ nbrs' = nbrs /\ feature_data' = Restored
  BY DEF SearchEnds, building, arguments, Active
<1>2. unexpanded = <<>> /\ feat \in Descriptor /\ k \in Nat \ {0}
  BY <1>1, InSearch
<1>3. Restored = [f \in 1..Len(features) |-> Own]
  BY <1>1, RestoredIs
<1>4. SearchTypeOK' /\ Covers' /\ NearestSoFar'
  BY <1>1, <1>2 DEF SearchTypeOK, Covers, NearestSoFar
<1>5. BorrowedData'
  BY <1>1, <1>3 DEF BorrowedData
<1>6. Nearest(nbrs, examined, Distances, k)
  BY <1>1 DEF SearchInv, NearestSoFar
<1>7. min_pq = {} => examined = 1..Len(features)
  <2>1. \A f \in 1..Len(features) : f \in examined \/ InQueue(f) \/ InHand(f)
    BY <1>1 DEF SearchInv, Covers
  <2>2. min_pq = {} => \A f : ~InQueue(f) /\ ~InHand(f)
    BY <1>1 DEF InQueue, InHand
  <2>3. examined \subseteq 1..Len(features)
    BY <1>6 DEF Nearest, Distances
  <2> QED
    BY <2>1, <2>2, <2>3
<1>8. Distances' = Distances
  BY <1>1, DistancesStay
<1>9. NearestAtEnd'
  BY <1>1, <1>6, <1>7, <1>8 DEF NearestAtEnd
<1> QED
  BY <1>4, <1>5, <1>9 DEF SearchInv

LEMMA SearchFailsKeeps ==
    ASSUME TreeInv, SearchInv, SearchFails
    PROVE  SearchInv'
<1>1. /\ pc' = "failed" /\ Active /\ ~Active'
      /\ features' = features /\ unexpanded' = unexpanded
      /\ feat' = feat /\ k' = k /\ feature_data' = Restored
  BY DEF SearchFails, building, arguments, Active
<1>2. unexpanded = <<>> /\ feat \in Descriptor /\ k \in Nat \ {0}
  BY <1>1, InSearch
<1>3. Restored = [f \in 1..Len(features) |-> Own]
  BY <1>1, RestoredIs
<1>4. SearchTypeOK' /\ Covers' /\ NearestSoFar' /\ NearestAtEnd'
  BY <1>1, <1>2 DEF SearchTypeOK, Covers, NearestSoFar, NearestAtEnd
<1>5. BorrowedData'
  BY <1>1, <1>3 DEF BorrowedData
<1> QED
  BY <1>4, <1>5 DEF SearchInv

-----------------------------------------------------------------------------
(* The whole specification.                                                *)

LEMMA IInvHolds == Spec => []IInv
<1>1. Init => IInv
  BY TreeStarts, SearchStarts DEF IInv
<1>2. IInv /\ [Next]_vars => IInv'
  <2> SUFFICES ASSUME IInv, [Next]_vars  PROVE IInv'
    OBVIOUS
  <2> USE DEF IInv
  <2>1. CASE ExpandLeaf
    <3>1. /\ pc \in {"building", "dividing"} /\ pc' \in {"building", "dividing"}
          /\ UNCHANGED searching /\ Len(features') = Len(features)
      BY <2>1 DEF ExpandLeaf
    <3> QED
      BY <2>1, <3>1, ExpandLeafTree, BuildingKeepsSearch
  <2>2. CASE AssignPartKey
    <3>1. /\ pc \in {"building", "dividing"} /\ pc' \in {"building", "dividing"}
          /\ UNCHANGED searching /\ Len(features') = Len(features)
      BY <2>2 DEF AssignPartKey
    <3> QED
      BY <2>2, <3>1, AssignPartKeyTree, BuildingKeepsSearch
  <2>3. CASE SelectMedian
    <3>1. /\ pc \in {"building", "dividing"} /\ pc' \in {"building", "dividing"}
          /\ UNCHANGED searching /\ Len(features') = Len(features)
      BY <2>3 DEF SelectMedian
    <3> QED
      BY <2>3, <3>1, SelectMedianTree, BuildingKeepsSearch
  <2>4. CASE FeatureTurn
    <3>1. /\ pc \in {"building", "dividing"} /\ pc' \in {"building", "dividing"}
          /\ UNCHANGED searching
      BY <2>4 DEF FeatureTurn
    <3> QED
      BY <2>4, <3>1, FeatureTurnTree, BuildingKeepsSearch
  <2>5. CASE Divide
    <3>1. /\ pc \in {"building", "dividing"} /\ pc' \in {"building", "dividing"}
          /\ UNCHANGED searching
      BY <2>5 DEF Divide
    <3> QED
      BY <2>5, <3>1, DivideTree, BuildingKeepsSearch
  <2>6. CASE SearchBegins
    <3>1. UNCHANGED building /\ pc' # "dividing"
      BY <2>6 DEF SearchBegins
    <3> QED
      BY <2>6, <3>1, TreeUnchanged, SearchBeginsKeeps
  <2>7. CASE Extract
    <3>1. UNCHANGED building /\ pc' # "dividing"
      BY <2>7 DEF Extract
    <3> QED
      BY <2>7, <3>1, TreeUnchanged, ExtractKeeps
  <2>8. CASE Descend
    <3>1. UNCHANGED building /\ pc' # "dividing"
      BY <2>8 DEF Descend
    <3> QED
      BY <2>8, <3>1, TreeUnchanged, DescendKeeps
  <2>9. CASE ReachLeaf
    <3>1. UNCHANGED building /\ pc' # "dividing"
      BY <2>9 DEF ReachLeaf
    <3> QED
      BY <2>9, <3>1, TreeUnchanged, ReachLeafKeeps
  <2>10. CASE Examine
    <3>1. UNCHANGED building /\ pc' # "dividing"
      BY <2>10 DEF Examine
    <3> QED
      BY <2>10, <3>1, TreeUnchanged, ExamineKeeps
  <2>11. CASE LeafIsDone
    <3>1. UNCHANGED building /\ pc' # "dividing"
      BY <2>11 DEF LeafIsDone
    <3> QED
      BY <2>11, <3>1, TreeUnchanged, LeafIsDoneKeeps
  <2>12. CASE SearchEnds
    <3>1. UNCHANGED building /\ pc' # "dividing"
      BY <2>12 DEF SearchEnds
    <3> QED
      BY <2>12, <3>1, TreeUnchanged, SearchEndsKeeps
  <2>13. CASE SearchFails
    <3>1. UNCHANGED building /\ pc' # "dividing"
      BY <2>13 DEF SearchFails
    <3> QED
      BY <2>13, <3>1, TreeUnchanged, SearchFailsKeeps
  <2>14. CASE UNCHANGED vars
    <3>1. SearchInv'
      BY <2>14, SearchStutters
    <3>2. CASE pc # "dividing"
      BY <2>14, <3>1, <3>2, TreeUnchanged DEF vars
    <3>3. CASE pc = "dividing"
      BY <2>14, <3>1, <3>3, TreeStutters
    <3> QED
      BY <3>2, <3>3
  <2> QED
    BY <2>1, <2>2, <2>3, <2>4, <2>5, <2>6, <2>7, <2>8, <2>9, <2>10, <2>11, <2>12, <2>13,
       <2>14 DEF Next
<1> QED
  BY <1>1, <1>2, PTL DEF Spec

\* Every node of a finished tree is divided as its value says: nothing on the left
\* is above it, nothing on the right up to it, neither side is empty, and what the
\* building of the parts below re-orders does not undo it (kdtree.c:271-287,
\* 478-510).
THEOREM TreeIsDivided == Spec => []TreeDividesFeatures
<1>1. IInv => TreeDividesFeatures
  BY TreeInvMeans DEF IInv
<1> QED
  BY <1>1, IInvHolds, PTL

\* While it is built, every selection of a value recurses on fewer elements and
\* meets its pivot before it reads where that was (kdtree.c:396-409, 451-466).
THEOREM SelectionsAreSound == Spec => []SelectionIsSound
<1> DEFINE Idle == pc # "dividing" => calls = <<>>
<1>1. Init => Idle
  BY DEF Init
<1>2. Idle /\ [Next]_vars => Idle'
  <2> SUFFICES ASSUME Idle, [Next]_vars
               PROVE  Idle'
    OBVIOUS
  <2>1. CASE ExpandLeaf \/ AssignPartKey \/ FeatureTurn \/ Divide
    BY <2>1 DEF ExpandLeaf, AssignPartKey, FeatureTurn, Divide, selection
  <2>2. CASE SelectMedian
    BY <2>2 DEF SelectMedian
  <2>3. CASE SearchBegins \/ Extract \/ Descend \/ ReachLeaf \/ Examine \/ LeafIsDone
               \/ SearchEnds \/ SearchFails
    BY <2>3 DEF SearchBegins, Extract, Descend, ReachLeaf, Examine, LeafIsDone,
                SearchEnds, SearchFails, building, selection
  <2>4. CASE UNCHANGED vars
    BY <2>4 DEF vars, building, selection
  <2> QED
    BY <2>1, <2>2, <2>3, <2>4 DEF Next
<1>3. IInv /\ Idle => SelectionIsSound
  <2> SUFFICES ASSUME IInv, Idle
               PROVE  SelectionIsSound
    OBVIOUS
  <2>1. CASE pc = "dividing"
    BY <2>1, SelectInvMeans DEF IInv, TreeInv, Dividing, SelectionIsSound
  <2>2. CASE calls = <<>>
    <3>1. Len(calls) = 0
      BY <2>2
    <3> QED
      BY <2>2, <3>1 DEF SelectionIsSound, PivotIsFound, CallsShrink
  <2> QED
    BY <2>1, <2>2
<1> QED
  BY <1>1, <1>2, <1>3, IInvHolds, PTL DEF Spec

\* And the value is the lower median of the node's features in the dimension that
\* was chosen (kdtree.c:329-338, 351-468).
THEOREM TreeHasMedians == Spec => []MediansDivide
<1>1. IInv => MediansDivide
  BY TreeInvMeans DEF IInv
<1> QED
  BY <1>1, IInvHolds, PTL

\* A search misses no feature and examines none twice: each was examined, or is in
\* the node explored, or in one subtree of the queue (kdtree.c:110-142, 529-567).
THEOREM SearchMissesNothing == Spec => []SearchCoversTree
<1>1. IInv => SearchCoversTree
  <2> SUFFICES ASSUME IInv, Active  PROVE SearchCoversTree
    BY DEF SearchCoversTree, Active
  <2>1. /\ \A f \in 1..Len(features) : f \in examined \/ InQueue(f) \/ InHand(f)
        /\ \A f \in examined : ~InQueue(f) /\ ~InHand(f)
        /\ \A e, o \in min_pq : e # o => Entries(e.data) \intersect Entries(o.data) = {}
        /\ pc # "searching" =>
             \A e \in min_pq : Entries(e.data) \intersect Entries(expl) = {}
    BY DEF IInv, SearchInv, Covers
  <2>2. /\ \A e \in min_pq : e.data \in DOMAIN tree
        /\ \A m \in DOMAIN tree :
             /\ m.first \in Nat /\ m.n \in Nat \ {0}
             /\ Entries(m) \subseteq 1..Len(features)
    BY InSearch DEF IInv
  <2>3. examined \subseteq 1..Len(features)
    BY DEF IInv, SearchInv, NearestSoFar, Nearest, Distances
  <2>4. /\ pc \in {"descending", "at leaf"} => expl \in DOMAIN tree
        /\ pc = "at leaf" => i \in 0..expl.n
    BY DEF IInv, SearchInv, SearchTypeOK
  <2>11. pc = "at leaf" => expl.first \in Nat /\ expl.n \in Nat /\ i \in Nat
    <3>1. \A a \in Nat : \A b \in 0..a : b \in Nat
      OBVIOUS
    <3>2. pc = "at leaf" => expl.first \in Nat /\ expl.n \in Nat
      BY <2>2, <2>4
    <3> QED
      BY <2>4, <3>1, <3>2
  <2>5. \A f : f \in UNION {Entries(e.data) : e \in min_pq} <=> InQueue(f)
    BY DEF InQueue
  <2>6. \A f : f \in (CASE pc = "descending" -> Entries(expl)
                       [] pc = "at leaf" -> {expl.first + j : j \in i..(expl.n - 1)}
                       [] OTHER -> {}) <=> InHand(f)
    <3>1. CASE pc = "descending"
      BY <3>1 DEF InHand
    <3>2. CASE pc = "at leaf"
      <4>1. {expl.first + j : j \in i..(expl.n - 1)}
              = (expl.first + i)..(expl.first + expl.n - 1)
        <5>1. expl.first \in Nat /\ expl.n \in Nat /\ i \in Nat
          BY <3>2, <2>11
        <5>2. \A f \in (expl.first + i)..(expl.first + expl.n - 1) :
                 f - expl.first \in i..(expl.n - 1) /\ f = expl.first + (f - expl.first)
          BY <5>1
        <5>3. \A j \in i..(expl.n - 1) :
                 expl.first + j \in (expl.first + i)..(expl.first + expl.n - 1)
          BY <5>1
        <5> QED
          BY <5>2, <5>3
      <4> QED
        BY <3>2, <4>1 DEF InHand
    <3>3. CASE pc \notin {"descending", "at leaf"}
      BY <3>3 DEF InHand
    <3> QED
      BY <3>1, <3>2, <3>3
  <2>7. \A f : f \in Waiting <=> InQueue(f) \/ InHand(f)
    BY <2>5, <2>6, Zenon DEF Waiting
  <2>8. \A f : InQueue(f) \/ InHand(f) => f \in 1..Len(features)
    <3>1. \A f : InQueue(f) => f \in 1..Len(features)
      BY <2>2 DEF InQueue
    <3>2. \A f : InHand(f) => f \in Entries(expl) /\ pc \in {"descending", "at leaf"}
      <4> SUFFICES ASSUME NEW f, InHand(f)
                   PROVE  f \in Entries(expl) /\ pc \in {"descending", "at leaf"}
        OBVIOUS
      <4>1. CASE pc = "at leaf"
        <5>1. expl.first \in Nat /\ expl.n \in Nat /\ i \in Nat
          BY <2>11, <4>1
        <5>2. f \in (expl.first + i)..(expl.first + expl.n - 1)
          BY <4>1 DEF InHand
        <5>3. f \in expl.first..(expl.first + expl.n - 1)
          BY <5>1, <5>2
        <5> QED
          BY <4>1, <5>3 DEF Entries
      <4>2. CASE pc # "at leaf"
        BY <4>2 DEF InHand
      <4> QED
        BY <4>1, <4>2
    <3> QED
      BY <2>2, <2>4, <3>1, <3>2
  <2>9. examined \union Waiting = 1..Len(features)
    BY <2>1, <2>3, <2>7, <2>8
  <2>10. examined \intersect Waiting = {}
    BY <2>1, <2>7
  <2> QED
    BY <2>1, <2>9, <2>10 DEF SearchCoversTree
<1> QED
  BY <1>1, IInvHolds, PTL

\* What a search finds are the nearest of the features it examined, in order and
\* as many as asked for or as there are; of all features, if it was not cut off
\* (kdtree.c:93-169, 585-640).
THEOREM SearchFindsNearest == Spec => []NeighborsAreNearest
<1>1. IInv => NeighborsAreNearest
  <2> SUFFICES ASSUME IInv, pc = "found"  PROVE NeighborsAreNearest
    BY DEF NeighborsAreNearest
  <2> DEFINE seen == IF min_pq = {} THEN 1..Len(features) ELSE examined
             got == {nbrs[j] : j \in 1..Len(nbrs)}
             N == Len(features)
  <2>1. /\ feat \in Descriptor /\ k \in Nat \ {0} /\ features \in Seq(Descriptor)
        /\ N \in Nat
    BY DEF IInv, SearchInv, SearchTypeOK, TreeInv, TreeTypeOK
  <2>2. Nearest(nbrs, seen, Distances, k)
    BY DEF IInv, SearchInv, NearestAtEnd
  <2>3. /\ Distances \in [1..N -> Int]
        /\ \A f \in 1..N : Distances[f] = Distance(f)
    BY <2>1, DistancesAre
  <2> HIDE DEF seen
  <2>4. /\ nbrs \in Seq(1..N) /\ seen \subseteq 1..N /\ Len(nbrs) \in Nat
        /\ \A a, b \in 1..Len(nbrs) : a < b => Distances[nbrs[a]] <= Distances[nbrs[b]]
        /\ \A f \in seen \ ToSet(nbrs), g \in ToSet(nbrs) : Distances[g] <= Distances[f]
        /\ ToSet(nbrs) \subseteq seen
    BY <2>2, <2>3 DEF Nearest
  <2>5. got = ToSet(nbrs)
    BY <2>4, ToSetIs
  <2>6. /\ Cardinality(ToSet(nbrs)) = Len(nbrs)
        /\ Len(nbrs) = IF Cardinality(seen) < k THEN Cardinality(seen) ELSE k
    <3> HIDE DEF N
    <3> QED
      BY <2>1, <2>2, <2>3, NearestMany, Zenon
  <2>7. \A j \in 2..Len(nbrs) : Distance(nbrs[j - 1]) <= Distance(nbrs[j])
    <3> TAKE j \in 2..Len(nbrs)
    <3>1. j - 1 \in 1..Len(nbrs) /\ j \in 1..Len(nbrs) /\ j - 1 < j
      BY <2>4
    <3>2. nbrs[j - 1] \in 1..N /\ nbrs[j] \in 1..N
      BY <2>4, <3>1, ToSetIs
    <3> QED
      BY <2>3, <2>4, <3>1, <3>2
  <2>8. \A f \in seen \ got, g \in got : Distance(g) <= Distance(f)
    <3> HIDE DEF got
    <3> TAKE f \in seen \ got, g \in got
    <3>1. f \in 1..N /\ g \in 1..N
      BY <2>4, <2>5
    <3> QED
      BY <2>3, <2>4, <2>5, <3>1
  <2>9. Cardinality(got) = Len(nbrs)
    BY <2>5, <2>6
  <2> QED
    BY <2>6, <2>7, <2>8, <2>9, Zenon DEF NeighborsAreNearest, seen
<1> QED
  BY <1>1, IInvHolds, PTL

\* However a search ends, each feature has its own feature_data again
\* (kdtree.c:134, 145-150, 603-626).
THEOREM FeaturesAreRestored == Spec => []FeatureDataComesBack
<1>1. IInv => FeatureDataComesBack
  BY DEF IInv, SearchInv, BorrowedData, FeatureDataComesBack, Active
<1> QED
  BY <1>1, IInvHolds, PTL

=============================================================================
