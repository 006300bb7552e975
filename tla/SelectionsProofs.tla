-------------------------- MODULE SelectionsProofs --------------------------
(***************************************************************************)
(* What Selections computes, for every finite set of numbers and every     *)
(* list: ranks number the elements of a set, so that picking keeps each    *)
(* chosen position once and in order.                                      *)
(***************************************************************************)
EXTENDS Selections, FiniteSetTheorems, FunctionTheorems, SequenceTheorems, TLAPS

\* What the lemmas are about.
FiniteNumbers(K) == K \subseteq Nat /\ IsFiniteSet(K)

\* The rank of an element lies between 1 and the size of the set.
LEMMA RankBounds ==
    ASSUME NEW K, FiniteNumbers(K), NEW i \in K
    PROVE  Rank(K, i) \in 1 .. Cardinality(K)
<1> DEFINE U == {j \in K : j <= i}
<1>1. IsFiniteSet(U) /\ Cardinality(U) <= Cardinality(K) /\ IsFiniteSet(K)
  BY FS_Subset DEF FiniteNumbers
<1>2. Cardinality(U) \in Nat /\ Cardinality(K) \in Nat
  BY <1>1, FS_CardinalityType
<1>3. i \in U
  BY DEF FiniteNumbers
<1>4. Cardinality(U) # 0
  BY <1>1, <1>3, FS_EmptySet
<1> QED
  BY <1>1, <1>2, <1>4 DEF Rank

\* A greater element has a greater rank.
LEMMA RankGrows ==
    ASSUME NEW K, FiniteNumbers(K), NEW i \in K, NEW j \in K, i < j
    PROVE  Rank(K, i) < Rank(K, j)
<1> DEFINE U == {n \in K : n <= i}
           V == {n \in K : n <= j}
<1>1. IsFiniteSet(K) /\ K \subseteq Nat
  BY DEF FiniteNumbers
<1>2. IsFiniteSet(V)
  BY <1>1, FS_Subset
<1>3. U \in SUBSET V
  <2>1. i \in Nat /\ j \in Nat /\ \A n \in U : n \in K /\ n \in Nat /\ n <= i
    BY <1>1
  <2>2. \A n \in U : n <= j
    BY <2>1
  <2> QED
    BY <2>1, <2>2
<1>4. j \in V /\ j \notin U
  BY <1>1
<1>5. Cardinality(U) <= Cardinality(V) /\ Cardinality(U) # Cardinality(V) /\ IsFiniteSet(U)
  BY <1>2, <1>3, <1>4, FS_Subset
<1>6. Cardinality(U) \in Nat /\ Cardinality(V) \in Nat
  BY <1>2, <1>5, FS_CardinalityType
<1> QED
  BY <1>5, <1>6 DEF Rank

\* Every number from 1 to the size of the set is the rank of an element.
LEMMA RankOnto ==
    ASSUME NEW K, FiniteNumbers(K), NEW k \in 1 .. Cardinality(K)
    PROVE  \E i \in K : Rank(K, i) = k
<1> DEFINE C == Cardinality(K)
           f == [i \in K |-> Rank(K, i)]
<1>1. IsFiniteSet(K) /\ K \subseteq Nat /\ C \in Nat
  BY FS_CardinalityType DEF FiniteNumbers
<1>2. f \in [K -> 1 .. C]
  BY RankBounds
<1>3. ASSUME NEW i \in K, NEW j \in K, f[i] = f[j] PROVE i = j
  <2>1. i \in Nat /\ j \in Nat /\ Rank(K, i) \in 1 .. C /\ Rank(K, j) \in 1 .. C
    BY <1>1, RankBounds
  <2>2. Rank(K, i) = Rank(K, j)
    BY <1>3
  <2>3. ~(i < j) /\ ~(j < i)
    BY <2>1, <2>2, RankGrows
  <2> QED
    BY <2>1, <2>3
<1>4. f \in Injection(K, 1 .. C)
  BY <1>2, <1>3, Fun_IsInj
<1>5. IsFiniteSet(1 .. C) /\ Cardinality(1 .. C) = C
  BY <1>1, FS_Interval
<1>6. f \in Surjection(K, 1 .. C)
  BY <1>4, <1>5, FS_Injection
<1>7. \E i \in K : f[i] = k
  BY <1>6 DEF Surjection
<1> QED
  BY <1>7

\* The k-th element is in the set and has rank k.
LEMMA NthRank ==
    ASSUME NEW K, FiniteNumbers(K), NEW k \in 1 .. Cardinality(K)
    PROVE  Nth(K, k) \in K /\ Rank(K, Nth(K, k)) = k
  BY RankOnto DEF Nth

\* Each element is the one of its rank.
LEMMA RankNth ==
    ASSUME NEW K, FiniteNumbers(K), NEW i \in K
    PROVE  Nth(K, Rank(K, i)) = i
<1>1. Rank(K, i) \in 1 .. Cardinality(K) /\ Cardinality(K) \in Nat /\ i \in Nat
  BY RankBounds, FS_CardinalityType DEF FiniteNumbers
<1> DEFINE j == Nth(K, Rank(K, i))
<1>2. j \in K /\ Rank(K, j) = Rank(K, i) /\ j \in Nat
  BY <1>1, NthRank DEF FiniteNumbers
<1>3. ~(i < j) /\ ~(j < i)
  BY <1>1, <1>2, RankGrows
<1> QED
  BY <1>1, <1>2, <1>3

\* The elements come in ascending order.
LEMMA NthGrows ==
    ASSUME NEW K, FiniteNumbers(K), NEW k \in 1 .. Cardinality(K), NEW m \in 1 .. Cardinality(K),
           k < m
    PROVE  Nth(K, k) < Nth(K, m)
<1>1. /\ Nth(K, k) \in K /\ Rank(K, Nth(K, k)) = k /\ Nth(K, k) \in Nat
      /\ Nth(K, m) \in K /\ Rank(K, Nth(K, m)) = m /\ Nth(K, m) \in Nat
  BY NthRank DEF FiniteNumbers
<1>2. Nth(K, k) # Nth(K, m)
  BY <1>1
<1>3. ~(Nth(K, m) < Nth(K, k))
  BY <1>1, RankGrows
<1> QED
  BY <1>1, <1>2, <1>3

\* A finite set of numbers has a greatest element.
LEMMA Greatest ==
    ASSUME NEW K, FiniteNumbers(K), K # {}
    PROVE  \E m \in K : \A i \in K : i <= m
<1> DEFINE C == Cardinality(K)
           m == Nth(K, C)
<1>1. C \in Nat /\ C # 0 /\ K \subseteq Nat
  BY FS_CardinalityType, FS_EmptySet DEF FiniteNumbers
<1>2. m \in K /\ Rank(K, m) = C
  BY <1>1, NthRank
<1> HIDE DEF m
<1>3. ASSUME NEW i \in K PROVE i <= m
  <2>1. i \in Nat /\ m \in Nat /\ Rank(K, i) \in 1 .. C
    BY <1>1, <1>2, RankBounds
  <2>2. ~(m < i)
    BY <1>1, <1>2, <2>1, RankGrows
  <2> QED
    BY <2>1, <2>2
<1> QED
  BY <1>2, <1>3

\* The positions of a list are a finite set of numbers, and so is every part of it.
LEMMA Positions ==
    ASSUME NEW s, NEW S, s \in Seq(S), NEW K \in SUBSET DOMAIN s
    PROVE  FiniteNumbers(K) /\ K \subseteq 1 .. Len(s) /\ Cardinality(K) \in 0 .. Len(s)
<1>1. DOMAIN s = 1 .. Len(s) /\ Len(s) \in Nat
  OBVIOUS
<1> DEFINE n == Len(s)
<1>2. IsFiniteSet(1 .. n) /\ Cardinality(1 .. n) = n
  <2>1. n \in Nat
    BY <1>1
  <2> HIDE DEF n
  <2>2. 1 \in Int /\ n \in Int
    BY <2>1
  <2> QED
    BY <2>1, <2>2, FS_Interval
<1>3. IsFiniteSet(K) /\ Cardinality(K) <= Len(s)
  BY <1>1, <1>2, FS_Subset
<1>4. Cardinality(K) \in Nat
  BY <1>3, FS_CardinalityType
<1> QED
  BY <1>1, <1>3, <1>4 DEF FiniteNumbers

\* Picking positions of a list of S gives a list of S, with one element per position.
LEMMA PickType ==
    ASSUME NEW S, NEW s \in Seq(S), NEW K \in SUBSET DOMAIN s
    PROVE  /\ Pick(s, K) \in Seq(S) /\ Len(Pick(s, K)) = Cardinality(K)
           /\ DOMAIN Pick(s, K) = 1 .. Cardinality(K)
           /\ \A k \in 1 .. Cardinality(K) : Nth(K, k) \in K /\ Pick(s, K)[k] = s[Nth(K, k)]
<1>1. FiniteNumbers(K) /\ K \subseteq 1 .. Len(s) /\ Cardinality(K) \in Nat /\ Len(s) \in Nat
  BY Positions
<1>2. \A k \in 1 .. Cardinality(K) : Nth(K, k) \in K
  BY <1>1, NthRank
<1>3. \A k \in 1 .. Cardinality(K) : s[Nth(K, k)] \in S
  BY <1>1, <1>2
<1> QED
  BY <1>1, <1>2, <1>3 DEF Pick

\* A part of the chosen positions is found again, as large, in what was picked.
LEMMA PickCount ==
    ASSUME NEW S, NEW s \in Seq(S), NEW K \in SUBSET DOMAIN s, NEW T \in SUBSET K
    PROVE  /\ Cardinality({k \in 1 .. Cardinality(K) : Nth(K, k) \in T}) = Cardinality(T)
           /\ IsFiniteSet(T)
<1> DEFINE C == Cardinality(K)
           R == {k \in 1 .. C : Nth(K, k) \in T}
           f == [i \in T |-> Rank(K, i)]
<1>1. FiniteNumbers(K) /\ C \in Nat
  BY Positions
<1>2. IsFiniteSet(T)
  BY <1>1, FS_Subset DEF FiniteNumbers
<1>3. \A i \in T : Rank(K, i) \in 1 .. C /\ Nth(K, Rank(K, i)) = i
  BY <1>1, RankBounds, RankNth
<1>4. f \in [T -> R]
  BY <1>3
<1>5. \A i, j \in T : f[i] = f[j] => i = j
  BY <1>3
<1>6. \A k \in R : Nth(K, k) \in T /\ f[Nth(K, k)] = k
  BY <1>1, NthRank
<1>7. f \in Bijection(T, R)
  BY <1>4, <1>5, <1>6 DEF Bijection, Injection, Surjection, IsInjective
<1>8. ExistsBijection(T, R)
  BY <1>7 DEF ExistsBijection
<1> QED
  BY <1>2, <1>8, FS_Bijection

\* The elements of a set in order are a list of them.
LEMMA AscendingType ==
    ASSUME NEW K, FiniteNumbers(K)
    PROVE  /\ Ascending(K) \in Seq(K) /\ Len(Ascending(K)) = Cardinality(K)
           /\ DOMAIN Ascending(K) = 1 .. Cardinality(K)
           /\ \A k \in 1 .. Cardinality(K) : Ascending(K)[k] = Nth(K, k) /\ Nth(K, k) \in K
<1>1. Cardinality(K) \in Nat
  BY FS_CardinalityType DEF FiniteNumbers
<1>2. \A k \in 1 .. Cardinality(K) : Nth(K, k) \in K
  BY NthRank
<1> QED
  BY <1>1, <1>2 DEF Ascending

\* Removing the first of an element leaves a list of what was there.
LEMMA WithoutFirstType ==
    ASSUME NEW S, NEW s \in Seq(S), NEW e
    PROVE  WithoutFirst(s, e) \in Seq(S)
<1> DEFINE K == {i \in DOMAIN s : s[i] = e => \E j \in 1 .. i - 1 : s[j] = e}
<1>1. K \in SUBSET DOMAIN s
  OBVIOUS
<1>2. WithoutFirst(s, e) = Pick(s, K)
  BY DEF WithoutFirst
<1> HIDE DEF K
<1> QED
  BY <1>1, <1>2, PickType
=============================================================================
