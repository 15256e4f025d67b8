---------------------------- MODULE NumberFacts ----------------------------
(***************************************************************************)
(* Least and greatest members of sets of natural numbers, for the places   *)
(* where the code takes the first or the last of a sorted list, and ranks  *)
(* in a strict order, for the places where it takes the whole list.        *)
(***************************************************************************)
EXTENDS Integers, FiniteSets, FiniteSetTheorems, FunctionTheorems,
        WellFoundedInduction, TLAPS

\* A nonempty set of natural numbers has a least member.
LEMMA LeastNatural ==
  ASSUME NEW S \in SUBSET Nat, S # {}
  PROVE  \E m \in S : \A n \in S : m <= n
<1> DEFINE R == OpToRel(<, Nat)
<1>1. PICK m \in S : \A n \in S : <<n, m>> \notin R
  <2> HIDE DEF R
  <2>1. IsWellFoundedOn(R, Nat)
    BY NatLessThanWellFounded DEF R
  <2>2. QED
    BY <2>1, WFMin
<1>2. \A n \in S : ~(n < m)
  BY <1>1 DEF OpToRel
<1>3. QED
  BY <1>2

\* What holds of 0, and of a number if it holds of the one before it, holds of n.
LEMMA CountingUp ==
  ASSUME NEW n \in Nat, NEW G, 0 \in G,
         \A k \in 1 .. n : k - 1 \in G => k \in G
  PROVE  n \in G
<1> SUFFICES ASSUME n \notin G PROVE FALSE
  OBVIOUS
<1>1. PICK B : B = {k \in 0 .. n : k \notin G}
  OBVIOUS
<1>2. B \in SUBSET Nat /\ B # {}
  BY <1>1
<1>3. PICK k \in B : \A j \in B : k <= j
  BY <1>2, LeastNatural
<1>4. k \in 0 .. n /\ k \notin G
  BY <1>1
<1>5. k \in 1 .. n /\ k - 1 \in 0 .. n /\ ~(k <= k - 1)
  BY <1>4
<1>6. k - 1 \in G
  BY <1>1, <1>3, <1>5
<1>7. QED
  BY <1>4, <1>5, <1>6

\* A nonempty set of natural numbers with a bound has a greatest member.
LEMMA GreatestNatural ==
  ASSUME NEW S \in SUBSET Nat, S # {},
         NEW b \in Nat, \A n \in S : n <= b
  PROVE  \E m \in S : \A n \in S : n <= m
<1> DEFINE Bounds == {k \in Nat : \A n \in S : n <= k}
<1>1. PICK m \in Bounds : \A k \in Bounds : m <= k
  BY LeastNatural
<1>2. ASSUME m \notin S PROVE FALSE
  <2>1. \A n \in S : n <= m /\ n # m
    BY <1>2
  <2>2. m # 0
    <3>1. PICK n \in S : TRUE
      OBVIOUS
    <3>2. n \in Nat /\ n <= m /\ n # m
      BY <2>1
    <3>3. QED
      BY <3>2
  <2>3. m \in Nat /\ m - 1 \in Nat
    BY <2>2
  <2>4. \A n \in S : n <= m - 1
    BY <2>1, <2>3
  <2>5. m - 1 \in Bounds
    BY <2>3, <2>4
  <2>6. QED
    BY <1>1, <2>3, <2>5
<1>3. QED
  BY <1>1, <1>2

\* The values of a function on 1..n have a bound.
LEMMA ValuesBounded ==
  ASSUME NEW n \in Nat, NEW f, \A i \in 1..n : f[i] \in Nat
  PROVE  \E b \in Nat : \A i \in 1..n : f[i] <= b
<1> DEFINE Bounded(k) == \E b \in Nat : \A i \in 1..k : f[i] <= b
           Bad == {k \in 0..n : ~Bounded(k)}
<1> SUFFICES ASSUME ~Bounded(n) PROVE FALSE
  OBVIOUS
<1>1. Bad \in SUBSET Nat /\ Bad # {}
  <2>1. n \in Bad
    OBVIOUS
  <2>2. QED
    BY <2>1
<1>2. PICK k \in Bad : \A j \in Bad : k <= j
  <2> HIDE DEF Bad
  <2>1. QED
    BY <1>1, LeastNatural
<1>3. k \in 0..n /\ ~Bounded(k)
  OBVIOUS
<1>4. k # 0
  <2>1. \A i \in 1..0 : f[i] <= 0
    OBVIOUS
  <2>2. QED
    BY <1>3, <2>1
<1>5. k - 1 \in 0..n /\ ~(k <= k - 1)
  BY <1>3, <1>4
<1>6. PICK b \in Nat : \A i \in 1..(k - 1) : f[i] <= b
  <2>1. k - 1 \notin Bad
    BY <1>2, <1>5
  <2>2. QED
    BY <1>5, <2>1
<1>7. f[k] \in Nat
  BY <1>3, <1>4
<1>8. \A i \in 1..k : f[i] <= b + f[k]
  <2> SUFFICES ASSUME NEW i \in 1..k PROVE f[i] <= b + f[k]
    OBVIOUS
  <2>1. CASE i = k
    BY <1>7, <2>1
  <2>2. CASE i # k
    <3>1. i \in 1..(k - 1) /\ f[i] \in Nat
      BY <1>3, <2>2
    <3>2. QED
      BY <1>6, <1>7, <3>1
  <2>3. QED
    BY <2>1, <2>2
<1>9. b + f[k] \in Nat
  BY <1>7
<1>10. QED
  BY <1>3, <1>8, <1>9

\* The values that numbers give to the members of a finite set have a bound,
\* and one of the members has the greatest of them.
LEMMA GreatestOfFinite ==
  ASSUME NEW S, IsFiniteSet(S), S # {}, NEW g, \A x \in S : g[x] \in Nat
  PROVE  \E m \in S : \A x \in S : g[x] <= g[m]
<1>0. PICK n \in Nat : ExistsSurjection(1..n, S)
  BY FS_NatSurjection
<1>1. PICK f \in Surjection(1..n, S) :
         f \in [1..n -> S] /\ \A x \in S : \E i \in 1..n : f[i] = x
  BY <1>0, Fun_SurjectionProperties DEF ExistsSurjection
<1> DEFINE h == [i \in 1..n |-> g[f[i]]]
           V == {g[x] : x \in S}
<1>2. PICK b \in Nat : \A i \in 1..n : h[i] <= b
  <2>1. \A i \in 1..n : h[i] \in Nat
    BY <1>1
  <2> HIDE DEF h
  <2>2. QED
    BY <2>1, ValuesBounded
<1>3. \A x \in S : g[x] <= b
  BY <1>1, <1>2
<1>4. V \in SUBSET Nat /\ V # {} /\ \A v \in V : v <= b
  BY <1>3
<1>5. PICK v \in V : \A w \in V : w <= v
  <2> HIDE DEF V
  <2>1. QED
    BY <1>4, GreatestNatural
<1>6. QED
  BY <1>5

\* The same for the least of them, in any set.
LEMMA LeastOfAny ==
  ASSUME NEW S, S # {}, NEW g, \A x \in S : g[x] \in Nat
  PROVE  \E m \in S : \A x \in S : g[m] <= g[x]
<1> DEFINE V == {g[x] : x \in S}
<1>1. V \in SUBSET Nat /\ V # {}
  OBVIOUS
<1>2. PICK v \in V : \A w \in V : v <= w
  <2> HIDE DEF V
  <2>1. QED
    BY <1>1, LeastNatural
<1>3. QED
  BY <1>2

\* L, a set of pairs, puts the members of S in a row; the rank of one is the number of
\* those before it.
StrictOrder(S, L) ==
    /\ \A i \in S : <<i, i>> \notin L
    /\ \A i, j, k \in S : <<i, j>> \in L /\ <<j, k>> \in L => <<i, k>> \in L
    /\ \A i, j \in S : i # j => <<i, j>> \in L \/ <<j, i>> \in L

RankIn(S, L, i) == Cardinality({j \in S : <<j, i>> \in L})

\* The ranks of n members are 0 to n - 1, each taken by one of them, in their order.
RanksInOrder(S, L, n) ==
    /\ \A i \in S : RankIn(S, L, i) \in 0 .. (n - 1)
    /\ \A i, j \in S : RankIn(S, L, i) < RankIn(S, L, j) <=> <<i, j>> \in L
    /\ \A i, j \in S : RankIn(S, L, i) = RankIn(S, L, j) => i = j
    /\ \A k \in 1 .. n : \E i \in S : RankIn(S, L, i) = k - 1

LEMMA RanksFill ==
  ASSUME NEW S, IsFiniteSet(S), NEW L, StrictOrder(S, L)
  PROVE  RanksInOrder(S, L, Cardinality(S))
<1> DEFINE before(i) == {j \in S : <<j, i>> \in L}
           rank(i) == RankIn(S, L, i)
           n == Cardinality(S)
           f == [i \in S |-> rank(i)]
<1>1. n \in Nat
  BY FS_CardinalityType
<1>2. \A i, j : j \in before(i) <=> j \in S /\ <<j, i>> \in L
  OBVIOUS
<1> \A i \in S : <<i, i>> \notin L
  BY DEF StrictOrder
<1> \A i, j, k \in S : <<i, j>> \in L /\ <<j, k>> \in L => <<i, k>> \in L
  BY DEF StrictOrder
<1> \A i, j \in S : i # j => <<i, j>> \in L \/ <<j, i>> \in L
  BY DEF StrictOrder
<1> \A i : rank(i) = Cardinality(before(i))
  BY DEF RankIn
<1> HIDE DEF before, rank
<1>3. ASSUME NEW i \in S
      PROVE  IsFiniteSet(before(i)) /\ rank(i) \in Nat /\ rank(i) < n
  <2>1. before(i) \in SUBSET S /\ i \notin before(i)
    BY <1>2
  <2>2. IsFiniteSet(before(i)) /\ rank(i) <= n /\ rank(i) # n
    BY <2>1, FS_Subset
  <2>3. QED
    BY <1>1, <2>2, FS_CardinalityType
<1>4. ASSUME NEW i \in S, NEW j \in S, <<i, j>> \in L PROVE rank(i) < rank(j)
  <2>1. before(i) \in SUBSET before(j)
    BY <1>2, <1>4
  <2>2. i \in before(j) /\ i \notin before(i)
    BY <1>2, <1>4
  <2>3. IsFiniteSet(before(j))
    BY <1>3
  <2>4. rank(i) <= rank(j) /\ rank(i) # rank(j)
    BY <2>1, <2>2, <2>3, FS_Subset
  <2>5. rank(i) \in Nat /\ rank(j) \in Nat
    BY <1>3
  <2>6. QED
    BY <2>4, <2>5
<1>5. ASSUME NEW i \in S, NEW j \in S, rank(i) = rank(j) PROVE i = j
  <2>1. rank(i) \in Nat /\ ~(rank(i) < rank(j)) /\ ~(rank(j) < rank(i))
    BY <1>3, <1>5
  <2>2. QED
    BY <1>4, <2>1
<1>6. ASSUME NEW i \in S, NEW j \in S, rank(i) < rank(j) PROVE <<i, j>> \in L
  <2>1. rank(i) \in Nat /\ rank(j) \in Nat
    BY <1>3
  <2>2. i # j /\ ~(rank(j) < rank(i))
    BY <1>6, <2>1
  <2>3. QED
    BY <1>4, <2>2
<1> HIDE DEF n
<1>7. f \in Injection(S, 0 .. (n - 1))
  <2>1. f \in [S -> 0 .. (n - 1)]
    BY <1>1, <1>3
  <2>2. \A i, j \in S : f[i] = f[j] => i = j
    BY <1>5
  <2> HIDE DEF f
  <2>3. QED
    BY <2>1, <2>2, Fun_IsInj
<1>8. IsFiniteSet(0 .. (n - 1)) /\ Cardinality(0 .. (n - 1)) = n
  <2>1. 0 \in Int /\ n - 1 \in Int
    BY <1>1
  <2>2. QED
    BY <1>1, <2>1, FS_Interval
<1>9. f \in Surjection(S, 0 .. (n - 1))
  <2> HIDE DEF f
  <2>1. Cardinality(S) = Cardinality(0 .. (n - 1))
    BY <1>8 DEF n
  <2>2. QED
    BY <1>7, <1>8, <2>1, FS_Injection
<1>10. ASSUME NEW k \in 1 .. n PROVE \E i \in S : rank(i) = k - 1
  <2>1. k - 1 \in 0 .. (n - 1)
    BY <1>1
  <2>2. PICK i \in S : f[i] = k - 1
    BY <1>9, <2>1 DEF Surjection
  <2>3. QED
    BY <2>2
<1>11. \A i \in S : rank(i) \in 0 .. (n - 1)
  BY <1>1, <1>3
<1>12. QED
  BY <1>3, <1>4, <1>5, <1>6, <1>10, <1>11 DEF rank, n, RanksInOrder
=============================================================================
