--------------------------- MODULE CountingLemmas ---------------------------
(***************************************************************************)
(* Facts about finite sets, sums and loops that the proofs of the other    *)
(* modules share: the least and the greatest number of a set, the ranks of *)
(* a finite order (a stable sort), sums over finite sets and how they      *)
(* split, map and regroup, and functions that are defined by a loop.       *)
(* Induction is over the set of the numbers, or of the subsets, that have  *)
(* the property.                                                           *)
(***************************************************************************)
EXTENDS Integers, Sequences, FiniteSets, FiniteSetsExt, Functions,
        FiniteSetTheorems, WellFoundedInduction, TLAPS

-----------------------------------------------------------------------------
(* The least and the greatest element of a set of numbers *)

\* A non-empty set of natural numbers has a least element.
LEMMA LeastExists ==
    ASSUME NEW S \in SUBSET Nat, S # {}
    PROVE  \E n \in S : \A m \in S : n <= m
<1>1. PICK n \in S : \A m \in S : ~ (<<m, n>> \in OpToRel(<, Nat))
  BY WFMin, NatLessThanWellFounded
<1>2. \A m \in S : ~ (m < n)
  BY <1>1 DEF OpToRel
<1> QED
  BY <1>2

LEMMA MinIsLeast ==
    ASSUME NEW S \in SUBSET Nat, S # {}
    PROVE  Min(S) \in S /\ \A m \in S : Min(S) <= m
  BY LeastExists DEF Min

\* So has a finite one a greatest: a smallest counterexample loses an element.
LEMMA GreatestExists ==
    ASSUME NEW S \in SUBSET Nat, S # {}, IsFiniteSet(S)
    PROVE  \E n \in S : \A m \in S : n >= m
<1> DEFINE Unbounded(T) == /\ T # {} /\ IsFiniteSet(T)
                           /\ ~ \E n \in T : \A m \in T : n >= m
           Bad == {k \in Nat : \E T \in SUBSET Nat : Unbounded(T) /\ Cardinality(T) = k}
<1>1. SUFFICES ASSUME Unbounded(S) PROVE FALSE
  OBVIOUS
<1>2. Cardinality(S) \in Bad
  BY <1>1, FS_CardinalityType
<1>3. Bad \in SUBSET Nat /\ Bad # {}
  BY <1>2
<1> HIDE DEF Bad
<1>4. PICK k \in Bad : \A l \in Bad : k <= l
  BY <1>3, LeastExists
<1>5. PICK T \in SUBSET Nat : Unbounded(T) /\ Cardinality(T) = k
  BY <1>4 DEF Bad
<1>6. PICK t \in T : TRUE
  BY <1>5
<1> DEFINE U == T \ {t}
<1>7. IsFiniteSet(U) /\ Cardinality(U) = k - 1 /\ k \in Nat
  BY <1>5, <1>6, <1>3, <1>4, FS_RemoveElement
<1>8. PICK m \in T : m > t
  BY <1>5, <1>6
<1>9. U # {} /\ U \in SUBSET Nat
  BY <1>5, <1>6, <1>8
<1>10. k - 1 \notin Bad
  BY <1>4, <1>7, <1>3
<1>11. k - 1 \in Nat
  BY <1>7, FS_CardinalityType
<1>12. ~ Unbounded(U)
  BY <1>7, <1>9, <1>10, <1>11 DEF Bad
<1>13. PICK n \in U : \A l \in U : n >= l
  BY <1>7, <1>9, <1>12
<1>14. n >= m /\ n >= t
  BY <1>8, <1>9, <1>13, <1>6
<1>15. \A l \in T : n >= l
  BY <1>13, <1>14
<1> QED
  BY <1>5, <1>13, <1>15

LEMMA MaxIsGreatest ==
    ASSUME NEW S \in SUBSET Nat, S # {}, IsFiniteSet(S)
    PROVE  Max(S) \in S /\ \A m \in S : Max(S) >= m
  BY GreatestExists DEF Max

-----------------------------------------------------------------------------
(* The positions of a sort *)

\* L is a strict total order of the elements of R, given as a set of pairs.
IsOrder(R, L) ==
    /\ \A r \in R : <<r, r>> \notin L
    /\ \A r, s \in R : r # s => <<r, s>> \in L \/ <<s, r>> \in L
    /\ \A r, s, t \in R : <<r, s>> \in L /\ <<s, t>> \in L => <<r, t>> \in L

\* The number of elements before one: its position in the sorted list, from 0.
RankIn(R, L, r) == Cardinality({s \in R : <<s, r>> \in L})

LEMMA RankInType ==
    ASSUME NEW R, IsFiniteSet(R), NEW L, IsOrder(R, L), NEW r \in R
    PROVE  RankIn(R, L, r) \in 0 .. Cardinality(R) - 1
<1> DEFINE P == {s \in R : <<s, r>> \in L}
<1>1. P \in SUBSET (R \ {r})
  BY DEF IsOrder
<1>2. Cardinality(R) \in Nat
  BY FS_CardinalityType
<1>3. IsFiniteSet(R \ {r}) /\ Cardinality(R \ {r}) = Cardinality(R) - 1
  BY FS_RemoveElement
<1>4. Cardinality(P) \in Nat /\ Cardinality(P) <= Cardinality(R \ {r})
  BY <1>1, <1>3, FS_Subset, FS_CardinalityType
<1> QED
  BY <1>2, <1>3, <1>4 DEF RankIn

LEMMA RankInGrows ==
    ASSUME NEW R, IsFiniteSet(R), NEW L, IsOrder(R, L), NEW r \in R, NEW t \in R, <<r, t>> \in L
    PROVE  RankIn(R, L, r) < RankIn(R, L, t)
<1> DEFINE P == {s \in R : <<s, r>> \in L}
           Q == {s \in R : <<s, t>> \in L}
<1>1. P \in SUBSET Q /\ r \in Q /\ r \notin P
  BY DEF IsOrder
<1>2. IsFiniteSet(Q)
  BY FS_Subset
<1>3. Cardinality(P) \in Nat /\ Cardinality(Q) \in Nat /\ Cardinality(P) <= Cardinality(Q) /\ Cardinality(P) # Cardinality(Q)
  BY <1>1, <1>2, FS_Subset, FS_CardinalityType
<1> QED
  BY <1>3 DEF RankIn

LEMMA RankInUnique ==
    ASSUME NEW R, IsFiniteSet(R), NEW L, IsOrder(R, L), NEW r \in R, NEW t \in R,
           RankIn(R, L, r) = RankIn(R, L, t)
    PROVE  r = t
<1> SUFFICES ASSUME r # t PROVE FALSE
  OBVIOUS
<1>1. <<r, t>> \in L \/ <<t, r>> \in L
  BY DEF IsOrder
<1>2. RankIn(R, L, r) \in Int /\ RankIn(R, L, t) \in Int
  BY RankInType
<1>3. RankIn(R, L, r) < RankIn(R, L, t) \/ RankIn(R, L, t) < RankIn(R, L, r)
  BY <1>1, RankInGrows
<1> QED
  BY <1>2, <1>3

\* Every number below the cardinality is the rank of an element.
LEMMA RankInExists ==
    ASSUME NEW R, IsFiniteSet(R), NEW L, IsOrder(R, L), NEW k \in 0 .. Cardinality(R) - 1
    PROVE  \E r \in R : RankIn(R, L, r) = k
<1> DEFINE f == [r \in R |-> RankIn(R, L, r)]
           K == 0 .. Cardinality(R) - 1
<1>1. Cardinality(R) \in Nat
  BY FS_CardinalityType
<1>2. IsFiniteSet(K) /\ Cardinality(K) = Cardinality(R)
  <2>1. 0 \in Int /\ Cardinality(R) - 1 \in Int
    BY <1>1
  <2>2. IsFiniteSet(K) /\ Cardinality(K) = IF 0 > Cardinality(R) - 1 THEN 0 ELSE (Cardinality(R) - 1) - 0 + 1
    BY <2>1, FS_Interval
  <2> QED
    BY <1>1, <2>2
<1>3. f \in [R -> K]
  BY RankInType
<1>4. \A r, t \in R : f[r] = f[t] => r = t
  BY RankInUnique
<1>5. f \in Injection(R, K)
  BY <1>3, <1>4 DEF Injection, IsInjective
<1>6. f \in Surjection(R, K)
  BY <1>2, <1>5, FS_Injection
<1> QED
  BY <1>6 DEF Surjection

\* A list that takes for each position an element of that rank, if there is one,
\* has every element of R once, and in the order of L.
LEMMA SortIs ==
    ASSUME NEW R, IsFiniteSet(R), NEW L, IsOrder(R, L), NEW at,
           \A k \in 1 .. Cardinality(R) :
               (\E r \in R : RankIn(R, L, r) = k - 1) => at[k] \in R /\ RankIn(R, L, at[k]) = k - 1
    PROVE  /\ Cardinality(R) \in Nat
           /\ \A k \in 1 .. Cardinality(R) : at[k] \in R
           /\ \A r \in R : \E k \in 1 .. Cardinality(R) : at[k] = r
           /\ \A k, l \in 1 .. Cardinality(R) : k < l => <<at[k], at[l]>> \in L
<1> DEFINE n == Cardinality(R)
<1>1. n \in Nat
  BY FS_CardinalityType
<1>2. ASSUME NEW k \in 1 .. n PROVE at[k] \in R /\ RankIn(R, L, at[k]) = k - 1
  <2>1. k - 1 \in 0 .. n - 1
    BY <1>1
  <2>2. \E r \in R : RankIn(R, L, r) = k - 1
    BY <2>1, RankInExists
  <2> QED
    BY <2>2
<1>3. ASSUME NEW r \in R PROVE \E k \in 1 .. n : at[k] = r
  <2>1. RankIn(R, L, r) \in 0 .. n - 1
    BY RankInType
  <2>2. PICK k \in 1 .. n : k - 1 = RankIn(R, L, r)
    <3>1. RankIn(R, L, r) + 1 \in 1 .. n /\ (RankIn(R, L, r) + 1) - 1 = RankIn(R, L, r)
      BY <1>1, <2>1
    <3> QED
      BY <3>1
  <2>3. at[k] \in R /\ RankIn(R, L, at[k]) = RankIn(R, L, r)
    BY <1>2, <2>2
  <2> QED
    BY <2>3, RankInUnique
<1>4. ASSUME NEW k \in 1 .. n, NEW l \in 1 .. n, k < l PROVE <<at[k], at[l]>> \in L
  <2>1. at[k] \in R /\ at[l] \in R /\ RankIn(R, L, at[k]) = k - 1 /\ RankIn(R, L, at[l]) = l - 1
    BY <1>2
  <2>2. k - 1 # l - 1 /\ ~ (l - 1 < k - 1)
    BY <1>1, <1>4
  <2>3. at[k] # at[l]
    BY <2>1, <2>2
  <2>4. ~ (<<at[l], at[k]>> \in L)
    BY <2>1, <2>2, RankInGrows
  <2> QED
    BY <2>1, <2>3, <2>4 DEF IsOrder
<1> QED
  BY <1>1, <1>2, <1>3, <1>4
-----------------------------------------------------------------------------
(* Induction, with the set of the good cases in the place of a predicate *)

LEMMA UpwardsFromZero ==
    ASSUME NEW G \in SUBSET Nat, 0 \in G, \A n \in G : n + 1 \in G
    PROVE  G = Nat
<1> SUFFICES ASSUME Nat \ G # {} PROVE FALSE
  OBVIOUS
<1>1. PICK n \in Nat \ G : \A m \in Nat \ G : n <= m
  BY LeastExists
<1>2. n # 0 /\ n - 1 \in Nat
  BY <1>1
<1>3. n - 1 \in G
  BY <1>1, <1>2
<1>4. (n - 1) + 1 \in G
  BY <1>3
<1> QED
  BY <1>1, <1>4

\* What holds of the empty set, and of a set when it holds with an element less,
\* holds of a finite set.
LEMMA OneMoreElement ==
    ASSUME NEW S, IsFiniteSet(S), NEW G \in SUBSET (SUBSET S), {} \in G,
           \A T \in SUBSET S : (\E x \in T : T \ {x} \in G) => T \in G
    PROVE  S \in G
<1> DEFINE N == {n \in Nat : \A T \in SUBSET S : Cardinality(T) = n => T \in G}
<1>1. \A T \in SUBSET S : IsFiniteSet(T) /\ Cardinality(T) \in Nat
  BY FS_Subset, FS_CardinalityType
<1>2. 0 \in N
  <2>1. \A T \in SUBSET S : Cardinality(T) = 0 => T = {}
    BY <1>1, FS_EmptySet
  <2> QED
    BY <2>1
<1>3. ASSUME NEW n \in N PROVE n + 1 \in N
  <2>1. ASSUME NEW T \in SUBSET S, Cardinality(T) = n + 1 PROVE T \in G
    <3>1. T # {}
      <4>1. n \in Nat /\ n + 1 # 0
        OBVIOUS
      <4>2. Cardinality({}) = 0
        BY FS_EmptySet
      <4> QED
        BY <2>1, <4>1, <4>2
    <3>2. PICK x \in T : TRUE
      BY <3>1
    <3>3. Cardinality(T \ {x}) = Cardinality(T) - 1
      BY <1>1, <3>2, FS_RemoveElement
    <3>4. Cardinality(T \ {x}) = n
      BY <2>1, <3>3
    <3>5. T \ {x} \in G
      BY <3>4
    <3> QED
      BY <3>2, <3>5
  <2> QED
    BY <2>1
<1>4. N = Nat
  BY <1>2, <1>3, UpwardsFromZero
<1>5. Cardinality(S) \in N
  BY <1>1, <1>4
<1> QED
  BY <1>5

-----------------------------------------------------------------------------
(* Sums of a function over a finite set *)

\* f has an integer for every element of S.
IsCount(f, S) == \A x \in S : f[x] \in Int

\* What the fold of SumFunctionOnSet is to be, on the sets of D.
SumFrom(g, f, s) == IF s = {} THEN 0 ELSE LET x == CHOOSE x \in s : TRUE IN f[x] + g[s \ {x}]
IsSum(g, f, D) == g = [s \in D |-> SumFrom(g, f, s)]

LEMMA SumChosen ==
    ASSUME NEW f, NEW S, \E g : IsSum(g, f, SUBSET S)
    PROVE  \E g : IsSum(g, f, SUBSET S) /\ SumFunctionOnSet(f, S) = g[S]
  BY DEF SumFunctionOnSet, FoldFunctionOnSet, MapThenFoldSet, IsSum, SumFrom

LEMMA SumExists ==
    ASSUME NEW f, NEW S, IsFiniteSet(S), IsCount(f, S)
    PROVE  \E g : IsSum(g, f, SUBSET S) /\ \A s \in SUBSET S : g[s] \in Int
<1> DEFINE Upto(n) == {s \in SUBSET S : Cardinality(s) <= n}
           Has(n) == \E g \in [Upto(n) -> Int] : IsSum(g, f, Upto(n))
           G == {n \in Nat : Has(n)}
<1>1. \A s \in SUBSET S : IsFiniteSet(s) /\ Cardinality(s) \in Nat
  BY FS_Subset, FS_CardinalityType
<1>2. 0 \in G
  <2> DEFINE g == [s \in Upto(0) |-> 0]
  <2>1. \A s \in Upto(0) : s = {}
    <3>1. \A s \in SUBSET S : Cardinality(s) <= 0 => Cardinality(s) = 0
      BY <1>1
    <3> QED
      BY <3>1, <1>1, FS_EmptySet
  <2>2. \A s \in Upto(0) : SumFrom(g, f, s) = 0
    BY <2>1 DEF SumFrom
  <2>3. IsSum(g, f, Upto(0))
    BY <2>2, Zenon DEF IsSum
  <2>4. g \in [Upto(0) -> Int]
    OBVIOUS
  <2> QED
    BY <2>3, <2>4
<1>3. ASSUME NEW n \in G PROVE n + 1 \in G
  <2>1. PICK g \in [Upto(n) -> Int] : IsSum(g, f, Upto(n))
    OBVIOUS
  <2> DEFINE h == [s \in Upto(n + 1) |-> SumFrom(g, f, s)]
  <2>2. ASSUME NEW s \in Upto(n + 1), s # {} PROVE /\ s \ {CHOOSE x \in s : TRUE} \in Upto(n)
                                                   /\ (CHOOSE x \in s : TRUE) \in S
    <3>1. PICK x \in s : x = CHOOSE y \in s : TRUE
      BY <2>2
    <3>2. Cardinality(s \ {x}) = Cardinality(s) - 1 /\ s \ {x} \in SUBSET S
      BY <1>1, FS_RemoveElement
    <3>3. Cardinality(s) \in Nat /\ Cardinality(s) <= n + 1
      BY <1>1
    <3>4. s \ {x} \in Upto(n)
      BY <3>2, <3>3
    <3> QED
      BY <3>1, <3>4
  <2>3. ASSUME NEW s \in Upto(n + 1) PROVE SumFrom(g, f, s) \in Int
    <3>1. CASE s = {}
      BY <3>1 DEF SumFrom
    <3>2. CASE s # {}
      <4> DEFINE x == CHOOSE y \in s : TRUE
      <4>1. g[s \ {x}] \in Int /\ f[x] \in Int
        BY <2>1, <2>2, <3>2 DEF IsCount
      <4>2. SumFrom(g, f, s) = f[x] + g[s \ {x}]
        BY <3>2 DEF SumFrom
      <4> HIDE DEF x
      <4> QED
        BY <4>1, <4>2
    <3> QED
      BY <3>1, <3>2
  <2>4. \A s \in Upto(n) : s \in Upto(n + 1)
    BY <1>1
  <2>5. \A s \in Upto(n) : h[s] = g[s]
    <3>1. \A s \in Upto(n) : g[s] = SumFrom(g, f, s)
      BY <2>1 DEF IsSum
    <3> QED
      BY <3>1, <2>4
  <2>6. ASSUME NEW s \in Upto(n + 1) PROVE h[s] = SumFrom(h, f, s)
    <3>1. CASE s = {}
      BY <3>1 DEF SumFrom
    <3>2. CASE s # {}
      <4>1. h[s \ {CHOOSE x \in s : TRUE}] = g[s \ {CHOOSE x \in s : TRUE}]
        BY <2>2, <2>5, <3>2
      <4> HIDE DEF h
      <4>2. SumFrom(h, f, s) = SumFrom(g, f, s)
        BY <4>1 DEF SumFrom
      <4> QED
        BY <4>2 DEF h
    <3> QED
      BY <3>1, <3>2
  <2>7. h \in [Upto(n + 1) -> Int]
    BY <2>3
  <2>8. IsSum(h, f, Upto(n + 1))
    <3>1. h = [s \in Upto(n + 1) |-> h[s]]
      OBVIOUS
    <3> HIDE DEF h
    <3>2. h = [s \in Upto(n + 1) |-> SumFrom(h, f, s)]
      BY <3>1, <2>6, Zenon
    <3> QED
      BY <3>2 DEF IsSum
  <2> HIDE DEF h
  <2>9. Has(n + 1)
    BY <2>7, <2>8
  <2>10. n + 1 \in Nat
    OBVIOUS
  <2> QED
    BY <2>9, <2>10
<1>4. G = Nat
  BY <1>2, <1>3, UpwardsFromZero
<1>5. Cardinality(S) \in Nat /\ Has(Cardinality(S))
  BY <1>1, <1>4
<1>6. Upto(Cardinality(S)) = SUBSET S
  BY FS_Subset
<1> QED
  BY <1>5, <1>6

\* The fold over a set and the fold over a larger one agree about its subsets.
LEMMA SumUnique ==
    ASSUME NEW f, NEW S, NEW T \in SUBSET S, IsFiniteSet(T), NEW g, NEW h,
           IsSum(g, f, SUBSET S), IsSum(h, f, SUBSET T)
    PROVE  g[T] = h[T]
<1> DEFINE N == {n \in Nat : \A s \in SUBSET T : Cardinality(s) = n => g[s] = h[s]}
<1>1. \A s \in SUBSET T : IsFiniteSet(s) /\ Cardinality(s) \in Nat
  BY FS_Subset, FS_CardinalityType
<1>2. \A s \in SUBSET T : g[s] = SumFrom(g, f, s) /\ h[s] = SumFrom(h, f, s)
  <2>1. \A s \in SUBSET S : g[s] = SumFrom(g, f, s)
    BY DEF IsSum
  <2>2. \A s \in SUBSET T : h[s] = SumFrom(h, f, s)
    BY DEF IsSum
  <2> QED
    BY <2>1, <2>2
<1>3. 0 \in N
  <2>1. \A s \in SUBSET T : Cardinality(s) = 0 => s = {}
    BY <1>1, FS_EmptySet
  <2>2. g[{}] = 0 /\ h[{}] = 0
    BY <1>2 DEF SumFrom
  <2> QED
    BY <2>1, <2>2
<1>4. ASSUME NEW n \in N PROVE n + 1 \in N
  <2>1. ASSUME NEW s \in SUBSET T, Cardinality(s) = n + 1 PROVE g[s] = h[s]
    <3>1. s # {}
      <4>1. n \in Nat /\ n + 1 # 0
        OBVIOUS
      <4>2. Cardinality({}) = 0
        BY FS_EmptySet
      <4> QED
        BY <2>1, <4>1, <4>2
    <3>2. PICK x \in s : x = CHOOSE y \in s : TRUE
      BY <3>1
    <3>3. Cardinality(s \ {x}) = Cardinality(s) - 1
      BY <1>1, FS_RemoveElement
    <3>4. Cardinality(s \ {x}) = n
      BY <2>1, <3>3
    <3>5. g[s \ {x}] = h[s \ {x}]
      BY <3>4
    <3>6. g[s] = f[x] + g[s \ {x}]
      BY <1>2, <3>1, <3>2 DEF SumFrom
    <3>7. h[s] = f[x] + h[s \ {x}]
      BY <1>2, <3>1, <3>2 DEF SumFrom
    <3> QED
      BY <3>5, <3>6, <3>7
  <2> QED
    BY <2>1
<1>5. N = Nat
  BY <1>3, <1>4, UpwardsFromZero
<1> QED
  BY <1>1, <1>5

LEMMA SumType ==
    ASSUME NEW f, NEW S, IsFiniteSet(S), IsCount(f, S)
    PROVE  SumFunctionOnSet(f, S) \in Int
<1>1. PICK g : IsSum(g, f, SUBSET S) /\ SumFunctionOnSet(f, S) = g[S]
  BY SumExists, SumChosen
<1>2. PICK h : IsSum(h, f, SUBSET S) /\ \A s \in SUBSET S : h[s] \in Int
  BY SumExists
<1>3. S \in SUBSET S
  OBVIOUS
<1> QED
  BY <1>1, <1>2, <1>3, SumUnique

LEMMA SumEmpty == ASSUME NEW f PROVE SumFunctionOnSet(f, {}) = 0
<1>1. IsFiniteSet({}) /\ IsCount(f, {})
  BY FS_EmptySet DEF IsCount
<1>2. PICK g : IsSum(g, f, SUBSET {}) /\ SumFunctionOnSet(f, {}) = g[{}]
  BY <1>1, SumExists, SumChosen
<1> QED
  BY <1>2 DEF IsSum, SumFrom

\* The sum of a set that is not empty, with the element that the fold takes first.
LEMMA SumFirst ==
    ASSUME NEW f, NEW S, IsFiniteSet(S), IsCount(f, S), S # {}
    PROVE  \E x \in S : SumFunctionOnSet(f, S) = f[x] + SumFunctionOnSet(f, S \ {x})
<1>1. PICK g : IsSum(g, f, SUBSET S) /\ SumFunctionOnSet(f, S) = g[S]
  BY SumExists, SumChosen
<1>2. PICK x \in S : x = CHOOSE y \in S : TRUE
  OBVIOUS
<1>3. g[S] = f[x] + g[S \ {x}]
  BY <1>1, <1>2 DEF IsSum, SumFrom
<1>4. IsFiniteSet(S \ {x}) /\ IsCount(f, S \ {x}) /\ S \ {x} \in SUBSET S
  BY FS_RemoveElement DEF IsCount
<1>5. PICK T \in SUBSET S : T = S \ {x}
  BY <1>4
<1>6. PICK h : IsSum(h, f, SUBSET T) /\ SumFunctionOnSet(f, T) = h[T]
  BY <1>4, <1>5, SumExists, SumChosen
<1>7. g[T] = h[T]
  <2>1. IsFiniteSet(T) /\ IsSum(g, f, SUBSET S) /\ IsSum(h, f, SUBSET T)
    BY <1>1, <1>4, <1>5, <1>6
  <2> QED
    BY <2>1, SumUnique
<1>8. SumFunctionOnSet(f, S) = f[x] + SumFunctionOnSet(f, S \ {x})
  <2>1. g[S] = f[x] + h[T]
    BY <1>3, <1>5, <1>7
  <2> QED
    BY <1>1, <1>5, <1>6, <2>1
<1> QED
  BY <1>8

\* The order does not matter: any element can be taken first.
LEMMA SumTake ==
    ASSUME NEW f, NEW S, IsFiniteSet(S), IsCount(f, S), NEW x \in S
    PROVE  SumFunctionOnSet(f, S) = f[x] + SumFunctionOnSet(f, S \ {x})
<1> DEFINE Sum(T) == SumFunctionOnSet(f, T)
           N == {n \in Nat : \A T \in SUBSET S : Cardinality(T) = n =>
                                 \A y \in T : Sum(T) = f[y] + Sum(T \ {y})}
<1>1. \A T \in SUBSET S : IsFiniteSet(T) /\ Cardinality(T) \in Nat /\ IsCount(f, T) /\ Sum(T) \in Int
  BY FS_Subset, FS_CardinalityType, SumType DEF IsCount
<1>2. \A T \in SUBSET S : T # {} => \E y \in T : Sum(T) = f[y] + Sum(T \ {y})
  BY <1>1, SumFirst
<1> HIDE DEF Sum
<1>3. 0 \in N
  <2>1. \A T \in SUBSET S : Cardinality(T) = 0 => T = {}
    BY <1>1, FS_EmptySet
  <2> QED
    BY <2>1
<1>4. ASSUME NEW n \in N PROVE n + 1 \in N
  <2>1. ASSUME NEW T \in SUBSET S, Cardinality(T) = n + 1, NEW y \in T PROVE Sum(T) = f[y] + Sum(T \ {y})
    <3>1. PICK z \in T : Sum(T) = f[z] + Sum(T \ {z})
      BY <1>2
    <3>2. CASE y = z
      BY <3>1, <3>2
    <3>3. CASE y # z
      <4>1. \A w \in T : Cardinality(T \ {w}) = Cardinality(T) - 1
        BY <1>1, FS_RemoveElement
      <4>2. Cardinality(T \ {z}) = n /\ Cardinality(T \ {y}) = n
        BY <4>1, <2>1
      <4>3. y \in T \ {z} /\ z \in T \ {y} /\ T \ {z} \in SUBSET S /\ T \ {y} \in SUBSET S
        BY <3>3
      <4>4. Sum(T \ {z}) = f[y] + Sum((T \ {z}) \ {y})
        BY <4>2, <4>3
      <4>5. Sum(T \ {y}) = f[z] + Sum((T \ {y}) \ {z})
        BY <4>2, <4>3
      <4>6. (T \ {z}) \ {y} = (T \ {y}) \ {z} /\ (T \ {y}) \ {z} \in SUBSET S
        OBVIOUS
      <4>7. f[y] \in Int /\ f[z] \in Int /\ Sum((T \ {y}) \ {z}) \in Int
        BY <1>1, <4>6 DEF IsCount
      <4>8. PICK a \in Int : a = Sum((T \ {y}) \ {z})
        BY <4>7
      <4>9. Sum(T) = f[z] + (f[y] + a) /\ Sum(T \ {y}) = f[z] + a
        BY <3>1, <4>4, <4>5, <4>6, <4>8
      <4>10. f[z] + (f[y] + a) = f[y] + (f[z] + a)
        BY <4>7, <4>8
      <4> QED
        BY <4>9, <4>10
    <3> QED
      BY <3>2, <3>3
  <2> QED
    BY <2>1
<1>5. N = Nat
  BY <1>3, <1>4, UpwardsFromZero
<1>6. Sum(S) = f[x] + Sum(S \ {x})
  BY <1>1, <1>5
<1> QED
  BY <1>6 DEF Sum

\* Every subset of a finite set has a sum, and one element can be taken out of it.
LEMMA SumWithin ==
    ASSUME NEW f, NEW S, IsFiniteSet(S), IsCount(f, S), NEW T \in SUBSET S
    PROVE  /\ IsFiniteSet(T) /\ IsCount(f, T) /\ SumFunctionOnSet(f, T) \in Int
           /\ \A x \in T : /\ f[x] \in Int
                           /\ SumFunctionOnSet(f, T \ {x}) \in Int
                           /\ SumFunctionOnSet(f, T) = f[x] + SumFunctionOnSet(f, T \ {x})
<1>1. IsFiniteSet(T) /\ IsCount(f, T)
  BY FS_Subset DEF IsCount
<1>2. ASSUME NEW x \in T PROVE IsFiniteSet(T \ {x}) /\ IsCount(f, T \ {x})
  BY <1>1, FS_Subset DEF IsCount
<1> QED
  BY <1>1, <1>2, SumType, SumTake DEF IsCount

\* Functions that agree on a set have the same sum.
LEMMA SumSame ==
    ASSUME NEW S, IsFiniteSet(S), NEW f, NEW g, IsCount(f, S), \A x \in S : f[x] = g[x]
    PROVE  IsCount(g, S) /\ SumFunctionOnSet(f, S) = SumFunctionOnSet(g, S)
<1> DEFINE G == {T \in SUBSET S : SumFunctionOnSet(f, T) = SumFunctionOnSet(g, T)}
<1>1. IsCount(g, S)
  BY DEF IsCount
<1>2. {} \in G
  BY SumEmpty
<1>3. ASSUME NEW T \in SUBSET S, NEW x \in T, T \ {x} \in G PROVE T \in G
  <2>1. SumFunctionOnSet(f, T) = f[x] + SumFunctionOnSet(f, T \ {x})
    BY SumWithin
  <2>2. SumFunctionOnSet(g, T) = g[x] + SumFunctionOnSet(g, T \ {x})
    BY <1>1, SumWithin
  <2> QED
    BY <1>3, <2>1, <2>2
<1>4. S \in G
  <2>1. G \in SUBSET (SUBSET S)
    OBVIOUS
  <2> HIDE DEF G
  <2> QED
    BY <2>1, <1>2, <1>3, OneMoreElement
<1> QED
  BY <1>1, <1>4

\* The sum of two functions.
LEMMA SumPlus ==
    ASSUME NEW S, IsFiniteSet(S), NEW f, NEW g, NEW h, IsCount(f, S), IsCount(g, S),
           \A x \in S : h[x] = f[x] + g[x]
    PROVE  IsCount(h, S) /\ SumFunctionOnSet(h, S) = SumFunctionOnSet(f, S) + SumFunctionOnSet(g, S)
<1> DEFINE G == {T \in SUBSET S : SumFunctionOnSet(h, T) = SumFunctionOnSet(f, T) + SumFunctionOnSet(g, T)}
<1>1. IsCount(h, S)
  BY DEF IsCount
<1>2. {} \in G
  BY SumEmpty
<1>3. ASSUME NEW T \in SUBSET S, NEW x \in T, T \ {x} \in G PROVE T \in G
  <2>1. PICK a \in Int : a = SumFunctionOnSet(f, T \ {x}) /\ SumFunctionOnSet(f, T) = f[x] + a
    BY SumWithin
  <2>2. PICK b \in Int : b = SumFunctionOnSet(g, T \ {x}) /\ SumFunctionOnSet(g, T) = g[x] + b
    BY SumWithin
  <2>3. SumFunctionOnSet(h, T) = h[x] + SumFunctionOnSet(h, T \ {x})
    BY <1>1, SumWithin
  <2>4. SumFunctionOnSet(h, T) = (f[x] + g[x]) + (a + b)
    BY <1>3, <2>1, <2>2, <2>3
  <2>5. f[x] \in Int /\ g[x] \in Int
    BY DEF IsCount
  <2>6. (f[x] + g[x]) + (a + b) = (f[x] + a) + (g[x] + b)
    BY <2>1, <2>2, <2>5
  <2> QED
    BY <2>1, <2>2, <2>4, <2>6
<1>4. S \in G
  <2>1. G \in SUBSET (SUBSET S)
    OBVIOUS
  <2> HIDE DEF G
  <2> QED
    BY <2>1, <1>2, <1>3, OneMoreElement
<1> QED
  BY <1>1, <1>4

\* Elements that count nothing can be left out.
LEMMA SumSkip ==
    ASSUME NEW S, IsFiniteSet(S), NEW f, IsCount(f, S), NEW T \in SUBSET S,
           \A x \in S \ T : f[x] = 0
    PROVE  SumFunctionOnSet(f, S) = SumFunctionOnSet(f, T)
<1> DEFINE G == {U \in SUBSET S : SumFunctionOnSet(f, U) = SumFunctionOnSet(f, U \cap T)}
<1>1. {} \in G
  OBVIOUS
<1>2. ASSUME NEW U \in SUBSET S, NEW x \in U, U \ {x} \in G PROVE U \in G
  <2>1. PICK a \in Int : a = SumFunctionOnSet(f, U \ {x}) /\ SumFunctionOnSet(f, U) = f[x] + a
    BY SumWithin
  <2>2. CASE x \in T
    <3>1. PICK V \in SUBSET S : V = U \cap T
      OBVIOUS
    <3>2. SumFunctionOnSet(f, V) = f[x] + SumFunctionOnSet(f, V \ {x})
      BY <2>2, <3>1, SumWithin
    <3>3. V \ {x} = (U \ {x}) \cap T
      BY <3>1
    <3> QED
      BY <1>2, <2>1, <3>1, <3>2, <3>3
  <2>3. CASE x \notin T
    <3>1. U \cap T = (U \ {x}) \cap T /\ f[x] = 0
      BY <2>3
    <3>2. SumFunctionOnSet(f, U) = a
      BY <2>1, <3>1
    <3>3. a = SumFunctionOnSet(f, (U \ {x}) \cap T)
      BY <1>2, <2>1
    <3> QED
      BY <3>1, <3>2, <3>3
  <2> QED
    BY <2>2, <2>3
<1>3. S \in G
  <2>1. G \in SUBSET (SUBSET S)
    OBVIOUS
  <2> HIDE DEF G
  <2> QED
    BY <2>1, <1>1, <1>2, OneMoreElement
<1>4. S \cap T = T
  OBVIOUS
<1> QED
  BY <1>3, <1>4

\* A sum of ones counts.
LEMMA SumOfOnes ==
    ASSUME NEW S, IsFiniteSet(S), NEW f, \A x \in S : f[x] = 1
    PROVE  IsCount(f, S) /\ SumFunctionOnSet(f, S) = Cardinality(S)
<1> DEFINE G == {T \in SUBSET S : SumFunctionOnSet(f, T) = Cardinality(T)}
<1>1. IsCount(f, S)
  BY DEF IsCount
<1>2. {} \in G
  BY SumEmpty, FS_EmptySet
<1>3. ASSUME NEW T \in SUBSET S, NEW x \in T, T \ {x} \in G PROVE T \in G
  <2>1. SumFunctionOnSet(f, T) = f[x] + SumFunctionOnSet(f, T \ {x})
    BY <1>1, SumWithin
  <2>2. Cardinality(T \ {x}) = Cardinality(T) - 1 /\ Cardinality(T) \in Nat
    BY FS_Subset, FS_RemoveElement, FS_CardinalityType
  <2> QED
    BY <1>3, <2>1, <2>2
<1>4. S \in G
  <2>1. G \in SUBSET (SUBSET S)
    OBVIOUS
  <2> HIDE DEF G
  <2> QED
    BY <2>1, <1>2, <1>3, OneMoreElement
<1> QED
  BY <1>1, <1>4

\* b tells the elements of S apart.
OneToOne(b, S) == \A x, y \in S : b[x] = b[y] => x = y
ImageOf(b, S) == {b[x] : x \in S}
\* g has for the image of an element what f has for the element.
Carried(g, b, f, S) == \A x \in S : g[b[x]] = f[x]

LEMMA ImageFinite == ASSUME NEW S, IsFiniteSet(S), NEW b PROVE IsFiniteSet(ImageOf(b, S))
<1>1. PICK h : h = [x \in S |-> b[x]]
  OBVIOUS
<1>2. PICK R : R = ImageOf(b, S)
  OBVIOUS
<1>3. h \in Surjection(S, R)
  BY <1>1, <1>2 DEF Surjection, ImageOf
<1> QED
  BY <1>2, <1>3, FS_Surjection

\* A one-to-one map b of S onto R carries the sum of f over.
LEMMA SumReindex ==
    ASSUME NEW S, IsFiniteSet(S), NEW f, IsCount(f, S), NEW b, NEW g, NEW R, R = ImageOf(b, S),
           OneToOne(b, S), Carried(g, b, f, S)
    PROVE  IsFiniteSet(R) /\ IsCount(g, R) /\ SumFunctionOnSet(g, R) = SumFunctionOnSet(f, S)
<1> USE DEF ImageOf, OneToOne, Carried
<1> DEFINE Onto(T) == {b[x] : x \in T}
           G == {T \in SUBSET S : SumFunctionOnSet(g, Onto(T)) = SumFunctionOnSet(f, T)}
<1>1. IsFiniteSet(R)
  <2>1. PICK h : h = [x \in S |-> b[x]]
    OBVIOUS
  <2>2. h \in Surjection(S, R)
    BY <2>1 DEF Surjection
  <2> QED
    BY <2>2, FS_Surjection
<1>2. IsCount(g, R)
  BY DEF IsCount
<1>3. {} \in G
  <2>1. Onto({}) = {}
    OBVIOUS
  <2> QED
    BY <2>1, SumEmpty
<1>4. ASSUME NEW T \in SUBSET S, NEW x \in T, T \ {x} \in G PROVE T \in G
  <2>1. SumFunctionOnSet(f, T) = f[x] + SumFunctionOnSet(f, T \ {x})
    BY SumWithin
  <2>2. PICK V \in SUBSET R : V = Onto(T)
    <3>1. Onto(T) \in SUBSET R
      OBVIOUS
    <3> QED
      BY <3>1
  <2>3. b[x] \in V /\ V \ {b[x]} = Onto(T \ {x})
    BY <2>2
  <2>4. SumFunctionOnSet(g, V) = g[b[x]] + SumFunctionOnSet(g, V \ {b[x]})
    BY <1>1, <1>2, <2>3, SumWithin
  <2> QED
    BY <1>4, <2>1, <2>2, <2>3, <2>4
<1>5. S \in G
  <2>1. G \in SUBSET (SUBSET S)
    OBVIOUS
  <2> HIDE DEF G
  <2> QED
    BY <2>1, <1>3, <1>4, OneMoreElement
<1> QED
  BY <1>1, <1>2, <1>5

\* A function that differs from another at one element.
LEMMA SumChanged ==
    ASSUME NEW S, IsFiniteSet(S), NEW f, NEW g, IsCount(f, S), NEW c \in S, NEW d \in Int,
           g[c] = f[c] + d, \A x \in S \ {c} : g[x] = f[x]
    PROVE  IsCount(g, S) /\ SumFunctionOnSet(g, S) = SumFunctionOnSet(f, S) + d
<1>1. IsCount(g, S)
  BY DEF IsCount
<1>2. IsFiniteSet(S \ {c}) /\ IsCount(f, S \ {c})
  BY FS_RemoveElement DEF IsCount
<1>3. SumFunctionOnSet(f, S \ {c}) = SumFunctionOnSet(g, S \ {c})
  BY <1>2, SumSame
<1>4. PICK a \in Int : a = SumFunctionOnSet(f, S \ {c}) /\ SumFunctionOnSet(f, S) = f[c] + a
  BY SumWithin
<1>5. SumFunctionOnSet(g, S) = g[c] + a
  BY <1>1, <1>3, <1>4, SumTake
<1>6. f[c] \in Int /\ (f[c] + d) + a = (f[c] + a) + d
  BY <1>4 DEF IsCount
<1> QED
  BY <1>1, <1>4, <1>5, <1>6

\* S is divided into groups: k gives each element its group.
Grouped(k, S, C) == \A x \in S : k[x] \in C
GroupOf(k, S, c) == {x \in S : k[x] = c}
SumsOf(g, f, k, S, C) == \A c \in C : g[c] = SumFunctionOnSet(f, GroupOf(k, S, c))
CountsOf(g, k, S, C) == \A c \in C : g[c] = Cardinality(GroupOf(k, S, c))

\* A sum is the sum of the sums of its groups.
LEMMA SumByGroup ==
    ASSUME NEW S, IsFiniteSet(S), NEW f, IsCount(f, S), NEW C, IsFiniteSet(C), NEW k, Grouped(k, S, C),
           NEW g, SumsOf(g, f, k, S, C)
    PROVE  IsCount(g, C) /\ SumFunctionOnSet(g, C) = SumFunctionOnSet(f, S)
<1> USE DEF Grouped, GroupOf, SumsOf
<1> DEFINE Of(T, c) == {x \in T : k[x] = c}
           H(T) == [c \in C |-> SumFunctionOnSet(f, Of(T, c))]
           G == {T \in SUBSET S : SumFunctionOnSet(H(T), C) = SumFunctionOnSet(f, T)}
<1>1. \A T \in SUBSET S : IsCount(H(T), C)
  <2>1. ASSUME NEW T \in SUBSET S, NEW c \in C PROVE SumFunctionOnSet(f, Of(T, c)) \in Int
    <3>1. Of(T, c) \in SUBSET S
      OBVIOUS
    <3> QED
      BY <3>1, SumWithin
  <2> QED
    BY <2>1 DEF IsCount
<1>2. {} \in G
  <2>1. \A c \in C : H({})[c] = 0
    <3>1. \A c \in C : Of({}, c) = {}
      OBVIOUS
    <3> QED
      BY <3>1, SumEmpty
  <2>2. {} \in SUBSET C /\ \A c \in C \ {} : H({})[c] = 0
    BY <2>1
  <2>3. IsCount(H({}), C)
    BY <1>1
  <2> HIDE DEF H
  <2>4. SumFunctionOnSet(H({}), C) = SumFunctionOnSet(H({}), {})
    BY <2>2, <2>3, SumSkip
  <2> QED
    BY <2>4, SumEmpty
<1>3. ASSUME NEW T \in SUBSET S, NEW x \in T, T \ {x} \in G PROVE T \in G
  <2>1. PICK a \in Int : a = SumFunctionOnSet(f, T \ {x}) /\ SumFunctionOnSet(f, T) = f[x] + a
    BY SumWithin
  <2>2. f[x] \in Int /\ k[x] \in C
    BY DEF IsCount
  <2>3. H(T)[k[x]] = H(T \ {x})[k[x]] + f[x]
    <3>1. PICK U \in SUBSET S : U = Of(T, k[x])
      OBVIOUS
    <3>2. U \ {x} = Of(T \ {x}, k[x]) /\ x \in U
      BY <3>1
    <3>3. PICK b \in Int : b = SumFunctionOnSet(f, U \ {x}) /\ SumFunctionOnSet(f, U) = f[x] + b
      BY <3>2, SumWithin
    <3>4. H(T)[k[x]] = f[x] + b /\ H(T \ {x})[k[x]] = b
      BY <2>2, <3>1, <3>2, <3>3
    <3>5. f[x] + b = b + f[x]
      BY <2>2, <3>3
    <3> QED
      BY <3>4, <3>5
  <2>4. \A c \in C \ {k[x]} : H(T)[c] = H(T \ {x})[c]
    <3>1. \A c \in C \ {k[x]} : Of(T, c) = Of(T \ {x}, c)
      OBVIOUS
    <3> QED
      BY <3>1
  <2>5. IsCount(H(T \ {x}), C)
    <3>1. T \ {x} \in SUBSET S
      OBVIOUS
    <3> QED
      BY <1>1, <3>1
  <2>6. SumFunctionOnSet(H(T), C) = SumFunctionOnSet(H(T \ {x}), C) + f[x]
    <3>1. PICK h, i, c : h = H(T) /\ i = H(T \ {x}) /\ c = k[x]
      OBVIOUS
    <3> HIDE DEF H
    <3>2. h[c] = i[c] + f[x] /\ IsCount(i, C) /\ (\A d \in C \ {c} : h[d] = i[d]) /\ c \in C
      BY <2>2, <2>3, <2>4, <2>5, <3>1
    <3>3. SumFunctionOnSet(h, C) = SumFunctionOnSet(i, C) + f[x]
      BY <2>2, <3>2, SumChanged
    <3> QED
      BY <3>1, <3>3
  <2>7. a + f[x] = f[x] + a
    BY <2>1, <2>2
  <2> HIDE DEF H
  <2> QED
    BY <1>3, <2>1, <2>6, <2>7
<1>4. S \in G
  <2>1. G \in SUBSET (SUBSET S)
    OBVIOUS
  <2> HIDE DEF G
  <2> QED
    BY <2>1, <1>2, <1>3, OneMoreElement
<1>5. IsCount(H(S), C) /\ \A c \in C : H(S)[c] = g[c]
  <2>1. S \in SUBSET S
    OBVIOUS
  <2> QED
    BY <1>1, <2>1
<1> HIDE DEF H
<1>6. IsCount(g, C) /\ SumFunctionOnSet(H(S), C) = SumFunctionOnSet(g, C)
  BY <1>5, SumSame
<1> QED
  BY <1>4, <1>6

-----------------------------------------------------------------------------
(* A loop over the positions of a list, as a function of the position. *)

\* f runs over the first n positions, from b on, and step takes it from one to
\* the next.
IsLoop(f, n, b, step) ==
    f = [k \in 0 .. n |-> f[k]] /\ f[0] = b /\ \A k \in 1 .. n : f[k] = step[<<k, f[k - 1]>>]

\* A step leaves what is in S in S.
StepsIn(step, n, S) == \A k \in 1 .. n : \A x \in S : step[<<k, x>>] \in S

LEMMA LoopRuns ==
    ASSUME NEW n \in Nat, NEW S, NEW b \in S, NEW step, StepsIn(step, n, S)
    PROVE  \E f : IsLoop(f, n, b, step) /\ \A k \in 0 .. n : f[k] \in S
<1> USE DEF StepsIn
<1> DEFINE Runs(m, f) == IsLoop(f, m, b, step) /\ \A k \in 0 .. m : f[k] \in S
           G == {m \in Nat : m <= n => \E f : Runs(m, f)}
<1>1. 0 \in G
  <2>1. PICK f : f = [k \in 0 .. 0 |-> b]
    OBVIOUS
  <2>2. Runs(0, f)
    BY <2>1 DEF IsLoop
  <2> QED
    BY <2>2
<1>2. ASSUME NEW m \in G PROVE m + 1 \in G
  <2>1. m \in Nat /\ (m <= n => \E f : Runs(m, f))
    BY <1>2
  <2>2. SUFFICES ASSUME m + 1 <= n PROVE \E f : Runs(m + 1, f)
    BY <2>1
  <2>3. PICK f : Runs(m, f)
    BY <2>1, <2>2
  <2>4. PICK y : y = step[<<m + 1, f[m]>>]
    OBVIOUS
  <2>5. y \in S
    BY <2>1, <2>2, <2>3, <2>4
  <2>6. PICK h : h = [k \in 0 .. m + 1 |-> IF k = m + 1 THEN y ELSE f[k]]
    OBVIOUS
  <2>7. \A k \in 0 .. m : h[k] = f[k]
    BY <2>1, <2>6
  <2>8. h[m + 1] = y
    BY <2>1, <2>6
  <2>9. \A k \in 0 .. m + 1 : h[k] \in S
    <3>1. ASSUME NEW k \in 0 .. m + 1 PROVE h[k] \in S
      <4>1. CASE k = m + 1
        BY <2>5, <2>8, <4>1
      <4>2. CASE k # m + 1
        <5>1. k \in 0 .. m
          BY <2>1, <4>2
        <5> QED
          BY <2>3, <2>7, <5>1
      <4> QED
        BY <4>1, <4>2
    <3> QED
      BY <3>1
  <2>10. ASSUME NEW k \in 1 .. m + 1 PROVE h[k] = step[<<k, h[k - 1]>>]
    <3>1. CASE k = m + 1
      <4>1. k - 1 = m /\ h[m] = f[m]
        BY <2>1, <2>7, <3>1
      <4> QED
        BY <2>4, <2>8, <3>1, <4>1
    <3>2. CASE k # m + 1
      <4>1. k \in 1 .. m /\ k \in 0 .. m /\ k - 1 \in 0 .. m
        BY <2>1, <3>2
      <4>2. f[k] = step[<<k, f[k - 1]>>]
        BY <2>3, <4>1 DEF IsLoop
      <4> QED
        BY <2>7, <4>1, <4>2
    <3> QED
      BY <3>1, <3>2
  <2>11. h[0] = b /\ h = [k \in 0 .. m + 1 |-> h[k]]
    BY <2>1, <2>3, <2>6, <2>7 DEF IsLoop
  <2>12. IsLoop(h, m + 1, b, step)
    BY <2>10, <2>11 DEF IsLoop
  <2> QED
    BY <2>9, <2>12
<1>3. G \in SUBSET Nat
  OBVIOUS
<1>4. n \in G
  <2> HIDE DEF G
  <2>1. G = Nat
    BY <1>1, <1>2, <1>3, UpwardsFromZero
  <2> QED
    BY <2>1
<1> QED
  BY <1>4

\* What holds at first and from a position to the next holds at each.
LEMMA LoopKeeps ==
    ASSUME NEW n \in Nat, NEW G \in SUBSET (0 .. n), 0 \in G,
           \A k \in 1 .. n : k - 1 \in G => k \in G
    PROVE  G = 0 .. n
<1> DEFINE H == {k \in Nat : k <= n => k \in G}
<1>1. H \in SUBSET Nat /\ 0 \in H
  OBVIOUS
<1>2. ASSUME NEW k \in H PROVE k + 1 \in H
  <2>1. k \in Nat /\ (k <= n => k \in G)
    BY <1>2
  <2>2. SUFFICES ASSUME k + 1 <= n PROVE k + 1 \in G
    BY <2>1
  <2>3. PICK l \in 1 .. n : l = k + 1
    BY <2>1, <2>2
  <2>4. l - 1 \in G
    BY <2>1, <2>2, <2>3
  <2> QED
    BY <2>3, <2>4
<1>3. H = Nat
  <2> HIDE DEF H
  <2> QED
    BY <1>1, <1>2, UpwardsFromZero
<1>4. ASSUME NEW k \in 0 .. n PROVE k \in G
  <2>1. k \in H /\ k <= n
    BY <1>3
  <2> QED
    BY <2>1
<1> QED
  BY <1>4

-----------------------------------------------------------------------------
(* The forms in which the models add up. *)

\* A function given on part of a set has the sum of the whole function there.
LEMMA SumGiven ==
    ASSUME NEW S, IsFiniteSet(S), NEW f, IsCount(f, S), NEW T \in SUBSET S,
           NEW g, DOMAIN g = T, \A x \in T : g[x] = f[x]
    PROVE  SumFunction(g) = SumFunctionOnSet(f, T) /\ SumFunction(g) \in Int
<1>1. IsFiniteSet(T) /\ IsCount(f, T) /\ SumFunctionOnSet(f, T) \in Int
  BY SumWithin
<1>2. SumFunctionOnSet(f, T) = SumFunctionOnSet(g, T)
  BY <1>1, SumSame
<1>3. SumFunction(g) = SumFunctionOnSet(g, T)
  BY DEF SumFunction
<1> QED
  BY <1>1, <1>2, <1>3

\* The groups of a set are together as many as the set.
LEMMA CountByGroup ==
    ASSUME NEW S, IsFiniteSet(S), NEW C, IsFiniteSet(C), NEW k, Grouped(k, S, C),
           NEW g, CountsOf(g, k, S, C)
    PROVE  IsCount(g, C) /\ SumFunctionOnSet(g, C) = Cardinality(S)
<1>1. PICK f : f = [x \in S |-> 1]
  OBVIOUS
<1>2. \A x \in S : f[x] = 1
  BY <1>1
<1>3. IsCount(f, S) /\ SumFunctionOnSet(f, S) = Cardinality(S)
  BY <1>2, SumOfOnes
<1>4. ASSUME NEW c \in C PROVE g[c] = SumFunctionOnSet(f, GroupOf(k, S, c))
  <2>1. PICK T \in SUBSET S : T = GroupOf(k, S, c)
    BY DEF GroupOf
  <2>2. IsFiniteSet(T) /\ \A x \in T : f[x] = 1
    BY <1>2, FS_Subset
  <2>3. SumFunctionOnSet(f, T) = Cardinality(T)
    BY <2>2, SumOfOnes
  <2> QED
    BY <2>1, <2>3 DEF CountsOf
<1>5. SumsOf(g, f, k, S, C)
  BY <1>4 DEF SumsOf
<1> QED
  BY <1>3, <1>5, SumByGroup

\* As many as the elements a one-to-one map takes them to.
LEMMA CountMapped ==
    ASSUME NEW S, IsFiniteSet(S), NEW b, OneToOne(b, S)
    PROVE  IsFiniteSet(ImageOf(b, S)) /\ Cardinality(ImageOf(b, S)) = Cardinality(S)
<1>1. PICK R : R = ImageOf(b, S)
  OBVIOUS
<1>2. PICK f, g : f = [x \in S |-> 1] /\ g = [y \in R |-> 1]
  OBVIOUS
<1>3. IsCount(f, S) /\ SumFunctionOnSet(f, S) = Cardinality(S)
  BY <1>2, SumOfOnes
<1>4. Carried(g, b, f, S)
  BY <1>1, <1>2 DEF Carried, ImageOf
<1>5. IsFiniteSet(R) /\ SumFunctionOnSet(g, R) = SumFunctionOnSet(f, S)
  BY <1>1, <1>3, <1>4, SumReindex
<1>6. SumFunctionOnSet(g, R) = Cardinality(R)
  BY <1>2, <1>5, SumOfOnes
<1> QED
  BY <1>1, <1>3, <1>5, <1>6

\* A sum of natural numbers, and one with a number that is not 0.
LEMMA SumNatural ==
    ASSUME NEW S, IsFiniteSet(S), NEW f, \A x \in S : f[x] \in Nat
    PROVE  IsCount(f, S) /\ SumFunctionOnSet(f, S) \in Nat
<1> DEFINE G == {T \in SUBSET S : SumFunctionOnSet(f, T) \in Nat}
<1>1. IsCount(f, S)
  BY DEF IsCount
<1>2. {} \in G
  BY SumEmpty
<1>3. ASSUME NEW T \in SUBSET S, NEW x \in T, T \ {x} \in G PROVE T \in G
  <2>1. SumFunctionOnSet(f, T) = f[x] + SumFunctionOnSet(f, T \ {x})
    BY <1>1, SumWithin
  <2>2. f[x] \in Nat /\ SumFunctionOnSet(f, T \ {x}) \in Nat
    BY <1>3
  <2> QED
    BY <2>1, <2>2
<1>4. S \in G
  <2>1. G \in SUBSET (SUBSET S)
    OBVIOUS
  <2> HIDE DEF G
  <2> QED
    BY <2>1, <1>2, <1>3, OneMoreElement
<1> QED
  BY <1>1, <1>4

LEMMA SumPositive ==
    ASSUME NEW S, IsFiniteSet(S), NEW f, \A x \in S : f[x] \in Nat \ {0}, S # {}
    PROVE  SumFunctionOnSet(f, S) \in Nat \ {0}
<1>1. PICK x \in S : TRUE
  OBVIOUS
<1>2. IsFiniteSet(S \ {x}) /\ \A y \in S \ {x} : f[y] \in Nat
  BY FS_RemoveElement
<1>3. PICK a \in Nat : a = SumFunctionOnSet(f, S \ {x})
  BY <1>2, SumNatural
<1>4. IsCount(f, S)
  BY DEF IsCount
<1>5. SumFunctionOnSet(f, S) = f[x] + a
  BY <1>3, <1>4, SumTake
<1> QED
  BY <1>3, <1>5
=============================================================================
