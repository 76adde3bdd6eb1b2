---------------------------- MODULE OrderLemmas ----------------------------
(***************************************************************************)
(* Facts about least elements and ranks in sets, for the proofs.           *)
(***************************************************************************)
EXTENDS Integers, FiniteSetsExt, FiniteSetTheorems, WellFoundedInduction, TLAPS

\* A set of naturals that is not empty has a least element, and Min is it.
\* The intervals 0..n are well founded by inclusion.
LEMMA MinOfNaturals ==
  ASSUME NEW S \in SUBSET Nat, S # {}
  PROVE  Min(S) \in S /\ \A y \in S : Min(S) <= y
<1> DEFINE I == {0..n : n \in S}
<1>1. I \subseteq FiniteSubsetsOf(Nat) /\ I # {}
  <2>1. \A n \in S : 0..n \in SUBSET Nat /\ IsFiniteSet(0..n)
    BY FS_Interval
  <2> QED  BY <2>1 DEF FiniteSubsetsOf
<1>2. PICK i \in I : \A j \in I : ~(<<j, i>> \in StrictSubsetOrdering(Nat))
  BY <1>1, FS_StrictSubsetOrderingWellFounded, WFMin
<1>3. PICK x \in S : i = 0..x
  OBVIOUS
<1>4. \A y \in S : x <= y
  <2>1. SUFFICES ASSUME NEW y \in S, y < x  PROVE FALSE
    OBVIOUS
  <2>2. <<0..y, i>> \in StrictSubsetOrdering(Nat)
    BY <1>3, <2>1 DEF StrictSubsetOrdering
  <2> QED  BY <1>2, <2>2
<1> QED  BY <1>4 DEF Min

\* How many elements of S have a key up to that of x.
RankIn(S, key, x) == Cardinality({y \in S : key[y] <= key[x]})

Ascending(f, n, key) ==
    \A i, j \in 1..n : i < j => key[f[i]] < key[f[j]]

\* f lists m elements of S in ascending order of their keys.
Lists(f, m, S, key) == m \in Nat /\ f \in [1..m -> S] /\ Ascending(f, m, key)

Within(f, m, g, n) == \A i \in 1..m : \E j \in 1..n : f[i] = g[j]
StartsAs(f, m, g, n) == \A i \in 1..m : i \in 1..n /\ f[i] = g[i]

\* Ranks follow keys.
LEMMA RanksAscend ==
  ASSUME NEW S, IsFiniteSet(S), NEW key \in [S -> Int], NEW x \in S, NEW z \in S
  PROVE  /\ RankIn(S, key, x) \in 1..Cardinality(S)
         /\ key[x] < key[z] => RankIn(S, key, x) < RankIn(S, key, z)
<1> DEFINE Below(w) == {y \in S : key[y] <= key[w]}
<1>1. \A w \in S : /\ IsFiniteSet(Below(w))
                   /\ Cardinality(Below(w)) \in Nat
                   /\ Cardinality(Below(w)) <= Cardinality(S)
                   /\ w \in Below(w)
  <2> SUFFICES ASSUME NEW w \in S
               PROVE  /\ IsFiniteSet(Below(w))
                      /\ Cardinality(Below(w)) \in Nat
                      /\ Cardinality(Below(w)) <= Cardinality(S)
                      /\ w \in Below(w)
    OBVIOUS
  <2>1. Below(w) \in SUBSET S
    OBVIOUS
  <2>2. IsFiniteSet(Below(w)) /\ Cardinality(Below(w)) <= Cardinality(S)
    BY <2>1, FS_Subset
  <2>3. Cardinality(Below(w)) \in Nat
    BY <2>2, FS_CardinalityType
  <2>4. key[w] \in Int /\ key[w] <= key[w]
    OBVIOUS
  <2> QED  BY <2>2, <2>3, <2>4
<1>2. Cardinality(Below(x)) # 0
  BY <1>1, FS_EmptySet
<1>3. ASSUME key[x] < key[z]  PROVE Cardinality(Below(x)) < Cardinality(Below(z))
  <2>1. Below(x) \in SUBSET Below(z)
    BY <1>3
  <2>2. z \in Below(z) /\ z \notin Below(x)
    BY <1>1, <1>3
  <2> HIDE DEF Below
  <2>3. /\ Cardinality(Below(x)) <= Cardinality(Below(z))
        /\ Cardinality(Below(z)) = Cardinality(Below(x)) => Below(z) = Below(x)
    BY <1>1, <2>1, FS_Subset
  <2> QED  BY <1>1, <2>2, <2>3
<1>4. Cardinality(S) \in Nat
  BY FS_CardinalityType
<1>5. RankIn(S, key, x) = Cardinality(Below(x)) /\ RankIn(S, key, z) = Cardinality(Below(z))
  BY DEF RankIn
<1> HIDE DEF Below
<1> QED  BY <1>1, <1>2, <1>3, <1>4, <1>5

\* A finite set whose elements have different keys can be listed in their
\* order: an element stands at its rank.
LEMMA SortedListing ==
  ASSUME NEW S, IsFiniteSet(S), NEW key \in [S -> Int],
         \A x, y \in S : key[x] = key[y] => x = y
  PROVE  \E f \in [1..Cardinality(S) -> S] :
            /\ Ascending(f, Cardinality(S), key)
            /\ S = {f[i] : i \in 1..Cardinality(S)}
<1> DEFINE n == Cardinality(S)
           rank == [x \in S |-> RankIn(S, key, x)]
<1>1. n \in Nat /\ IsFiniteSet(1..n) /\ Cardinality(1..n) = n
  BY FS_CardinalityType, FS_Interval
<1>2. rank \in [S -> 1..n]
  BY RanksAscend
<1>3. \A x, z \in S : key[x] < key[z] => rank[x] < rank[z]
  BY RanksAscend
<1>4. \A x \in S : key[x] \in Int
  OBVIOUS
<1> HIDE DEF rank, n
<1>5. rank \in Injection(S, 1..n)
  <2> SUFFICES ASSUME NEW x \in S, NEW z \in S, rank[x] = rank[z]  PROVE x = z
    BY <1>2 DEF Injection, IsInjective
  <2>1. rank[x] \in Int /\ rank[z] \in Int
    BY <1>1, <1>2
  <2>2. key[x] = key[z]
    BY <1>3, <1>4, <2>1
  <2> QED  BY <2>2
<1>6. rank \in Surjection(S, 1..n)
  BY <1>1, <1>5, FS_Injection DEF n
<1> DEFINE f == [i \in 1..n |-> CHOOSE x \in S : rank[x] = i]
<1>7. \A i \in 1..n : f[i] \in S /\ rank[f[i]] = i
  BY <1>6 DEF Surjection
<1>8. f \in [1..n -> S]
  BY <1>7
<1> HIDE DEF f
<1>9. Ascending(f, n, key)
  <2> SUFFICES ASSUME NEW i \in 1..n, NEW j \in 1..n, i < j
               PROVE  key[f[i]] < key[f[j]]
    BY DEF Ascending
  <2>1. f[i] \in S /\ f[j] \in S /\ rank[f[i]] = i /\ rank[f[j]] = j
    BY <1>7
  <2>2. key[f[i]] # key[f[j]]
    BY <2>1
  <2>3. ~(key[f[j]] < key[f[i]])
    BY <1>1, <1>3, <2>1
  <2> QED  BY <1>4, <2>1, <2>2, <2>3
<1>10. S = {f[i] : i \in 1..n}
  <2>1. ASSUME NEW x \in S  PROVE \E i \in 1..n : x = f[i]
    <3>1. rank[x] \in 1..n
      BY <1>2
    <3>2. f[rank[x]] \in S /\ rank[f[rank[x]]] = rank[x]
      BY <1>7, <3>1
    <3>3. x = f[rank[x]]
      BY <1>5, <3>2 DEF Injection, IsInjective
    <3> QED  BY <3>1, <3>3
  <2> QED  BY <1>7, <2>1
<1> QED  BY <1>8, <1>9, <1>10 DEF n

\* Two listings of the same elements in ascending order agree: consider the
\* first place where they do not.
LEMMA SortedPrefix ==
  ASSUME NEW S, NEW key \in [S -> Int], NEW m, NEW n, NEW f, NEW g,
         Lists(f, m, S, key), Lists(g, n, S, key),
         Within(f, m, g, n), Within(g, n, f, m)
  PROVE  StartsAs(f, m, g, n)
<1> USE DEF Lists
<1> DEFINE Bad == {i \in 1..m : ~(i \in 1..n /\ f[i] = g[i])}
<1> SUFFICES ASSUME Bad # {} PROVE FALSE
  BY DEF StartsAs
<1>1. Bad \in SUBSET Nat
  OBVIOUS
<1> DEFINE i == Min(Bad)
<1>2. i \in Bad /\ \A k \in Bad : i <= k
  BY <1>1, MinOfNaturals
<1> HIDE DEF i
<1>3. i \in 1..m /\ \A k \in 1..m : k < i => k \in 1..n /\ f[k] = g[k]
  BY <1>2
<1>4. ~(i \in 1..n /\ f[i] = g[i])
  BY <1>2
<1> HIDE DEF Bad
<1>5. PICK j \in 1..n : f[i] = g[j]
  BY <1>3 DEF Within
<1>6. i <= j
  <2> SUFFICES ASSUME j < i PROVE FALSE
    BY <1>3
  <2>1. f[j] = g[j] /\ j \in 1..m
    BY <1>3, <1>5
  <2>2. key[f[j]] < key[f[i]]
    BY <1>3, <2>1 DEF Ascending
  <2>3. key[f[j]] \in Int
    BY <2>1
  <2> QED  BY <1>5, <2>1, <2>2, <2>3
<1>7. i \in 1..n /\ i < j
  <2>1. i \in 1..n
    BY <1>3, <1>5, <1>6
  <2>2. i # j
    BY <1>4, <1>5, <2>1
  <2> QED  BY <1>3, <1>6, <2>1, <2>2
<1>8. PICK k \in 1..m : g[i] = f[k]
  BY <1>7 DEF Within
<1>9. key[g[i]] < key[g[j]]
  BY <1>5, <1>7 DEF Ascending
<1>10. key[f[k]] < key[f[i]] /\ key[f[k]] \in Int /\ key[f[i]] \in Int
  BY <1>3, <1>5, <1>8, <1>9
<1>11. k < i
  <2>1. ~(i < k)
    BY <1>3, <1>8, <1>10 DEF Ascending
  <2>2. k # i
    BY <1>10
  <2> QED  BY <1>3, <1>8, <2>1, <2>2
<1>12. f[k] = g[k] /\ k \in 1..n
  BY <1>3, <1>8, <1>11
<1>13. key[g[k]] < key[g[i]]
  BY <1>7, <1>11, <1>12 DEF Ascending
<1> QED  BY <1>8, <1>10, <1>12, <1>13

\* So a set has only one listing in ascending order.
LEMMA SortedUnique ==
  ASSUME NEW S, NEW key \in [S -> Int], NEW m, NEW n, NEW f, NEW g,
         Lists(f, m, S, key), Lists(g, n, S, key),
         Within(f, m, g, n), Within(g, n, f, m)
  PROVE  m = n /\ f = g
<1>1. StartsAs(f, m, g, n) /\ StartsAs(g, n, f, m)
  BY SortedPrefix
<1>2. m = n
  BY <1>1 DEF Lists, StartsAs
<1> QED  BY <1>1, <1>2 DEF Lists, StartsAs

\* The order R says which elements of S are ahead of which.
Orders(R, S) ==
    /\ \A x \in S : <<x, x>> \notin R
    /\ \A x, y, z \in S : <<x, y>> \in R /\ <<y, z>> \in R => <<x, z>> \in R
    /\ \A x, y \in S : x # y => <<x, y>> \in R \/ <<y, x>> \in R

AheadOf(R, S, x) == {y \in S : <<y, x>> \in R}

\* The first n elements of S.
Top(n, R, S) == {x \in S : Cardinality(AheadOf(R, S, x)) < n}

\* Fewer elements are ahead of an element that is ahead.
LEMMA PlacesAscend ==
  ASSUME NEW S, IsFiniteSet(S), NEW R, Orders(R, S), NEW x \in S, NEW z \in S
  PROVE  /\ Cardinality(AheadOf(R, S, x)) \in Nat
         /\ Cardinality(AheadOf(R, S, x)) < Cardinality(S)
         /\ <<x, z>> \in R
              => Cardinality(AheadOf(R, S, x)) < Cardinality(AheadOf(R, S, z))
<1>1. /\ AheadOf(R, S, x) \in SUBSET S /\ x \notin AheadOf(R, S, x)
      /\ AheadOf(R, S, z) \in SUBSET S
  BY DEF AheadOf, Orders
<1>2. /\ IsFiniteSet(AheadOf(R, S, x)) /\ IsFiniteSet(AheadOf(R, S, z))
      /\ Cardinality(AheadOf(R, S, x)) <= Cardinality(S)
      /\ Cardinality(AheadOf(R, S, x)) = Cardinality(S) => AheadOf(R, S, x) = S
  BY <1>1, FS_Subset
<1>3. /\ Cardinality(AheadOf(R, S, x)) \in Nat /\ Cardinality(S) \in Nat
      /\ Cardinality(AheadOf(R, S, z)) \in Nat
  BY <1>2, FS_CardinalityType
<1>4. Cardinality(AheadOf(R, S, x)) # Cardinality(S)
  BY <1>1, <1>2
<1>5. ASSUME <<x, z>> \in R
      PROVE  Cardinality(AheadOf(R, S, x)) < Cardinality(AheadOf(R, S, z))
  <2>1. AheadOf(R, S, x) \in SUBSET AheadOf(R, S, z)
    BY <1>5 DEF AheadOf, Orders
  <2>2. x \in AheadOf(R, S, z)
    BY <1>5 DEF AheadOf
  <2>3. /\ Cardinality(AheadOf(R, S, x)) <= Cardinality(AheadOf(R, S, z))
        /\ Cardinality(AheadOf(R, S, x)) = Cardinality(AheadOf(R, S, z))
             => AheadOf(R, S, x) = AheadOf(R, S, z)
    BY <1>2, <2>1, FS_Subset
  <2>4. Cardinality(AheadOf(R, S, x)) # Cardinality(AheadOf(R, S, z))
    BY <1>1, <2>2, <2>3
  <2> QED  BY <1>3, <2>3, <2>4
<1> QED  BY <1>2, <1>3, <1>4, <1>5

\* The first n elements are ahead of the others, and there are n of them
\* unless S has fewer: every place is taken once.
LEMMA TopOfOrder ==
  ASSUME NEW S, IsFiniteSet(S), NEW R, Orders(R, S), NEW n \in Nat
  PROVE  /\ IsFiniteSet(Top(n, R, S))
         /\ Cardinality(Top(n, R, S)) = IF n <= Cardinality(S) THEN n
                                        ELSE Cardinality(S)
         /\ \A x \in Top(n, R, S), z \in S \ Top(n, R, S) : <<x, z>> \in R
<1> DEFINE T == Top(n, R, S)
           c == Cardinality(S)
           m == IF n <= c THEN n ELSE c
           place == [x \in S |-> Cardinality(AheadOf(R, S, x))]
<1>1. /\ c \in Nat /\ m \in Nat
      /\ IsFiniteSet(0..(c - 1)) /\ Cardinality(0..(c - 1)) = c
      /\ IsFiniteSet(0..(m - 1)) /\ Cardinality(0..(m - 1)) = m
  <2>1. c \in Nat
    BY FS_CardinalityType
  <2> HIDE DEF c
  <2>2. m \in Nat
    BY <2>1
  <2>3. \A k \in Nat : IsFiniteSet(0..(k - 1)) /\ Cardinality(0..(k - 1)) = k
    <3> SUFFICES ASSUME NEW k \in Nat
                 PROVE  IsFiniteSet(0..(k - 1)) /\ Cardinality(0..(k - 1)) = k
      OBVIOUS
    <3>1. 0 \in Int /\ k - 1 \in Int
      OBVIOUS
    <3>2. IsFiniteSet(0..(k - 1))
      BY <3>1, FS_Interval
    <3>3. Cardinality(0..(k - 1)) = IF 0 > k - 1 THEN 0 ELSE (k - 1) - 0 + 1
      BY <3>1, FS_Interval
    <3> QED  BY <3>2, <3>3
  <2> HIDE DEF m
  <2> QED  BY <2>1, <2>2, <2>3
<1>2. place \in [S -> 0..(c - 1)]
  <2>1. \A x \in S : place[x] \in Nat /\ place[x] < c
    BY PlacesAscend
  <2> HIDE DEF c
  <2> QED  BY <1>1, <2>1
<1>3. \A x, z \in S : <<x, z>> \in R => place[x] < place[z]
  BY PlacesAscend
<1>4. T = {x \in S : place[x] < n}
  BY DEF Top
<1>5. IsFiniteSet(T)
  BY <1>4, FS_Subset
<1> HIDE DEF place, c, T
<1>6. place \in Injection(S, 0..(c - 1))
  <2> SUFFICES ASSUME NEW x \in S, NEW z \in S, place[x] = place[z]  PROVE x = z
    BY <1>2 DEF Injection, IsInjective
  <2>1. place[x] \in Int
    BY <1>1, <1>2
  <2>2. ~(<<x, z>> \in R) /\ ~(<<z, x>> \in R)
    BY <1>3, <2>1
  <2> QED  BY <2>2 DEF Orders
<1>7. place \in Surjection(S, 0..(c - 1))
  BY <1>1, <1>6, FS_Injection DEF c
<1> DEFINE start == [x \in T |-> place[x]]
<1>8. m <= c /\ m <= n /\ (m = n \/ m = c)
  BY <1>1
<1>9. \A x \in T : x \in S /\ place[x] \in 0..(m - 1)
  <2> SUFFICES ASSUME NEW x \in T  PROVE x \in S /\ place[x] \in 0..(m - 1)
    OBVIOUS
  <2>1. x \in S /\ place[x] < n /\ place[x] \in 0..(c - 1)
    BY <1>2, <1>4
  <2> HIDE DEF m
  <2> QED  BY <1>1, <1>8, <2>1
<1>10. start \in Injection(T, 0..(m - 1))
  <2> HIDE DEF m
  <2> QED  BY <1>6, <1>9 DEF Injection, IsInjective
<1>11. start \in Surjection(T, 0..(m - 1))
  <2> SUFFICES ASSUME NEW k \in 0..(m - 1)  PROVE \E x \in T : start[x] = k
    BY <1>9 DEF Surjection
  <2> HIDE DEF m
  <2>1. k \in 0..(c - 1) /\ k < n
    BY <1>1, <1>8
  <2>2. PICK x \in S : place[x] = k
    BY <1>7, <2>1 DEF Surjection
  <2> QED  BY <1>4, <2>1, <2>2
<1>13. Cardinality(T) = m
  <2> HIDE DEF start, m
  <2> QED  BY <1>1, <1>10, <1>11, FS_Injection
<1>14. \A x \in T, z \in S \ T : <<x, z>> \in R
  <2> SUFFICES ASSUME NEW x \in T, NEW z \in S \ T  PROVE <<x, z>> \in R
    OBVIOUS
  <2>1. place[x] < n /\ ~(place[z] < n) /\ x \in S /\ z \in S
    BY <1>4
  <2>2. place[x] \in Int /\ place[z] \in Int
    BY <1>1, <1>2, <2>1
  <2>3. ~(<<z, x>> \in R)
    BY <1>3, <2>1, <2>2
  <2> QED  BY <2>1, <2>3 DEF Orders
<1> QED  BY <1>5, <1>13, <1>14 DEF T, c
============================================================================
