----------------------------- MODULE SumsProofs -----------------------------
(***************************************************************************)
(* What the invariants need to know about Sum, about the smallest and the  *)
(* largest number of a set, and about functions that a recursion defines.  *)
(***************************************************************************)
EXTENDS Sums, FiniteSetTheorems, WellFoundedInduction, TLAPS

\* The coins of one element: as many as the function says.
LEMMA OnePile ==
  ASSUME NEW x, NEW n \in Nat
  PROVE  IsFiniteSet({x} \X (1..n)) /\ Cardinality({x} \X (1..n)) = n
<1>1. IsFiniteSet({x}) /\ Cardinality({x}) = 1
  BY FS_Singleton
<1>2. IsFiniteSet(1..n) /\ Cardinality(1..n) = n
  BY FS_Interval
<1>3. /\ IsFiniteSet({x} \X (1..n))
      /\ Cardinality({x} \X (1..n)) = Cardinality({x}) * Cardinality(1..n)
  BY <1>1, <1>2, FS_Product, Zenon
<1>4. 1 * n = n
  OBVIOUS
<1>5. QED
  BY <1>1, <1>2, <1>3, <1>4

\* The coins of a finite set of elements are finitely many.
LEMMA CoinsFinite ==
  ASSUME NEW S, IsFiniteSet(S), NEW f, \A x \in S : f[x] \in Nat
  PROVE  IsFiniteSet(Coins(f, S))
<1> DEFINE pile == [x \in S |-> {x} \X (1..f[x])]
           piles == {{x} \X (1..f[x]) : x \in S}
<1>1. pile \in Surjection(S, piles)
  BY DEF Surjection
<1>2. IsFiniteSet(piles)
  BY <1>1, FS_Surjection
<1>3. \A P \in piles : IsFiniteSet(P)
  <2>1. \A x \in S : IsFiniteSet({x} \X (1..f[x]))
    BY OnePile
  <2>2. QED
    BY <2>1, Zenon
<1>4. QED
  BY <1>2, <1>3, FS_UNION DEF Coins

\* A sum is a natural number.
LEMMA SumType ==
  ASSUME NEW S, IsFiniteSet(S), NEW f, \A x \in S : f[x] \in Nat
  PROVE  Sum(f, S) \in Nat
BY CoinsFinite, FS_CardinalityType DEF Sum

\* Functions that agree on S have the same sum over S.
LEMMA SumSame ==
  ASSUME NEW S, NEW f, NEW g, \A x \in S : f[x] = g[x]
  PROVE  Sum(f, S) = Sum(g, S)
<1>1. Coins(f, S) = Coins(g, S)
  BY DEF Coins
<1>2. QED
  BY <1>1 DEF Sum

\* The sum over the empty set, and of a function that is 0 everywhere, is 0.
LEMMA SumZero ==
  ASSUME NEW S, NEW f, \A x \in S : f[x] = 0
  PROVE  Sum(f, S) = 0
<1>1. \A x \in S : {x} \X (1..f[x]) = {}
  BY SMT
<1>2. Coins(f, S) = {}
  BY <1>1 DEF Coins
<1>3. QED
  BY <1>2, FS_EmptySet DEF Sum

\* Elements that add nothing may be left out.
LEMMA SumSupport ==
  ASSUME NEW S, NEW T \in SUBSET S, NEW f, \A x \in S \ T : f[x] = 0
  PROVE  Sum(f, S) = Sum(f, T)
<1>1. \A x \in S \ T : {x} \X (1..f[x]) = {}
  BY SMT
<1>2. Coins(f, S) = Coins(f, T)
  <2>1. \A c : c \in Coins(f, S) <=> \E x \in S : c \in {x} \X (1..f[x])
    BY DEF Coins
  <2>2. \A c : c \in Coins(f, T) <=> \E x \in T : c \in {x} \X (1..f[x])
    BY DEF Coins
  <2>3. \A c : c \in Coins(f, S) <=> c \in Coins(f, T)
    BY <1>1, <2>1, <2>2, Zenon
  <2>4. QED
    BY <2>3
<1>3. QED
  BY <1>2 DEF Sum

\* A sum over S splits into one element and the rest.
LEMMA SumSplit ==
  ASSUME NEW S, IsFiniteSet(S), NEW f, \A x \in S : f[x] \in Nat, NEW y \in S
  PROVE  Sum(f, S) = f[y] + Sum(f, S \ {y})
<1> DEFINE T == S \ {y}
           P == {y} \X (1..f[y])
           C == Coins(f, T)
<1>1. IsFiniteSet(T) /\ \A x \in T : f[x] \in Nat
  BY FS_RemoveElement
<1>2. IsFiniteSet(C)
  BY <1>1, CoinsFinite
<1>3. IsFiniteSet(P) /\ Cardinality(P) = f[y]
  BY OnePile
<1>4. P \cap C = {}
  BY DEF Coins
<1>5. Coins(f, S) = P \cup C
  BY DEF Coins
<1>6. Cardinality(P \cup C) = Cardinality(P) + Cardinality(C) - Cardinality(P \cap C)
  BY <1>2, <1>3, FS_Union
<1>7. Cardinality(P \cap C) = 0
  BY <1>4, FS_EmptySet
<1>8. Cardinality(C) \in Nat
  BY <1>2, FS_CardinalityType
<1>9. QED
  BY <1>3, <1>5, <1>6, <1>7, <1>8 DEF Sum

\* Changing a function at one element changes its sum by the difference.
LEMMA SumUpdate ==
  ASSUME NEW S, IsFiniteSet(S), NEW f, NEW g, NEW y \in S,
         \A x \in S : f[x] \in Nat,
         \A x \in S : g[x] \in Nat,
         \A x \in S \ {y} : g[x] = f[x]
  PROVE  Sum(g, S) = Sum(f, S) - f[y] + g[y]
<1>1. Sum(f, S) = f[y] + Sum(f, S \ {y})
  BY SumSplit
<1>2. Sum(g, S) = g[y] + Sum(g, S \ {y})
  BY SumSplit
<1>3. Sum(g, S \ {y}) = Sum(f, S \ {y})
  BY SumSame
<1>4. Sum(f, S \ {y}) \in Nat
  BY SumType, FS_RemoveElement
<1>5. QED
  BY <1>1, <1>2, <1>3, <1>4

\* No element exceeds the sum.
LEMMA SumBound ==
  ASSUME NEW S, IsFiniteSet(S), NEW f, \A x \in S : f[x] \in Nat, NEW y \in S
  PROVE  f[y] <= Sum(f, S)
<1>1. Sum(f, S \ {y}) \in Nat
  BY SumType, FS_RemoveElement
<1>2. QED
  BY <1>1, SumSplit

\* A sum stays the same when its terms are given other names.
LEMMA SumRenamed ==
  ASSUME NEW S, IsFiniteSet(S), NEW f, \A x \in S : f[x] \in Nat, NEW T, NEW g,
         NEW h \in Bijection(S, T), \A x \in S : g[h[x]] = f[x]
  PROVE  Sum(g, T) = Sum(f, S)
<1> DEFINE From == Coins(f, S)
           To == Coins(g, T)
           k == [c \in From |-> <<h[c[1]], c[2]>>]
<1>1. /\ \A x \in S : h[x] \in T
      /\ \A x, y \in S : h[x] = h[y] => x = y
      /\ \A t \in T : \E x \in S : h[x] = t
  BY DEF Bijection, Injection, IsInjective, Surjection
<1>2. \A c : c \in From <=> \E x \in S : \E n \in 1..f[x] : c = <<x, n>>
  BY DEF Coins
<1>3. \A c : c \in To <=> \E t \in T : \E n \in 1..g[t] : c = <<t, n>>
  BY DEF Coins
<1> HIDE DEF From, To
<1>4. ASSUME NEW c \in From PROVE k[c] \in To
  <2>1. PICK x \in S : \E n \in 1..f[x] : c = <<x, n>>
    BY <1>2
  <2>4. PICK n \in 1..f[x] : c = <<x, n>>
    BY <2>1
  <2>2. k[c] = <<h[x], n>>
    BY <2>4
  <2>3. h[x] \in T /\ n \in 1..g[h[x]]
    BY <1>1
  <2> QED
    BY <1>3, <2>2, <2>3
<1>5. ASSUME NEW c \in From, NEW d \in From, k[c] = k[d] PROVE c = d
  <2>1. PICK x \in S : \E n \in 1..f[x] : c = <<x, n>>
    BY <1>2
  <2>2. PICK y \in S : \E n \in 1..f[y] : d = <<y, n>>
    BY <1>2
  <2>5. PICK n \in 1..f[x] : c = <<x, n>>
    BY <2>1
  <2>6. PICK m \in 1..f[y] : d = <<y, m>>
    BY <2>2
  <2>3. k[c] = <<h[x], n>> /\ k[d] = <<h[y], m>>
    BY <2>5, <2>6
  <2>4. h[x] = h[y] /\ n = m
    BY <1>5, <2>3
  <2> QED
    BY <1>1, <2>4, <2>5, <2>6
<1>6. ASSUME NEW c \in To PROVE \E d \in From : k[d] = c
  <2>1. PICK t \in T : \E n \in 1..g[t] : c = <<t, n>>
    BY <1>3
  <2>6. PICK n \in 1..g[t] : c = <<t, n>>
    BY <2>1
  <2>2. PICK x \in S : h[x] = t
    BY <1>1
  <2>3. n \in 1..f[x]
    BY <2>2, <2>6
  <2>4. <<x, n>> \in From
    BY <1>2, <2>3
  <2>5. k[<<x, n>>] = c
    BY <2>2, <2>4, <2>6
  <2> QED
    BY <2>4, <2>5
<1>7. k \in Bijection(From, To)
  <2>1. k \in [From -> To]
    BY <1>4
  <2> HIDE DEF k
  <2> QED
    BY <1>5, <1>6, <2>1 DEF Bijection, Injection, IsInjective, Surjection
<1>8. ExistsBijection(From, To)
  BY <1>7 DEF ExistsBijection
<1>9. IsFiniteSet(From)
  BY CoinsFinite DEF From
<1>10. Cardinality(To) = Cardinality(From)
  BY <1>8, <1>9, FS_Bijection
<1> QED
  BY <1>10 DEF From, To, Sum

----------------------------------------------------------------------------
(* Sets of numbers *)

\* A set of naturals has a smallest one.
LEMMA Smallest ==
  ASSUME NEW T \in SUBSET Nat, T # {}
  PROVE  \E m \in T : \A k \in T : m <= k
<1> DEFINE R == OpToRel(<, Nat)
<1>1. IsWellFoundedOn(R, Nat)
  BY NatLessThanWellFounded, Zenon
<1>2. \A k, m \in Nat : k < m => <<k, m>> \in R
  BY DEF OpToRel
<1> HIDE DEF R
<1>3. \E m \in T : \A k \in T : ~ (<<k, m>> \in R)
  BY <1>1, WFMin
<1>4. \A k, m \in T : ~(k < m) => m <= k
  OBVIOUS
<1> QED
  BY <1>2, <1>3, <1>4

\* A finite one has a largest: a smallest set without one would have it
\* among what is left when an element is taken out, or in that element.
LEMMA Largest ==
  ASSUME NEW S \in SUBSET Nat, IsFiniteSet(S), S # {}
  PROVE  \E m \in S : \A k \in S : k <= m
<1> DEFINE HasMax(T) == \E m \in T : \A k \in T : k <= m
           Bad == {c \in Nat : \E T \in SUBSET S : T # {} /\ Cardinality(T) = c /\ ~HasMax(T)}
<1> SUFFICES ASSUME ~HasMax(S) PROVE FALSE
  OBVIOUS
<1>1. \A T \in SUBSET S : IsFiniteSet(T) /\ Cardinality(T) \in Nat
  BY FS_Subset, FS_CardinalityType
<1>2. Cardinality(S) \in Bad
  BY <1>1
<1>3. PICK c \in Bad : \A d \in Bad : c <= d
  <2> HIDE DEF Bad
  <2>1. Bad \in SUBSET Nat
    BY DEF Bad
  <2> QED
    BY <1>2, <2>1, Smallest
<1>4. PICK T \in SUBSET S : T # {} /\ Cardinality(T) = c /\ ~HasMax(T)
  BY <1>3
<1>5. PICK x \in T : TRUE
  BY <1>4
<1> DEFINE R == T \ {x}
<1>6. R \in SUBSET S /\ Cardinality(R) = c - 1 /\ c - 1 \in Nat /\ ~(c <= c - 1)
  <2>1. Cardinality(R) = Cardinality(T) - 1
    BY <1>1, <1>4, <1>5, FS_RemoveElement
  <2>2. Cardinality(R) \in Nat /\ c \in Nat
    BY <1>1, <1>3
  <2> QED
    BY <1>4, <2>1, <2>2
<1>7. R = {} \/ HasMax(R)
  BY <1>3, <1>6
<1>8. T \in SUBSET Nat /\ T = R \cup {x} /\ x \in Nat
  BY <1>4, <1>5
<1>9. HasMax(T)
  <2> HIDE DEF R
  <2>1. CASE R = {}
    BY <1>8, <2>1
  <2>2. CASE R # {}
    <3>1. PICK m \in R : \A k \in R : k <= m
      BY <1>7, <2>2
    <3>2. CASE x <= m
      BY <1>8, <3>1, <3>2
    <3>3. CASE ~(x <= m)
      <4>1. m \in Nat /\ \A k \in R : k \in Nat
        BY <1>8, <3>1
      <4>2. \A k \in R : k <= x
        BY <1>8, <3>1, <3>3, <4>1
      <4> QED
        BY <1>8, <4>2
    <3> QED
      BY <3>2, <3>3
  <2> QED
    BY <2>1, <2>2
<1> QED
  BY <1>4, <1>9

\* Two elements of a set of one are the same.
LEMMA AtMostOne ==
  ASSUME NEW S, IsFiniteSet(S), Cardinality(S) <= 1, NEW x \in S, NEW y \in S
  PROVE  x = y
<1>1. IsFiniteSet(S \ {x}) /\ Cardinality(S \ {x}) = Cardinality(S) - 1
  BY FS_RemoveElement
<1>2. Cardinality(S \ {x}) \in Nat /\ Cardinality(S) \in Nat
  BY <1>1, FS_CardinalityType
<1>3. Cardinality(S \ {x}) = 0
  BY <1>1, <1>2
<1>4. S \ {x} = {}
  BY <1>1, <1>3, FS_EmptySet
<1> QED
  BY <1>4
----------------------------------------------------------------------------
(* Loops *)

\* Induction up to a number, over a set.
LEMMA UpTo ==
  ASSUME NEW N \in Nat, NEW T, 0 \in T, \A n \in 1..N : n - 1 \in T => n \in T
  PROVE  \A n \in 0..N : n \in T
<1> DEFINE Bad == {n \in 0..N : n \notin T}
<1> SUFFICES ASSUME Bad # {} PROVE FALSE
  OBVIOUS
<1>1. PICK m \in Bad : \A k \in Bad : m <= k
  <2>1. Bad \in SUBSET Nat
    OBVIOUS
  <2> QED
    BY <2>1, Smallest
<1>2. m \in 1..N /\ m - 1 \in 0..N
  OBVIOUS
<1> QED
  BY <1>1, <1>2

\* What N rounds of a loop make of a, round after round.
IsLoop(h, X, a, N, g) ==
  h \in [0..N -> X] /\ h[0] = a /\ \A n \in 1..N : h[n] = g[n][h[n - 1]]

\* A function on 0..N that is given at 0, and at n by its value at n - 1,
\* exists: what a recursive definition needs to mean anything.
LEMMA RecursionExists ==
  ASSUME NEW X, NEW a \in X, NEW N \in Nat, NEW g \in [1..N -> [X -> X]]
  PROVE  \E h : IsLoop(h, X, a, N, g)
<1> DEFINE Good(m) == \E h \in [0..m -> X] : h[0] = a /\ \A n \in 1..m : h[n] = g[n][h[n - 1]]
           T == {m \in 0..N : Good(m)}
<1>1. Good(0)
  <2> DEFINE h == [n \in 0..0 |-> a]
  <2>1. h \in [0..0 -> X] /\ h[0] = a /\ 1..0 = {}
    OBVIOUS
  <2> HIDE DEF h
  <2> QED
    BY <2>1
<1>2. ASSUME NEW m \in 1..N, Good(m - 1) PROVE Good(m)
  <2>1. PICK h \in [0..(m - 1) -> X] : h[0] = a /\ \A n \in 1..(m - 1) : h[n] = g[n][h[n - 1]]
    BY <1>2
  <2> DEFINE longer == [n \in 0..m |-> IF n = m THEN g[m][h[m - 1]] ELSE h[n]]
  <2>2. g[m][h[m - 1]] \in X /\ m - 1 \in Nat
    OBVIOUS
  <2>3. \A n \in 0..m : n = m \/ n \in 0..(m - 1)
    OBVIOUS
  <2>4. longer \in [0..m -> X]
    BY <2>2, <2>3
  <2>5. longer[0] = a
    BY <2>1
  <2>6. longer[m] = g[m][longer[m - 1]]
    BY <2>2
  <2>7. \A n \in 1..(m - 1) : longer[n] = h[n] /\ longer[n - 1] = h[n - 1]
    BY <2>2
  <2>8. \A n \in 1..m : longer[n] = g[n][longer[n - 1]]
    <3> HIDE DEF longer
    <3> QED
      BY <2>1, <2>6, <2>7
  <2> HIDE DEF longer
  <2> QED
    BY <2>4, <2>5, <2>8
<1>3. 0 \in T /\ \A m \in 1..N : m - 1 \in T => m \in T
  <2> HIDE DEF Good
  <2> QED
    BY <1>1, <1>2
<1>4. N \in T
  <2> HIDE DEF T
  <2>1. \A n \in 0..N : n \in T
    BY <1>3, UpTo
  <2> QED
    BY <2>1
<1> QED
  BY <1>4 DEF IsLoop
=============================================================================
