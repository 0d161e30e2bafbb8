----------------------------- MODULE SumTheorems -----------------------------
(***************************************************************************)
(* What the proofs about counters need to know of sums: one more at one    *)
(* place, one place more, and bounds.                                       *)
(***************************************************************************)
EXTENDS Sums, FiniteSetTheorems, TLAPS

LEMMA UnitsAre ==
  ASSUME NEW f, NEW e
  PROVE  e \in Units(f) <=> \E x \in DOMAIN f : \E i \in 1 .. f[x] : e = <<x, i>>
BY DEF Units

\* As many units at a place as its count says.
LEMMA UnitsAt ==
  ASSUME NEW x, NEW n \in Nat
  PROVE  /\ IsFiniteSet({<<x, i>> : i \in 1 .. n})
         /\ Cardinality({<<x, i>> : i \in 1 .. n}) = n
<1> DEFINE at == {<<x, i>> : i \in 1 .. n}
           b  == [i \in 1 .. n |-> <<x, i>>]
<1>1. IsFiniteSet(1 .. n) /\ Cardinality(1 .. n) = n
  BY FS_Interval
<1>2. b \in Bijection(1 .. n, at)
  <2>1. b \in [1 .. n -> at]
    OBVIOUS
  <2>2. \A i, j \in 1 .. n : b[i] = b[j] => i = j
    OBVIOUS
  <2>3. \A e \in at : \E i \in 1 .. n : b[i] = e
    OBVIOUS
  <2> QED BY <2>1, <2>2, <2>3 DEF Bijection, Injection, Surjection, IsInjective
<1>3. ExistsBijection(1 .. n, at)
  BY <1>2 DEF ExistsBijection
<1> QED BY <1>1, <1>3, FS_Bijection

LEMMA UnitsFinite ==
  ASSUME NEW D, IsFiniteSet(D), NEW f \in [D -> Nat]
  PROVE  IsFiniteSet(Units(f))
<1> DEFINE At(x) == {<<x, i>> : i \in 1 .. f[x]}
           All   == {At(x) : x \in D}
           at    == [x \in D |-> At(x)]
<1>1. \A x \in D : IsFiniteSet(At(x))
  BY UnitsAt
<1>2. at \in Surjection(D, All)
  <2> HIDE DEF At
  <2>1. at \in [D -> All]
    OBVIOUS
  <2>2. \A T \in All : \E x \in D : at[x] = T
    OBVIOUS
  <2> QED BY <2>1, <2>2 DEF Surjection
<1>3. IsFiniteSet(All)
  BY <1>2, FS_Surjection
<1>4. \A T \in All : IsFiniteSet(T)
  <2> HIDE DEF At
  <2> QED BY <1>1
<1>5. IsFiniteSet(UNION All)
  BY <1>3, <1>4, FS_UNION
<1> QED BY <1>5 DEF Units

LEMMA SumType ==
  ASSUME NEW D, IsFiniteSet(D), NEW f \in [D -> Nat]
  PROVE  Sum(f) \in Nat
BY UnitsFinite, FS_CardinalityType DEF Sum

\* A sum over nothing.
LEMMA SumEmpty ==
  ASSUME NEW f, DOMAIN f = {}
  PROVE  Sum(f) = 0
BY FS_EmptySet DEF Sum, Units

\* A function that holds nothing.
LEMMA SumZero ==
  ASSUME NEW D, NEW f \in [D -> Nat], \A x \in D : f[x] = 0
  PROVE  Sum(f) = 0
<1>1. Units(f) = {}
  <2>1. \A x \in D : \A i \in 1 .. f[x] : FALSE
    OBVIOUS
  <2> QED BY <2>1, UnitsAre
<1> QED BY <1>1, FS_EmptySet DEF Sum

\* One place more.
LEMMA SumSplit ==
  ASSUME NEW D, IsFiniteSet(D), NEW f \in [D -> Nat], NEW x, x \notin D,
         NEW g \in [D \union {x} -> Nat], \A y \in D : g[y] = f[y]
  PROVE  Sum(g) = Sum(f) + g[x]
<1> DEFINE at == {<<x, i>> : i \in 1 .. g[x]}
<1>1. g[x] \in Nat
  OBVIOUS
<1>2. IsFiniteSet(at) /\ Cardinality(at) = g[x]
  <2> DEFINE n == g[x]
  <2>1. n \in Nat
    BY <1>1
  <2> HIDE DEF n
  <2>2. IsFiniteSet({<<x, i>> : i \in 1 .. n}) /\ Cardinality({<<x, i>> : i \in 1 .. n}) = n
    BY <2>1, UnitsAt
  <2> QED BY <2>2 DEF n
<1>3. IsFiniteSet(Units(f)) /\ Cardinality(Units(f)) \in Nat
  <2>1. IsFiniteSet(Units(f))
    BY UnitsFinite
  <2> QED BY <2>1, FS_CardinalityType
<1>4. Units(g) = Units(f) \union at
  <2>1. ASSUME NEW e PROVE e \in Units(g) <=> e \in Units(f) \/ e \in at
    BY UnitsAre
  <2> QED BY <2>1
<1>5. Units(f) \cap at = {}
  BY UnitsAre
<1>6. Cardinality(Units(g)) = Cardinality(Units(f)) + Cardinality(at) - 0
  <2>1. Cardinality(Units(f) \cap at) = 0
    BY <1>5, FS_EmptySet
  <2>2. Cardinality(Units(f) \union at)
           = Cardinality(Units(f)) + Cardinality(at) - Cardinality(Units(f) \cap at)
    BY <1>2, <1>3, FS_Union
  <2> QED BY <2>1, <2>2, <1>4
<1> QED BY <1>6, <1>1, <1>2, <1>3 DEF Sum

\* One place less.
LEMMA SumWithout ==
  ASSUME NEW D, IsFiniteSet(D), NEW g \in [D -> Nat], NEW x \in D
  PROVE  Sum(g) = Sum([y \in D \ {x} |-> g[y]]) + g[x]
<1> DEFINE f == [y \in D \ {x} |-> g[y]]
<1>1. IsFiniteSet(D \ {x})
  BY FS_RemoveElement
<1>2. f \in [D \ {x} -> Nat] /\ g \in [(D \ {x}) \union {x} -> Nat]
  OBVIOUS
<1>3. \A y \in D \ {x} : g[y] = f[y]
  OBVIOUS
<1> HIDE DEF f
<1>4. Sum(g) = Sum(f) + g[x]
  BY <1>1, <1>2, <1>3, SumSplit
<1> QED BY <1>4 DEF f

\* More at one place.
LEMMA SumUpdate ==
  ASSUME NEW D, IsFiniteSet(D), NEW f \in [D -> Nat], NEW x \in D, NEW g \in [D -> Nat],
         \A y \in D \ {x} : g[y] = f[y]
  PROVE  Sum(g) = Sum(f) + g[x] - f[x]
<1>1. [y \in D \ {x} |-> g[y]] = [y \in D \ {x} |-> f[y]]
  OBVIOUS
<1> DEFINE rest == [y \in D \ {x} |-> f[y]]
<1>2. Sum(g) = Sum(rest) + g[x] /\ Sum(f) = Sum(rest) + f[x]
  BY <1>1, SumWithout
<1>3. Sum(rest) \in Nat
  <2>1. IsFiniteSet(D \ {x}) /\ rest \in [D \ {x} -> Nat]
    BY FS_RemoveElement
  <2> QED BY <2>1, SumType
<1>4. f[x] \in Nat /\ g[x] \in Nat
  OBVIOUS
<1> HIDE DEF rest
<1> QED BY <1>2, <1>3, <1>4

\* One more at one place.
LEMMA SumBump ==
  ASSUME NEW D, IsFiniteSet(D), NEW f \in [D -> Nat], NEW x \in D
  PROVE  Sum([f EXCEPT ![x] = @ + 1]) = Sum(f) + 1
<1> DEFINE g == [f EXCEPT ![x] = @ + 1]
<1>1. g \in [D -> Nat] /\ g[x] = f[x] + 1 /\ \A y \in D \ {x} : g[y] = f[y]
  OBVIOUS
<1> HIDE DEF g
<1>2. Sum(g) = Sum(f) + g[x] - f[x]
  BY <1>1, SumUpdate
<1>3. Sum(f) \in Nat /\ f[x] \in Nat
  BY SumType
<1>4. Sum(g) = Sum(f) + 1
  BY <1>1, <1>2, <1>3
<1> QED BY <1>4 DEF g

\* A smaller function, that may have more places if they hold nothing.
LEMMA SumCovered ==
  ASSUME NEW E, IsFiniteSet(E), NEW g \in [E -> Nat], NEW D, NEW f \in [D -> Nat],
         \A x \in D : f[x] = 0 \/ (x \in E /\ f[x] <= g[x])
  PROVE  Sum(f) <= Sum(g)
<1>1. Units(f) \subseteq Units(g)
  <2> SUFFICES ASSUME NEW e \in Units(f) PROVE e \in Units(g)
    OBVIOUS
  <2>1. PICK x \in D : \E i \in 1 .. f[x] : e = <<x, i>>
    BY UnitsAre
  <2>2. PICK i \in 1 .. f[x] : e = <<x, i>>
    BY <2>1
  <2>3. x \in E /\ i \in 1 .. g[x]
    <3>1. f[x] \in Nat \ {0}
      BY <2>2
    <3>2. x \in E /\ f[x] <= g[x] /\ g[x] \in Nat
      BY <3>1
    <3> QED BY <3>1, <3>2, <2>2
  <2> QED BY <2>2, <2>3, UnitsAre
<1> QED BY <1>1, UnitsFinite, FS_Subset DEF Sum

LEMMA SumLess ==
  ASSUME NEW E, IsFiniteSet(E), NEW g \in [E -> Nat], NEW D \in SUBSET E, NEW f \in [D -> Nat],
         \A x \in D : f[x] <= g[x]
  PROVE  Sum(f) <= Sum(g)
BY SumCovered

\* At least m at every place.
LEMMA SumAtLeast ==
  ASSUME NEW D, IsFiniteSet(D), NEW f \in [D -> Nat], NEW m \in Nat, \A x \in D : m <= f[x]
  PROVE  Cardinality(D) * m <= Sum(f)
<1>1. IsFiniteSet(1 .. m) /\ Cardinality(1 .. m) = m
  BY FS_Interval
<1>2. Cardinality(D \X (1 .. m)) = Cardinality(D) * m
  BY <1>1, FS_Product
<1>3. D \X (1 .. m) \subseteq Units(f)
  <2> SUFFICES ASSUME NEW x \in D, NEW i \in 1 .. m PROVE <<x, i>> \in Units(f)
    OBVIOUS
  <2>1. i \in 1 .. f[x]
    <3>1. f[x] \in Nat /\ m <= f[x]
      OBVIOUS
    <3> QED BY <3>1
  <2> QED BY <2>1, UnitsAre
<1> QED BY <1>2, <1>3, UnitsFinite, FS_Subset DEF Sum
=============================================================================
