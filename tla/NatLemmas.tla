----------------------------- MODULE NatLemmas -----------------------------
(***************************************************************************)
(* Least and greatest elements of sets of natural numbers, for the CHOOSE  *)
(* expressions of the models (MAX(slot_number), the parent of a block, the *)
(* first updated slot), and the induction over an interval that follows.   *)
(* The library's induction theorems have operator parameters; these are    *)
(* proved from the well-foundedness of < on Nat, which is stated without   *)
(* one.                                                                    *)
(***************************************************************************)
EXTENDS Ordered, FiniteSetTheorems, WellFoundedInduction, TLAPS

(* A non-empty set of naturals has a least element.                        *)
LEMMA LeastElement ==
  ASSUME NEW T, T \subseteq Nat, T # {}
  PROVE  \E x \in T : \A y \in T : x <= y
<1> DEFINE R == OpToRel(<, Nat)
<1>1. IsWellFoundedOn(R, Nat)
  BY NatLessThanWellFounded
<1>2. \A x, y \in Nat : <<y, x>> \in R <=> y < x
  BY DEF OpToRel
<1> HIDE DEF R
<1>3. PICK x \in T : \A y \in T : ~(<<y, x>> \in R)
  BY <1>1, WFMin
<1>4. ASSUME NEW y \in T PROVE x <= y
  <2>1. x \in Nat /\ y \in Nat
    OBVIOUS
  <2>2. ~(y < x)
    BY <1>2, <1>3, <2>1
  <2> QED
    BY <2>1, <2>2
<1> QED
  BY <1>4

(* A non-empty bounded set of naturals has a greatest element.             *)
LEMMA GreatestElement ==
  ASSUME NEW n \in Nat, NEW T, T \subseteq 0 .. n, T # {}
  PROVE  \E x \in T : \A y \in T : y <= x
<1> DEFINE Mirror == {n - x : x \in T}
<1>1. Mirror \subseteq Nat
  OBVIOUS
<1>2. Mirror # {}
  <2>1. PICK x : x \in T
    OBVIOUS
  <2>2. n - x \in Mirror
    BY <2>1
  <2>3. QED
    BY <2>2
<1>3. PICK m \in Mirror : \A k \in Mirror : m <= k
  <2> HIDE DEF Mirror
  <2>1. QED
    BY <1>1, <1>2, LeastElement
<1>4. PICK x \in T : m = n - x
  OBVIOUS
<1>5. ASSUME NEW y \in T PROVE y <= x
  <2>1. n - y \in Mirror
    OBVIOUS
  <2>2. m <= n - y
    BY <1>3, <2>1
  <2>3. QED
    BY <1>4, <2>2
<1>6. QED
  BY <1>5

(* Induction over an interval, with the set of the numbers that are done   *)
(* in the place of a predicate.                                            *)
LEMMA IntervalInduction ==
  ASSUME NEW n \in Nat, NEW Done, 0 \in Done,
         \A k \in 1 .. n : k - 1 \in Done => k \in Done
  PROVE  0 .. n \subseteq Done
<1> DEFINE Left == (0 .. n) \ Done
<1>1. Left \subseteq Nat
  OBVIOUS
<1>2. SUFFICES ASSUME Left # {} PROVE FALSE
  OBVIOUS
<1>3. PICK k \in Left : \A j \in Left : k <= j
  <2> HIDE DEF Left
  <2>1. QED
    BY <1>1, <1>2, LeastElement
<1>4. k # 0 /\ k - 1 \in 0 .. n /\ k - 1 \notin Left
  BY <1>3
<1>5. QED
  BY <1>4

-----------------------------------------------------------------------------
(* Numbers in order.                                                       *)

Increasing(f, n, S) == f \in [1 .. n -> S] /\ \A i, j \in 1 .. n : i < j => f[i] < f[j]

(* A finite set of numbers can be put in order.                            *)
LEMMA OrderExists ==
  ASSUME NEW S, S \subseteq Nat, IsFiniteSet(S)
  PROVE  \E f : Increasing(f, Cardinality(S), S)
<1> DEFINE N == Cardinality(S)
           Sorted == {n \in 0 .. N : \A T \in SUBSET S : Cardinality(T) = n => \E f : Increasing(f, n, T)}
<1>1. N \in Nat
  BY FS_CardinalityType
<1>2. 0 \in Sorted
  <2>1. ASSUME NEW T \in SUBSET S PROVE \E f : Increasing(f, 0, T)
    <3>1. Increasing([i \in {} |-> 0], 0, T)
      BY DEF Increasing
    <3> QED
      BY <3>1
  <2> QED
    BY <1>1, <2>1
<1>3. ASSUME NEW k \in 1 .. N, k - 1 \in Sorted PROVE k \in Sorted
  <2> SUFFICES ASSUME NEW T \in SUBSET S, Cardinality(T) = k PROVE \E f : Increasing(f, k, T)
    BY <1>1, <1>3
  <2>0. k \in Nat \ {0} /\ T \subseteq Nat
    BY <1>1
  <2>1. IsFiniteSet(T)
    BY FS_Subset
  <2>2. T # {}
    BY <2>0, <2>1, FS_EmptySet
  <2>3. PICK m \in T : \A x \in T : m <= x
    BY <2>0, <2>2, LeastElement
  <2> DEFINE U == T \ {m}
  <2>4. Cardinality(U) = k - 1 /\ U \in SUBSET S
    BY <2>0, <2>1, FS_RemoveElement
  <2>5. PICK g : Increasing(g, k - 1, U)
    BY <1>3, <2>4
  <2> DEFINE f == [i \in 1 .. k |-> IF i = 1 THEN m ELSE g[i - 1]]
  <2>6. ASSUME NEW i \in 1 .. (k - 1) PROVE g[i] \in T /\ m < g[i] /\ g[i] \in Nat /\ m \in Nat
    <3>1. g[i] \in U
      BY <2>5 DEF Increasing
    <3>2. g[i] \in T /\ g[i] # m /\ g[i] \in Nat /\ m \in Nat
      BY <2>0, <3>1
    <3> QED
      BY <2>3, <3>2
  <2>7. f \in [1 .. k -> T]
    <3>1. ASSUME NEW i \in 1 .. k PROVE f[i] \in T
      <4>1. CASE i = 1
        BY <4>1
      <4>2. CASE i # 1
        <5>1. i - 1 \in 1 .. (k - 1)
          BY <2>0, <4>2
        <5> QED
          BY <2>6, <4>2, <5>1
      <4> QED
        BY <4>1, <4>2
    <3> QED
      BY <3>1
  <2>8. ASSUME NEW i \in 1 .. k, NEW j \in 1 .. k, i < j PROVE f[i] < f[j]
    <3>1. j - 1 \in 1 .. (k - 1) /\ f[j] = g[j - 1]
      BY <2>0, <2>8
    <3>2. CASE i = 1
      BY <2>6, <3>1, <3>2
    <3>3. CASE i # 1
      <4>1. i - 1 \in 1 .. (k - 1) /\ f[i] = g[i - 1] /\ i - 1 < j - 1
        BY <2>0, <2>8, <3>3
      <4> QED
        BY <2>5, <3>1, <4>1 DEF Increasing
    <3> QED
      BY <3>2, <3>3
  <2> QED
    BY <2>7, <2>8 DEF Increasing
<1>4. N \in Sorted
  <2> HIDE DEF Sorted
  <2>1. 0 .. N \subseteq Sorted
    BY <1>1, <1>2, <1>3, IntervalInduction
  <2> QED
    BY <1>1, <2>1
<1> QED
  BY <1>4

(* InOrder lists a set once, in increasing order.                          *)
LEMMA InOrderFacts ==
  ASSUME NEW S, S \subseteq Nat, IsFiniteSet(S)
  PROVE  /\ Cardinality(S) \in Nat
         /\ InOrder(S) \in [1 .. Cardinality(S) -> S]
         /\ \A i, j \in 1 .. Cardinality(S) : i < j => InOrder(S)[i] < InOrder(S)[j]
         /\ \A x \in S : \E i \in 1 .. Cardinality(S) : InOrder(S)[i] = x
<1> DEFINE N == Cardinality(S)
           f == InOrder(S)
<1>1. PICK g : Increasing(g, N, S)
  BY OrderExists
<1>2. \E g2 \in [1 .. N -> S] : \A i, j \in 1 .. N : i < j => g2[i] < g2[j]
  BY <1>1 DEF Increasing
<1>3. f \in [1 .. N -> S] /\ \A i, j \in 1 .. N : i < j => f[i] < f[j]
  BY <1>2, Zenon DEF InOrder
<1>4. N \in Nat
  BY FS_CardinalityType
<1> HIDE DEF N, f
<1> DEFINE Image == {f[i] : i \in 1 .. N}
<1>5. \A i, j \in 1 .. N : f[i] = f[j] => i = j
  <2> SUFFICES ASSUME NEW i \in 1 .. N, NEW j \in 1 .. N, i # j PROVE f[i] # f[j]
    OBVIOUS
  <2>1. f[i] \in Nat /\ f[j] \in Nat
    BY <1>3
  <2>2. i < j \/ j < i
    BY <1>4
  <2> QED
    BY <1>3, <2>1, <2>2
<1>6. Image \subseteq S
  BY <1>3
<1>7. f \in Bijection(1 .. N, Image)
  <2>1. f \in [1 .. N -> Image]
    BY <1>3
  <2> QED
    BY <1>5, <2>1 DEF Bijection, Injection, Surjection, IsInjective
<1>8. ExistsBijection(1 .. N, Image)
  BY <1>7 DEF ExistsBijection
<1>9. IsFiniteSet(Image) /\ Cardinality(Image) = N
  BY <1>4, <1>8, FS_CountingElements, FS_NatBijection
<1>10. Image = S
  BY <1>6, <1>9, FS_Subset DEF N
<1> QED
  BY <1>3, <1>4, <1>10 DEF N, f

-----------------------------------------------------------------------------
(* Functions on an interval that are defined by recursion.                 *)

(* Two functions that start alike and continue alike are equal.            *)
LEMMA SameRecursion ==
  ASSUME NEW n \in Nat, NEW f, NEW g, f[0] = g[0],
         \A k \in 1 .. n : f[k - 1] = g[k - 1] => f[k] = g[k]
  PROVE  \A k \in 0 .. n : f[k] = g[k]
<1> DEFINE Done == {k \in 0 .. n : f[k] = g[k]}
<1>1. 0 \in Done /\ \A k \in 1 .. n : k - 1 \in Done => k \in Done
  OBVIOUS
<1> HIDE DEF Done
<1>2. 0 .. n \subseteq Done
  BY <1>1, IntervalInduction
<1> QED
  BY <1>2 DEF Done

Alike(f, g, n) == f[0] = g[0] /\ \A k \in 1 .. n : f[k - 1] = g[k - 1] => f[k] = g[k]
Equal(f, g, n) == \A k \in 0 .. n : f[k] = g[k]

LEMMA AlikeEqual ==
  ASSUME NEW n \in Nat, NEW f, NEW g, Alike(f, g, n)
  PROVE  Equal(f, g, n)
  BY SameRecursion DEF Alike, Equal

(* Numbers have running totals.                                            *)
Totals(f, m, v) == f \in [0 .. m -> Nat] /\ f[0] = 0 /\ \A k \in 1 .. m : f[k] = f[k - 1] + v[k]

LEMMA TotalsExist ==
  ASSUME NEW n \in Nat, NEW v, \A k \in 1 .. n : v[k] \in Nat
  PROVE  \E f : Totals(f, n, v)
<1> DEFINE Done == {m \in 0 .. n : \E f : Totals(f, m, v)}
<1>1. 0 \in Done
  <2>1. Totals([k \in 0 .. 0 |-> 0], 0, v)
    BY DEF Totals
  <2> QED
    BY <2>1
<1>2. ASSUME NEW m \in 1 .. n, m - 1 \in Done PROVE m \in Done
  <2>1. PICK f : Totals(f, m - 1, v)
    BY <1>2
  <2> DEFINE g == [k \in 0 .. m |-> IF k = m THEN f[m - 1] + v[m] ELSE f[k]]
  <2>2. f[m - 1] \in Nat /\ v[m] \in Nat
    BY <2>1 DEF Totals
  <2>3. g \in [0 .. m -> Nat] /\ g[0] = 0
    BY <2>1, <2>2 DEF Totals
  <2>4. ASSUME NEW k \in 1 .. m PROVE g[k] = g[k - 1] + v[k]
    <3>1. CASE k = m
      BY <3>1
    <3>2. CASE k # m
      <4>1. k \in 1 .. (m - 1) /\ k - 1 \in 0 .. m /\ k - 1 # m
        BY <3>2
      <4>2. g[k] = f[k] /\ g[k - 1] = f[k - 1]
        BY <3>2, <4>1
      <4> QED
        BY <2>1, <4>1, <4>2 DEF Totals
    <3> QED
      BY <3>1, <3>2
  <2> HIDE DEF g
  <2>5. Totals(g, m, v)
    BY <2>3, <2>4 DEF Totals
  <2> QED
    BY <2>5
<1> HIDE DEF Done
<1>3. n \in Done
  <2>1. 0 .. n \subseteq Done
    BY <1>1, <1>2, IntervalInduction
  <2> QED
    BY <2>1
<1> QED
  BY <1>3 DEF Done

(* f[k] is step applied k times to a.                                      *)
Iterates(f, step, a, S, n) ==
  f \in [0 .. n -> S] /\ f[0] = a /\ \A k \in 1 .. n : f[k] = step[f[k - 1]]

(* A function can be iterated.                                             *)
LEMMA IterationExists ==
  ASSUME NEW n \in Nat, NEW S, NEW step \in [S -> S], NEW a \in S
  PROVE  \E f : Iterates(f, step, a, S, n)
<1> DEFINE Done == {m \in 0 .. n : \E f : Iterates(f, step, a, S, m)}
<1>1. 0 \in Done
  <2> DEFINE f == [k \in 0 .. 0 |-> a]
  <2>1. f \in [0 .. 0 -> S] /\ f[0] = a /\ 1 .. 0 = {}
    OBVIOUS
  <2> HIDE DEF f
  <2>2. Iterates(f, step, a, S, 0)
    BY <2>1 DEF Iterates
  <2> QED
    BY <2>2
<1>2. ASSUME NEW m \in 1 .. n, m - 1 \in Done PROVE m \in Done
  <2>1. PICK f : Iterates(f, step, a, S, m - 1)
    BY <1>2
  <2>2. f \in [0 .. (m - 1) -> S] /\ f[0] = a /\ \A k \in 1 .. (m - 1) : f[k] = step[f[k - 1]]
    BY <2>1 DEF Iterates
  <2>3. f[m - 1] \in S
    BY <2>2
  <2> DEFINE g == [k \in 0 .. m |-> IF k = m THEN step[f[m - 1]] ELSE f[k]]
  <2>4. \A k \in 0 .. m : k # m => k \in 0 .. (m - 1)
    OBVIOUS
  <2>5. g \in [0 .. m -> S]
    BY <2>2, <2>3, <2>4
  <2>6. g[0] = a
    BY <2>2
  <2>7. ASSUME NEW k \in 1 .. m PROVE g[k] = step[g[k - 1]]
    <3>1. k - 1 \in 0 .. m /\ k - 1 # m /\ k \in 0 .. m
      OBVIOUS
    <3>2. g[k - 1] = f[k - 1]
      BY <3>1
    <3>3. CASE k = m
      BY <3>1, <3>2, <3>3
    <3>4. CASE k # m
      <4>1. k \in 1 .. (m - 1)
        BY <3>4
      <4>2. g[k] = f[k]
        BY <3>1, <3>4
      <4> QED
        BY <2>2, <3>2, <4>1, <4>2
    <3> QED
      BY <3>3, <3>4
  <2> HIDE DEF g
  <2>8. Iterates(g, step, a, S, m)
    BY <2>5, <2>6, <2>7 DEF Iterates
  <2>9. m \in 0 .. n
    OBVIOUS
  <2> QED
    BY <2>8, <2>9
<1> HIDE DEF Done
<1>3. 0 .. n \subseteq Done
  BY <1>1, <1>2, IntervalInduction
<1>4. n \in Done
  BY <1>3
<1> QED
  BY <1>4 DEF Done
=============================================================================
