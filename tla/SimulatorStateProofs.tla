------------------------- MODULE SimulatorStateProofs -------------------------
(***************************************************************************)
(* The simulator's heap and execution state, for every set of ids, sizes,  *)
(* threads and methods and every width of the counters and the live size.  *)
(*                                                                         *)
(* Two of the invariants compare counters with sums over sets, which the   *)
(* model takes with MapThenSumSet.  The first part says what that fold is: *)
(* it exists, does not depend on the element it takes first, and changes   *)
(* by one term when one element or one term does.  A set of least size     *)
(* stands in for an induction on the size.                                 *)
(***************************************************************************)
EXTENDS SimulatorState, FiniteSetTheorems, SequenceTheorems, WellFoundedInduction, TLAPS

(* Least numbers and least sets.                                           *)

LEMMA NatMin ==
    ASSUME NEW T, T \subseteq Nat, T # {}
    PROVE  \E x \in T : \A y \in T : x <= y
<1>1. PICK x \in T : \A y \in T : <<y, x>> \notin OpToRel(<, Nat)
  BY NatLessThanWellFounded, WFMin
<1>2. \A y \in T : ~ (y < x)
  BY <1>1 DEF OpToRel
<1>3. x \in Nat /\ \A y \in T : y \in Nat
  OBVIOUS
<1>4. \A y \in T : x <= y
  BY <1>2, <1>3
<1> QED  BY <1>4

LEMMA SmallestSet ==
    ASSUME NEW F, F # {}, \A S \in F : Cardinality(S) \in Nat
    PROVE  \E S \in F : \A T \in F : Cardinality(S) <= Cardinality(T)
<1> DEFINE cards == {Cardinality(S) : S \in F}
<1>1. cards \subseteq Nat /\ cards # {}
  OBVIOUS
<1>2. PICK n \in cards : \A k \in cards : n <= k
  <2> HIDE DEF cards
  <2> QED  BY <1>1, NatMin
<1>3. PICK S \in F : n = Cardinality(S)
  OBVIOUS
<1> QED  BY <1>2, <1>3

LEMMA SmallerSet ==
    ASSUME NEW S, IsFiniteSet(S), NEW s \in SUBSET S
    PROVE  /\ IsFiniteSet(s) /\ Cardinality(s) \in Nat
           /\ s = {} <=> Cardinality(s) = 0
           /\ \A x \in s : /\ s \ {x} \in SUBSET S
                           /\ Cardinality(s \ {x}) = Cardinality(s) - 1
<1>1. IsFiniteSet(s) /\ Cardinality(s) \in Nat /\ (s = {} <=> Cardinality(s) = 0)
  BY FS_Subset, FS_CardinalityType, FS_EmptySet
<1>2. ASSUME NEW x \in s PROVE Cardinality(s \ {x}) = Cardinality(s) - 1
  BY <1>1, FS_RemoveElement
<1> QED  BY <1>1, <1>2

------------------------------------------------------------------------------
(* Sums.                                                                   *)

\* The element that the fold takes first.
Pick(S) == CHOOSE x \in S : TRUE

LEMMA PickType == \A S : S # {} => Pick(S) \in S
BY DEF Pick

\* it gives the sum of f over each subset of S that has at most n elements.
AddsUp(it, f, S, n) ==
    \A s \in SUBSET S : Cardinality(s) <= n =>
        it[s] = IF s = {} THEN 0 ELSE f[Pick(s)] + it[s \ {Pick(s)}]

LEMMA SumsExistUpTo ==
    ASSUME NEW f, NEW S, IsFiniteSet(S)
    PROVE  \A n \in Nat : \E it : AddsUp(it, f, S, n)
<1> DEFINE Bad == {n \in Nat : ~ \E it : AddsUp(it, f, S, n)}
<1>1. SUFFICES ASSUME Bad # {} PROVE FALSE
  OBVIOUS
<1>2. PICK n \in Bad : \A k \in Bad : n <= k
  <2>1. Bad \subseteq Nat
    OBVIOUS
  <2> HIDE DEF Bad
  <2> QED  BY <1>1, <2>1, NatMin
<1>3. n \in Nat /\ ~ \E it : AddsUp(it, f, S, n)
  OBVIOUS
<1>4. \A s \in SUBSET S : /\ Cardinality(s) \in Nat /\ (s = {} <=> Cardinality(s) = 0)
                          /\ \A x \in s : /\ s \ {x} \in SUBSET S
                                          /\ Cardinality(s \ {x}) = Cardinality(s) - 1
  BY SmallerSet
<1>5. CASE n = 0
  <2> DEFINE it == [s \in SUBSET S |-> 0]
  <2>1. AddsUp(it, f, S, n)
    <3> SUFFICES ASSUME NEW s \in SUBSET S, Cardinality(s) <= n PROVE s = {} /\ it[s] = 0
      BY DEF AddsUp
    <3> QED  BY <1>4, <1>5
  <2> QED  BY <1>3, <2>1
<1>6. CASE n # 0
  <2>1. n - 1 \in Nat /\ n - 1 \notin Bad
    BY <1>2, <1>3, <1>6
  <2>2. PICK less : AddsUp(less, f, S, n - 1)
    BY <2>1
  <2> DEFINE it == [s \in SUBSET S |-> IF Cardinality(s) <= n - 1 THEN less[s]
                                       ELSE f[Pick(s)] + less[s \ {Pick(s)}]]
  <2>3. AddsUp(it, f, S, n)
    <3> SUFFICES ASSUME NEW s \in SUBSET S, Cardinality(s) <= n
                 PROVE  it[s] = IF s = {} THEN 0 ELSE f[Pick(s)] + it[s \ {Pick(s)}]
      BY DEF AddsUp
    <3>1. Cardinality(s) \in Nat /\ (s = {} <=> Cardinality(s) = 0)
      BY <1>4
    <3>2. CASE s = {}
      <4>1. Cardinality(s) <= n - 1
        BY <1>3, <1>6, <3>1, <3>2
      <4>2. it[s] = less[s]
        BY <4>1
      <4>3. less[s] = 0
        BY <2>2, <3>2, <4>1 DEF AddsUp
      <4> QED  BY <3>2, <4>2, <4>3
    <3>3. CASE s # {}
      <4>1. Pick(s) \in s
        BY <3>3, PickType
      <4>2. /\ s \ {Pick(s)} \in SUBSET S
            /\ Cardinality(s \ {Pick(s)}) <= n - 1
        BY <1>3, <1>4, <3>1, <4>1
      <4>3. it[s \ {Pick(s)}] = less[s \ {Pick(s)}]
        BY <4>2
      <4>4. it[s] = f[Pick(s)] + less[s \ {Pick(s)}]
        <5>1. CASE Cardinality(s) <= n - 1
          <6>1. it[s] = less[s]
            BY <5>1
          <6> QED  BY <2>2, <3>3, <5>1, <6>1 DEF AddsUp
        <5>2. CASE ~(Cardinality(s) <= n - 1)
          BY <5>2
        <5> QED  BY <5>1, <5>2
      <4> QED  BY <3>3, <4>3, <4>4
    <3> QED  BY <3>2, <3>3
  <2> QED  BY <1>3, <2>3
<1> QED  BY <1>5, <1>6

\* The equation of the fold.
Recurs(it, f, S) ==
    it = [s \in SUBSET S |-> IF s = {} THEN 0 ELSE f[Pick(s)] + it[s \ {Pick(s)}]]

LEMMA SumsExist ==
    ASSUME NEW f, NEW S, IsFiniteSet(S)
    PROVE  \E it : Recurs(it, f, S)
<1>1. Cardinality(S) \in Nat
  BY FS_CardinalityType
<1>2. PICK g : AddsUp(g, f, S, Cardinality(S))
  BY <1>1, SumsExistUpTo
<1> DEFINE it == [s \in SUBSET S |-> g[s]]
<1>3. ASSUME NEW s \in SUBSET S
      PROVE  it[s] = IF s = {} THEN 0 ELSE f[Pick(s)] + it[s \ {Pick(s)}]
  <2>1. Cardinality(s) <= Cardinality(S)
    BY FS_Subset
  <2>2. g[s] = IF s = {} THEN 0 ELSE f[Pick(s)] + g[s \ {Pick(s)}]
    BY <1>2, <2>1 DEF AddsUp
  <2>3. s \ {Pick(s)} \in SUBSET S
    OBVIOUS
  <2> QED  BY <2>2, <2>3
<1>4. it = [s \in SUBSET S |-> IF s = {} THEN 0 ELSE f[Pick(s)] + it[s \ {Pick(s)}]]
  <2>1. it = [s \in SUBSET S |-> it[s]]
    OBVIOUS
  <2> HIDE DEF it
  <2> QED  BY <1>3, <2>1
<1> QED  BY <1>4 DEF Recurs

\* Two functions that agree on a set have the same sum over it, whatever larger
\* sets the sums were defined with.
LEMMA SumsAgree ==
    ASSUME NEW f, NEW S, IsFiniteSet(S), NEW a, Recurs(a, f, S),
           NEW g, NEW T, NEW b, Recurs(b, g, T),
           NEW s, s \subseteq S, s \subseteq T, \A x \in s : f[x] = g[x]
    PROVE  a[s] = b[s]
<1> DEFINE Bad == {u \in SUBSET s : a[u] # b[u]}
<1>1. SUFFICES ASSUME Bad # {} PROVE FALSE
  OBVIOUS
<1>2. \A u \in SUBSET s : /\ u \in SUBSET S /\ u \in SUBSET T
                          /\ Cardinality(u) \in Nat
                          /\ \A x \in u : Cardinality(u \ {x}) = Cardinality(u) - 1
  BY SmallerSet
<1>3. PICK u \in Bad : \A v \in Bad : Cardinality(u) <= Cardinality(v)
  <2>1. \A v \in Bad : Cardinality(v) \in Nat
    BY <1>2
  <2> HIDE DEF Bad
  <2> QED  BY <1>1, <2>1, SmallestSet
<1>4. u \in SUBSET s /\ a[u] # b[u]
  OBVIOUS
<1>5. /\ a[u] = IF u = {} THEN 0 ELSE f[Pick(u)] + a[u \ {Pick(u)}]
      /\ b[u] = IF u = {} THEN 0 ELSE g[Pick(u)] + b[u \ {Pick(u)}]
  <2>1. u \in SUBSET S /\ u \in SUBSET T
    BY <1>2, <1>4
  <2>2. \A v \in SUBSET S : a[v] = IF v = {} THEN 0 ELSE f[Pick(v)] + a[v \ {Pick(v)}]
    BY DEF Recurs
  <2>3. \A v \in SUBSET T : b[v] = IF v = {} THEN 0 ELSE g[Pick(v)] + b[v \ {Pick(v)}]
    BY DEF Recurs
  <2> QED  BY <2>1, <2>2, <2>3
<1>6. u # {}
  BY <1>4, <1>5
<1>7. Pick(u) \in u
  BY <1>6, PickType
<1>8. a[u \ {Pick(u)}] = b[u \ {Pick(u)}]
  <2>1. u \ {Pick(u)} \in SUBSET s /\ Cardinality(u \ {Pick(u)}) = Cardinality(u) - 1
        /\ Cardinality(u) \in Nat
    BY <1>2, <1>4, <1>7
  <2>2. u \ {Pick(u)} \notin Bad
    BY <1>3, <2>1
  <2> QED  BY <2>1, <2>2
<1>9. f[Pick(u)] = g[Pick(u)]
  BY <1>4, <1>7
<1> QED  BY <1>4, <1>5, <1>6, <1>8, <1>9

Sum(f, S) == (CHOOSE it : Recurs(it, f, S))[S]

LEMMA SumSame ==
    ASSUME NEW f, NEW g, NEW S, IsFiniteSet(S), \A x \in S : f[x] = g[x]
    PROVE  Sum(f, S) = Sum(g, S)
<1>1. PICK a : Recurs(a, f, S) /\ a = CHOOSE it : Recurs(it, f, S)
  BY SumsExist
<1>2. PICK b : Recurs(b, g, S) /\ b = CHOOSE it : Recurs(it, g, S)
  BY SumsExist
<1>3. a[S] = b[S]
  BY <1>1, <1>2, SumsAgree
<1> QED  BY <1>1, <1>2, <1>3 DEF Sum

LEMMA SumEmpty == \A f : Sum(f, {}) = 0
<1> SUFFICES ASSUME NEW f PROVE Sum(f, {}) = 0
  OBVIOUS
<1>1. PICK a : Recurs(a, f, {}) /\ a = CHOOSE it : Recurs(it, f, {})
  BY FS_EmptySet, SumsExist
<1>2. \A s \in SUBSET {} : a[s] = IF s = {} THEN 0 ELSE f[Pick(s)] + a[s \ {Pick(s)}]
  BY <1>1 DEF Recurs
<1>3. a[{}] = 0
  BY <1>2
<1> QED  BY <1>1, <1>3 DEF Sum

LEMMA SumPick ==
    ASSUME NEW f, NEW S, IsFiniteSet(S), S # {}
    PROVE  Sum(f, S) = f[Pick(S)] + Sum(f, S \ {Pick(S)})
<1> DEFINE R == S \ {Pick(S)}
<1>1. PICK a : Recurs(a, f, S) /\ a = CHOOSE it : Recurs(it, f, S)
  BY SumsExist
<1>2. IsFiniteSet(R)
  BY FS_Subset
<1>3. PICK b : Recurs(b, f, R) /\ b = CHOOSE it : Recurs(it, f, R)
  BY <1>2, SumsExist
<1>4. \A s \in SUBSET S : a[s] = IF s = {} THEN 0 ELSE f[Pick(s)] + a[s \ {Pick(s)}]
  BY <1>1 DEF Recurs
<1>5. a[S] = f[Pick(S)] + a[R]
  BY <1>4
<1>6. a[R] = b[R]
  <2>1. R \subseteq S /\ R \subseteq R
    OBVIOUS
  <2> HIDE DEF R
  <2>2. ASSUME NEW g, g = f PROVE a[R] = b[R]
    <3>1. Recurs(b, g, R) /\ \A x \in R : f[x] = g[x]
      BY <1>3, <2>2
    <3> QED  BY <1>1, <2>1, <3>1, SumsAgree
  <2> QED  BY <2>2
<1>7. Sum(f, S) = a[S]
  BY <1>1 DEF Sum
<1>8. Sum(f, R) = b[R]
  BY <1>3 DEF Sum
<1> QED  BY <1>5, <1>6, <1>7, <1>8

\* The fold takes its elements in any order.
LEMMA SumRemove ==
    ASSUME NEW f, NEW S, IsFiniteSet(S), \A x \in S : f[x] \in Nat
    PROVE  /\ Sum(f, S) \in Nat
           /\ \A x \in S : Sum(f, S) = f[x] + Sum(f, S \ {x})
<1> DEFINE Good(T) == /\ Sum(f, T) \in Nat
                     /\ \A x \in T : Sum(f, T) = f[x] + Sum(f, T \ {x})
           Bad == {T \in SUBSET S : ~Good(T)}
<1>1. SUFFICES ASSUME Bad # {} PROVE FALSE
  OBVIOUS
<1>2. \A T \in SUBSET S : /\ IsFiniteSet(T) /\ Cardinality(T) \in Nat
                          /\ \A x \in T : /\ T \ {x} \in SUBSET S
                                          /\ Cardinality(T \ {x}) = Cardinality(T) - 1
  BY SmallerSet
<1>3. PICK T \in Bad : \A U \in Bad : Cardinality(T) <= Cardinality(U)
  <2>1. \A U \in Bad : Cardinality(U) \in Nat
    BY <1>2
  <2> HIDE DEF Bad
  <2> QED  BY <1>1, <2>1, SmallestSet
<1>4. T \in SUBSET S /\ ~Good(T) /\ IsFiniteSet(T)
  BY <1>2
<1>5. \A x \in T : Good(T \ {x}) /\ T \ {x} \in SUBSET S /\ f[x] \in Nat
  <2> SUFFICES ASSUME NEW x \in T PROVE T \ {x} \notin Bad /\ T \ {x} \in SUBSET S
    BY <1>4
  <2>1. T \ {x} \in SUBSET S /\ Cardinality(T \ {x}) = Cardinality(T) - 1
        /\ Cardinality(T) \in Nat
    BY <1>2, <1>4
  <2> HIDE DEF Bad
  <2>2. ~(Cardinality(T) <= Cardinality(T \ {x}))
    BY <2>1
  <2> QED  BY <1>3, <2>1, <2>2
<1> HIDE DEF Bad
<1>6. T # {}
  <2> SUFFICES ASSUME T = {} PROVE Good(T)
    BY <1>4
  <2> QED  BY SumEmpty
<1> DEFINE p == Pick(T)
<1>7. p \in T /\ Sum(f, T) = f[p] + Sum(f, T \ {p})
  BY <1>4, <1>6, PickType, SumPick
<1> HIDE DEF p
<1>8. Sum(f, T) \in Nat /\ Sum(f, T \ {p}) \in Nat /\ f[p] \in Nat
  BY <1>5, <1>7
<1>9. ASSUME NEW x \in T PROVE Sum(f, T) = f[x] + Sum(f, T \ {x})
  <2>1. CASE x = p
    BY <1>7, <2>1
  <2>2. CASE x # p
    <3>1. x \in T \ {p} /\ p \in T \ {x} /\ (T \ {p}) \ {x} = (T \ {x}) \ {p}
      BY <1>7, <2>2
    <3>2. Sum(f, T \ {p}) = f[x] + Sum(f, (T \ {x}) \ {p})
      <4>1. Sum(f, T \ {p}) = f[x] + Sum(f, (T \ {p}) \ {x})
        BY <1>5, <1>7, <3>1
      <4> QED  BY <3>1, <4>1
    <3>3. Sum(f, T \ {x}) = f[p] + Sum(f, (T \ {x}) \ {p})
      BY <1>5, <3>1
    <3>4. f[x] \in Nat /\ Sum(f, T \ {x}) \in Nat
      BY <1>5
    <3>5. Sum(f, (T \ {x}) \ {p}) \in Nat
      <4>1. x \in T /\ (T \ {x}) \ {p} = (T \ {p}) \ {x} /\ x \in T \ {p}
        BY <3>1
      <4>2. (T \ {x}) \ {p} \in SUBSET S
        BY <1>4
      <4>3. (T \ {x}) \ {p} \notin Bad
        <5>1. /\ Cardinality(T \ {x}) = Cardinality(T) - 1 /\ T \ {x} \in SUBSET S
              /\ Cardinality(T) \in Nat
          BY <1>2, <1>4
        <5>2. Cardinality((T \ {x}) \ {p}) = Cardinality(T \ {x}) - 1
          BY <1>2, <3>1, <5>1
        <5>3. ~(Cardinality(T) <= Cardinality((T \ {x}) \ {p}))
          BY <5>1, <5>2
        <5> QED  BY <1>3, <5>3
      <4>4. Good((T \ {x}) \ {p})
        BY <4>2, <4>3 DEF Bad
      <4> QED  BY <4>4
    <3> QED  BY <1>7, <1>8, <3>2, <3>3, <3>4, <3>5
  <2> QED  BY <2>1, <2>2
<1> QED  BY <1>4, <1>8, <1>9

LEMMA SumAdd ==
    ASSUME NEW f, NEW S, IsFiniteSet(S), NEW y, y \notin S,
           \A x \in S \cup {y} : f[x] \in Nat
    PROVE  Sum(f, S \cup {y}) = f[y] + Sum(f, S)
<1>1. IsFiniteSet(S \cup {y})
  BY FS_AddElement
<1>2. (S \cup {y}) \ {y} = S /\ y \in S \cup {y}
  OBVIOUS
<1>3. Sum(f, S \cup {y}) = f[y] + Sum(f, (S \cup {y}) \ {y})
  BY <1>1, <1>2, SumRemove
<1> QED  BY <1>2, <1>3

LEMMA SumChange ==
    ASSUME NEW f, NEW g, NEW S, IsFiniteSet(S), NEW y \in S,
           \A x \in S : f[x] \in Nat /\ g[x] \in Nat, \A x \in S \ {y} : f[x] = g[x]
    PROVE  /\ Sum(f, S) \in Nat /\ Sum(g, S) \in Nat
           /\ Sum(g, S) + f[y] = Sum(f, S) + g[y]
           /\ f[y] <= Sum(f, S)
<1>1. IsFiniteSet(S \ {y})
  BY FS_Subset
<1>2. Sum(f, S \ {y}) = Sum(g, S \ {y})
  BY <1>1, SumSame
<1>3. Sum(f, S) = f[y] + Sum(f, S \ {y}) /\ Sum(g, S) = g[y] + Sum(g, S \ {y})
  BY SumRemove
<1>4. f[y] \in Nat /\ g[y] \in Nat /\ Sum(f, S \ {y}) \in Nat
  BY <1>1, SumRemove
<1> QED  BY <1>2, <1>3, <1>4

LEMMA SumSubset ==
    ASSUME NEW f, NEW S, IsFiniteSet(S), \A x \in S : f[x] \in Nat, NEW R \in SUBSET S
    PROVE  Sum(f, R) \in Nat /\ Sum(f, S) \in Nat /\ Sum(f, R) <= Sum(f, S)
<1> DEFINE Bad == {T \in SUBSET S : R \subseteq T /\ ~(Sum(f, R) <= Sum(f, T))}
<1>1. \A T \in SUBSET S : /\ IsFiniteSet(T) /\ Cardinality(T) \in Nat /\ Sum(f, T) \in Nat
                          /\ \A x \in T : /\ T \ {x} \in SUBSET S
                                          /\ Cardinality(T \ {x}) = Cardinality(T) - 1
                                          /\ Sum(f, T) = f[x] + Sum(f, T \ {x})
  BY SmallerSet, SumRemove
<1>2. SUFFICES ASSUME Bad # {} PROVE FALSE
  BY <1>1
<1>3. PICK T \in Bad : \A U \in Bad : Cardinality(T) <= Cardinality(U)
  <2>1. \A U \in Bad : Cardinality(U) \in Nat
    BY <1>1
  <2> HIDE DEF Bad
  <2> QED  BY <1>2, <2>1, SmallestSet
<1>4. T \in SUBSET S /\ R \subseteq T /\ ~(Sum(f, R) <= Sum(f, T)) /\ Sum(f, R) \in Nat
  BY <1>1
<1>5. T # R
  BY <1>4
<1>6. PICK x \in T : x \notin R
  BY <1>4, <1>5
<1>7. /\ T \ {x} \in SUBSET S /\ Cardinality(T \ {x}) = Cardinality(T) - 1
      /\ Cardinality(T) \in Nat /\ Sum(f, T \ {x}) \in Nat /\ f[x] \in Nat
      /\ Sum(f, T) = f[x] + Sum(f, T \ {x})
  BY <1>1, <1>4
<1>8. T \ {x} \notin Bad
  <2> HIDE DEF Bad
  <2> QED  BY <1>3, <1>7
<1>9. R \subseteq T \ {x}
  BY <1>4, <1>6
<1> QED  BY <1>4, <1>7, <1>8, <1>9

------------------------------------------------------------------------------
(* The saturating arithmetic of the live size.                             *)

LEMMA PlusIs ==
    ASSUME NEW a \in 0 .. Long - 1, NEW b \in 0 .. Long - 1
    PROVE  Heap!Plus(a, b) = IF a + b < Long THEN a + b ELSE Long - 1
<1>1. Long \in Nat /\ Long > 0
  BY HeapAssumption
<1>2. CASE a + b < Long
  <2>1. (a + b) % Long = a + b
    BY <1>1, <1>2
  <2> QED  BY <1>1, <1>2, <2>1 DEF Heap!Plus
<1>3. CASE ~(a + b < Long)
  <2>1. (a + b) % Long = a + b - Long
    BY <1>1, <1>3
  <2> QED  BY <1>1, <1>3, <2>1 DEF Heap!Plus
<1> QED  BY <1>2, <1>3

LEMMA MinusIs ==
    ASSUME NEW a \in 0 .. Long - 1, NEW b \in 0 .. Long - 1
    PROVE  Heap!Minus(a, b) = IF a >= b THEN a - b ELSE 0
<1>1. Long \in Nat /\ Long > 0
  BY HeapAssumption
<1>2. CASE a >= b
  <2>1. (a - b) % Long = a - b
    BY <1>1, <1>2
  <2> QED  BY <1>1, <1>2, <2>1 DEF Heap!Minus
<1>3. CASE ~(a >= b)
  <2>1. (a - b) % Long = a - b + Long
    BY <1>1, <1>3
  <2> QED  BY <1>1, <1>3, <2>1 DEF Heap!Minus
<1> QED  BY <1>2, <1>3

LEMMA SizesType ==
    /\ Long \in Nat /\ Long > 0 /\ Word \in Nat \ {0} /\ Sizes \subseteq Nat
    /\ \A bytes \in Sizes : bytes \in 0 .. Long - 1
    /\ Never \in Nat
BY HeapAssumption

------------------------------------------------------------------------------
(* The wrapping arithmetic of the counters.                                *)

LEMMA Quotient ==
    ASSUME NEW n \in Nat
    PROVE  \E q \in Nat, r \in 0 .. Word - 1 : r = Heap!Wrapped(n) /\ n = Word * q + r
<1>1. Word \in Nat \ {0}
  BY SizesType
<1>2. n \div Word \in Nat /\ n % Word \in 0 .. Word - 1 /\ n = Word * (n \div Word) + (n % Word)
  BY <1>1
<1> QED  BY <1>2 DEF Heap!Wrapped

LEMMA WordsApart ==
    ASSUME NEW d \in Int, Word * d < Word, Word * d > 0 - Word
    PROVE  d = 0
<1>1. Word \in Nat \ {0}
  BY SizesType
<1>2. d >= 1 => Word * d >= Word
  BY <1>1
<1>3. d <= -1 => Word * d <= -Word
  BY <1>1
<1>4. ~(d >= 1) /\ ~(d <= -1)
  <2>1. PICK x \in Int : x = Word * d
    BY <1>1
  <2> QED  BY <1>1, <1>2, <1>3, <2>1
<1> QED  BY <1>4

LEMMA Distributes ==
    ASSUME NEW w \in Nat, NEW p \in Nat, NEW q \in Nat, NEW u \in Nat
    PROVE  w * (p + q - u) = w * p + w * q - w * u
OBVIOUS

\* A sum may be wrapped at every step or once.
LEMMA WrapAdd ==
    ASSUME NEW a \in Nat, NEW b \in Nat
    PROVE  Heap!Wrapped(Heap!Wrapped(a) + b) = Heap!Wrapped(a + b)
<1>1. Word \in Nat \ {0}
  BY SizesType
<1>2. PICK p \in Nat, r \in 0 .. Word - 1 : r = Heap!Wrapped(a) /\ a = Word * p + r
  BY Quotient
<1>3. PICK q \in Nat, s \in 0 .. Word - 1 : s = Heap!Wrapped(r + b) /\ r + b = Word * q + s
  <2>1. PICK n \in Nat : n = r + b
    BY <1>1
  <2> QED  BY <2>1, Quotient
<1>4. PICK u \in Nat, v \in 0 .. Word - 1 : v = Heap!Wrapped(a + b) /\ a + b = Word * u + v
  <2>1. PICK n \in Nat : n = a + b
    OBVIOUS
  <2> QED  BY <2>1, Quotient
<1>5. Word * (p + q - u) = v - s
  <2>1. PICK x \in Int, y \in Int, z \in Int : x = Word * p /\ y = Word * q /\ z = Word * u
    BY <1>1
  <2>2. Word * (p + q - u) = x + y - z
    <3>1. Word * (p + q - u) = Word * p + Word * q - Word * u
      BY <1>1, Distributes
    <3> QED  BY ONLY <2>1, <3>1
  <2>3. a = x + r /\ r + b = y + s /\ a + b = z + v
    BY <1>2, <1>3, <1>4, <2>1
  <2>4. r \in Int /\ s \in Int /\ v \in Int
    BY <1>1
  <2>5. v - s = x + y - z
    <3>1. v = a + b - z /\ s = r + b - y /\ a = x + r
      BY <2>1, <2>3, <2>4
    <3> QED  BY ONLY <2>1, <2>4, <3>1, a \in Nat, b \in Nat
  <2> QED  BY <2>2, <2>5
<1>6. p + q - u = 0
  <2>1. p + q - u \in Int /\ v - s < Word /\ v - s > 0 - Word
    BY <1>1
  <2> QED  BY <1>5, <2>1, WordsApart
<1>7. v = s
  <2>1. Word * 0 = 0 /\ v \in Int /\ s \in Int
    BY <1>1
  <2> QED  BY <1>5, <1>6, <2>1
<1> QED  BY <1>2, <1>3, <1>4, <1>7

LEMMA WrapType ==
    ASSUME NEW n \in Nat
    PROVE  Heap!Wrapped(n) \in 0 .. Word - 1 /\ Heap!Wrapped(n) \in Nat
<1>1. Word \in Nat \ {0}
  BY SizesType
<1>2. Heap!Wrapped(n) \in 0 .. Word - 1
  BY Quotient
<1> QED  BY <1>1, <1>2

LEMMA WrapSum ==
    ASSUME NEW a \in Nat, NEW b \in Nat
    PROVE  Heap!Wrapped(Heap!Wrapped(a) + Heap!Wrapped(b)) = Heap!Wrapped(a + b)
<1>1. PICK y \in Nat : y = Heap!Wrapped(b)
  BY WrapType
<1>2. Heap!Wrapped(Heap!Wrapped(a) + y) = Heap!Wrapped(a + y)
  BY WrapAdd
<1>3. Heap!Wrapped(y + a) = Heap!Wrapped(b + a)
  BY <1>1, WrapAdd
<1>4. y + a = a + y /\ b + a = a + b
  OBVIOUS
<1> QED  BY <1>1, <1>2, <1>3, <1>4

LEMMA WrapSum3 ==
    ASSUME NEW a \in Nat, NEW b \in Nat, NEW c \in Nat
    PROVE  Heap!Wrapped(Heap!Wrapped(a) + Heap!Wrapped(b) + Heap!Wrapped(c)) =
           Heap!Wrapped(a + b + c)
<1>1. PICK x \in Nat, y \in Nat, z \in Nat :
         x = Heap!Wrapped(a) /\ y = Heap!Wrapped(b) /\ z = Heap!Wrapped(c)
  BY WrapType
<1>2. x + y \in Nat /\ a + b \in Nat
  OBVIOUS
<1>3. Heap!Wrapped(x + y) = Heap!Wrapped(a + b)
  BY <1>1, WrapSum
<1>4. Heap!Wrapped(Heap!Wrapped(x + y) + z) = Heap!Wrapped(x + y + z)
  BY <1>2, WrapAdd
<1>5. Heap!Wrapped(Heap!Wrapped(a + b) + z) = Heap!Wrapped(a + b + c)
  BY <1>1, <1>2, WrapSum
<1> QED  BY <1>1, <1>3, <1>4, <1>5

------------------------------------------------------------------------------
(* The type of the heap.                                                   *)

LEMMA GetType ==
    ASSUME Heap!HeapTypeOK, NEW i \in DOMAIN m_objects
    PROVE  /\ m_objects[i] \in DOMAIN made
           /\ Heap!Get(i) = made[m_objects[i]] /\ Heap!Get(i) \in Heap!ObjectType
           /\ Heap!Get(i).id = i
<1>1. m_objects[i] \in DOMAIN made
  BY DEF Heap!HeapTypeOK
<1>2. made \in Seq(Heap!ObjectType) /\ Heap!Get(i).id = i
  BY DEF Heap!HeapTypeOK
<1>3. made[m_objects[i]] \in Heap!ObjectType
  BY <1>1, <1>2
<1> QED  BY <1>1, <1>2, <1>3 DEF Heap!Get

LEMMA OneIdEach ==
    ASSUME Heap!HeapTypeOK, NEW i \in DOMAIN m_objects, NEW j \in DOMAIN m_objects, i # j
    PROVE  m_objects[i] # m_objects[j]
BY GetType

LEMMA ObjectIsTyped ==
    ASSUME NEW id \in Ids, NEW bytes \in Sizes, NEW now \in Nat
    PROVE  Heap!Object(id, bytes, now) \in Heap!ObjectType
BY SizesType DEF Heap!Object, Heap!ObjectType, Heap!Reasons, Heap!Events

\* p may stand for o in the heap.
Same(o, p) == p \in Heap!ObjectType /\ p.id = o.id /\ p.size = o.size

LEMMA DiedByType ==
    ASSUME NEW o \in Heap!ObjectType
    PROVE  /\ Same(o, Heap!SetDiedByStack(o)) /\ Same(o, Heap!SetDiedByHeap(o))
           /\ Same(o, Heap!SetDiedByGlobal(o)) /\ Same(o, Heap!SetDiedAtEnd(o))
<1>1. Same(o, Heap!SetDiedByStack(o))
  BY DEF Same, Heap!ObjectType, Heap!Reasons, Heap!SetDiedByStack
<1>2. Same(o, Heap!SetDiedByHeap(o))
  BY DEF Same, Heap!ObjectType, Heap!Reasons, Heap!SetDiedByHeap
<1>3. Same(o, Heap!SetDiedByGlobal(o))
  BY DEF Same, Heap!ObjectType, Heap!Reasons, Heap!SetDiedByGlobal
<1>4. Same(o, Heap!SetDiedAtEnd(o))
  BY DEF Same, Heap!ObjectType, Heap!Reasons, Heap!SetDiedAtEnd
<1> QED  BY <1>1, <1>2, <1>3, <1>4

LEMMA DeadType ==
    ASSUME NEW o \in Heap!ObjectType, NEW time \in Nat, NEW reason \in Heap!Reasons
    PROVE  Same(o, Heap!Dead(o, time, reason))
<1> DEFINE d == [o EXCEPT !.deathTime = time, !.reason = reason, !.dead = TRUE]
<1>1. d \in Heap!ObjectType /\ d.id = o.id /\ d.size = o.size
  BY DEF Heap!ObjectType
<1> HIDE DEF d
<1>2. /\ Same(d, Heap!SetDiedByStack(d)) /\ Same(d, Heap!SetDiedByHeap(d))
      /\ Same(d, Heap!SetDiedByGlobal(d)) /\ Same(d, Heap!SetDiedAtEnd(d))
  BY <1>1, DiedByType
<1>3. Heap!Dead(o, time, reason) \in {Heap!SetDiedByStack(d), Heap!SetDiedByHeap(d),
                                      Heap!SetDiedByGlobal(d), Heap!SetDiedAtEnd(d)}
  BY DEF d, Heap!Dead
<1> QED  BY <1>1, <1>2, <1>3 DEF Same

LEMMA ChangeType ==
    ASSUME Heap!HeapTypeOK, NEW id \in DOMAIN m_objects, NEW o, Same(Heap!Get(id), o)
    PROVE  LET m == [made EXCEPT ![m_objects[id]] = o] IN
           /\ m \in Seq(Heap!ObjectType) /\ Len(m) = Len(made) /\ DOMAIN m = DOMAIN made
           /\ \A i \in DOMAIN m_objects : m[m_objects[i]].id = i
<1> DEFINE m == [made EXCEPT ![m_objects[id]] = o]
<1>1. made \in Seq(Heap!ObjectType) /\ m_objects[id] \in DOMAIN made
      /\ o \in Heap!ObjectType /\ o.id = id
  BY GetType DEF Heap!HeapTypeOK, Same
<1>2. m \in Seq(Heap!ObjectType) /\ Len(m) = Len(made) /\ DOMAIN m = DOMAIN made
  BY <1>1
<1>3. ASSUME NEW i \in DOMAIN m_objects PROVE m[m_objects[i]].id = i
  <2>1. CASE i = id
    BY <1>1, <2>1
  <2>2. CASE i # id
    BY <1>1, <2>2, GetType, OneIdEach
  <2> QED  BY <2>1, <2>2
<1> QED  BY <1>2, <1>3

LEMMA AllocateType ==
    ASSUME Heap!HeapTypeOK, NEW id \in Ids, NEW bytes \in Sizes, NEW now \in Nat,
           Heap!Allocate(id, bytes, now)
    PROVE  Heap!HeapTypeOK'
<1> DEFINE new == Heap!Object(id, bytes, now)
<1>1. new \in Heap!ObjectType /\ new.id = id
  BY ObjectIsTyped DEF Heap!Object
<1>2. /\ made' = Append(made, new) /\ Len(made) < MaxObjects
      /\ m_objects' = [i \in DOMAIN m_objects \cup {id} |->
                          IF i = id THEN Len(made) + 1 ELSE m_objects[i]]
      /\ m_liveSize' = Heap!Plus(m_liveSize, bytes)
      /\ m_maxLiveSize' = IF m_maxLiveSize < m_liveSize' THEN m_liveSize' ELSE m_maxLiveSize
      /\ UNCHANGED <<phase, left, final, total, size, deathSites, again>>
  BY DEF Heap!Allocate
<1> HIDE DEF new
<1>3. /\ made \in Seq(Heap!ObjectType) /\ Len(made) \in Nat /\ DOMAIN made = 1 .. Len(made)
      /\ DOMAIN m_objects \subseteq Ids /\ MaxObjects \in Nat
      /\ \A i \in DOMAIN m_objects : m_objects[i] \in 1 .. Len(made) /\ made[m_objects[i]].id = i
      /\ m_liveSize \in 0 .. Long - 1 /\ m_maxLiveSize \in 0 .. Long - 1
  <2>1. /\ made \in Seq(Heap!ObjectType) /\ DOMAIN m_objects \subseteq Ids /\ MaxObjects \in Nat
        /\ m_liveSize \in 0 .. Long - 1 /\ m_maxLiveSize \in 0 .. Long - 1
    BY HeapAssumption DEF Heap!HeapTypeOK
  <2>2. Len(made) \in Nat /\ DOMAIN made = 1 .. Len(made)
    BY <2>1, LenProperties
  <2>3. \A i \in DOMAIN m_objects : m_objects[i] \in 1 .. Len(made) /\ made[m_objects[i]].id = i
    BY GetType
  <2> QED  BY <2>1, <2>2, <2>3
<1>4. /\ made' \in Seq(Heap!ObjectType) /\ Len(made') = Len(made) + 1
      /\ DOMAIN made' = 1 .. Len(made) + 1
      /\ \A k \in 1 .. Len(made) : made'[k] = made[k]
      /\ made'[Len(made) + 1] = new
  BY <1>1, <1>2, <1>3
<1>5. Len(made') <= MaxObjects
  BY <1>2, <1>3, <1>4
<1>6. DOMAIN m_objects' = DOMAIN m_objects \cup {id} /\ DOMAIN m_objects' \subseteq Ids
  BY <1>2, <1>3
<1>7. \A i \in DOMAIN m_objects' : m_objects'[i] \in DOMAIN made' /\ made'[m_objects'[i]].id = i
  BY <1>1, <1>2, <1>3, <1>4
<1>8. m_objects' \in [DOMAIN m_objects' -> DOMAIN made']
  <2>1. m_objects' = [i \in DOMAIN m_objects' |-> m_objects'[i]]
    BY <1>2
  <2> QED  BY <1>7, <2>1
<1>9. m_liveSize' \in 0 .. Long - 1 /\ m_maxLiveSize' \in 0 .. Long - 1
  <2>1. m_liveSize' \in 0 .. Long - 1
    BY <1>2, <1>3, SizesType, PlusIs
  <2> QED  BY <1>2, <1>3, <2>1
<1>10. /\ phase' \in {"running", "ending"} /\ left' \subseteq DOMAIN m_objects'
       /\ final' \in Nat /\ NoMethod \notin deathSites' /\ again' \in Nat
       /\ total' \in [Heap!Counters -> 0 .. Word - 1]
       /\ size' \in [Heap!Counters -> 0 .. Word - 1]
  BY <1>2, <1>6 DEF Heap!HeapTypeOK
<1> QED  BY <1>4, <1>5, <1>6, <1>7, <1>8, <1>9, <1>10 DEF Heap!HeapTypeOK, Heap!Get

LEMMA AllocateAgainType ==
    ASSUME Heap!HeapTypeOK, NEW k \in DOMAIN made, Heap!AllocateAgain(k)
    PROVE  Heap!HeapTypeOK'
<1>1. /\ m_objects' = [i \in DOMAIN m_objects \cup {made[k].id} |->
                          IF i = made[k].id THEN k ELSE m_objects[i]]
      /\ m_liveSize' = Heap!Plus(m_liveSize, made[k].size)
      /\ m_maxLiveSize' = IF m_maxLiveSize < m_liveSize' THEN m_liveSize' ELSE m_maxLiveSize
      /\ again' = again + made[k].size
      /\ UNCHANGED <<made, phase, left, final, total, size, deathSites>>
  BY DEF Heap!AllocateAgain
<1>2. made[k] \in Heap!ObjectType
  BY DEF Heap!HeapTypeOK
<1>3. made[k].id \in Ids /\ made[k].size \in 0 .. Long - 1 /\ made[k].size \in Nat
  BY <1>2, SizesType DEF Heap!ObjectType
<1>4. /\ DOMAIN m_objects \subseteq Ids /\ DOMAIN m_objects' = DOMAIN m_objects \cup {made[k].id}
      /\ DOMAIN m_objects' \subseteq Ids
  BY <1>1, <1>3 DEF Heap!HeapTypeOK
<1>5. \A i \in DOMAIN m_objects' : m_objects'[i] \in DOMAIN made /\ made[m_objects'[i]].id = i
  <2>1. \A i \in DOMAIN m_objects : m_objects[i] \in DOMAIN made /\ made[m_objects[i]].id = i
    BY GetType
  <2> QED  BY <1>1, <1>4, <2>1
<1>6. m_objects' \in [DOMAIN m_objects' -> DOMAIN made]
  <2>1. m_objects' = [i \in DOMAIN m_objects' |-> m_objects'[i]]
    BY <1>1
  <2> QED  BY <1>5, <2>1
<1>7. m_liveSize' \in 0 .. Long - 1 /\ m_maxLiveSize' \in 0 .. Long - 1
  <2>1. m_liveSize \in 0 .. Long - 1 /\ m_maxLiveSize \in 0 .. Long - 1
    BY DEF Heap!HeapTypeOK
  <2>2. m_liveSize' \in 0 .. Long - 1
    BY <1>1, <1>3, <2>1, SizesType, PlusIs
  <2> QED  BY <1>1, <2>1, <2>2
<1>8. /\ made \in Seq(Heap!ObjectType) /\ Len(made) <= MaxObjects
      /\ phase \in {"running", "ending"} /\ left \subseteq DOMAIN m_objects'
      /\ final \in Nat /\ NoMethod \notin deathSites /\ again' \in Nat
      /\ total \in [Heap!Counters -> 0 .. Word - 1] /\ size \in [Heap!Counters -> 0 .. Word - 1]
  BY <1>1, <1>3, <1>4 DEF Heap!HeapTypeOK
<1> QED  BY <1>1, <1>4, <1>5, <1>6, <1>7, <1>8 DEF Heap!HeapTypeOK, Heap!Get

LEMMA OneChangeType ==
    ASSUME Heap!HeapTypeOK, NEW id \in DOMAIN m_objects, NEW o, Same(Heap!Get(id), o),
           made' = [made EXCEPT ![m_objects[id]] = o],
           UNCHANGED <<m_objects, m_maxLiveSize>>, m_liveSize' \in 0 .. Long - 1,
           phase' \in {"running", "ending"}, left' \subseteq DOMAIN m_objects',
           final' \in Nat, NoMethod \notin deathSites', again' \in Nat,
           total' \in [Heap!Counters -> 0 .. Word - 1],
           size' \in [Heap!Counters -> 0 .. Word - 1]
    PROVE  Heap!HeapTypeOK'
<1>1. /\ made' \in Seq(Heap!ObjectType) /\ Len(made') = Len(made) /\ DOMAIN made' = DOMAIN made
      /\ \A i \in DOMAIN m_objects : made'[m_objects[i]].id = i
  BY ChangeType
<1>2. /\ Len(made) <= MaxObjects /\ DOMAIN m_objects \subseteq Ids
      /\ m_objects \in [DOMAIN m_objects -> DOMAIN made]
      /\ m_maxLiveSize \in 0 .. Long - 1
  BY DEF Heap!HeapTypeOK
<1> QED  BY <1>1, <1>2 DEF Heap!HeapTypeOK, Heap!Get

------------------------------------------------------------------------------
(* What the operations do to one object.                                   *)

Causes == {"STACK", "HEAP", "GLOBAL", "UNKNOWN"}

\* An object before the end of the program: if it is dead, it died by makeDead,
\* not later than time, by one cause; if it is not, it has no flag of a death.
Unsettled(o, time) ==
    /\ o.reason \in Causes /\ ~o.atEnd
    /\ o.dead => /\ o.deathTime <= time
                 /\ o.byStack \/ o.byHeap \/ o.byGlobal
                 /\ ~(o.byStack /\ o.byHeap)
    /\ ~o.dead => ~o.byStack /\ ~o.byHeap /\ ~o.byGlobal

LEMMA SetterIs ==
    ASSUME Heap!HeapTypeOK, NEW id \in DOMAIN m_objects, NEW now \in Nat,
           \/ \E reason \in {"STACK", "HEAP", "GLOBAL"} : Heap!SetReason(id, reason)
           \/ \E event \in {"ROOT", "UPDATE_AWAY_TO_NULL"} : Heap!SetLastEvent(id, event)
           \/ Heap!SetPointedAtByHeap(id)
           \/ Heap!SetDeathTime(id, now)
    PROVE  \E o : /\ Heap!Change(id, o) /\ Same(Heap!Get(id), o)
                  /\ o.dead = Heap!Get(id).dead
                  /\ Unsettled(Heap!Get(id), now) => Unsettled(o, now)
<1> DEFINE p == Heap!Get(id)
<1>1. p \in Heap!ObjectType
  BY GetType
<1> HIDE DEF p
<1>2. CASE \E reason \in {"STACK", "HEAP", "GLOBAL"} : Heap!SetReason(id, reason)
  <2>1. PICK reason \in {"STACK", "HEAP", "GLOBAL"} : Heap!SetReason(id, reason)
    BY <1>2
  <2> DEFINE o == [p EXCEPT !.reason = reason]
  <2>2. Heap!Change(id, o)
    BY <2>1 DEF Heap!SetReason, p
  <2>3. Same(p, o)
    BY <1>1 DEF Same, Heap!ObjectType, Heap!Reasons
  <2>4. o.dead = p.dead /\ (Unsettled(p, now) => Unsettled(o, now))
    BY <1>1 DEF Unsettled, Heap!ObjectType, Causes
  <2> HIDE DEF o
  <2> QED  BY <2>2, <2>3, <2>4 DEF p
<1>3. CASE \E event \in {"ROOT", "UPDATE_AWAY_TO_NULL"} : Heap!SetLastEvent(id, event)
  <2>1. PICK event \in {"ROOT", "UPDATE_AWAY_TO_NULL"} : Heap!SetLastEvent(id, event)
    BY <1>3
  <2> DEFINE o == [p EXCEPT !.lastEvent = event]
  <2>2. Heap!Change(id, o)
    BY <2>1 DEF Heap!SetLastEvent, p
  <2>3. Same(p, o)
    BY <1>1 DEF Same, Heap!ObjectType, Heap!Events
  <2>4. o.dead = p.dead /\ (Unsettled(p, now) => Unsettled(o, now))
    BY <1>1 DEF Unsettled, Heap!ObjectType, Causes
  <2> HIDE DEF o
  <2> QED  BY <2>2, <2>3, <2>4 DEF p
<1>4. CASE Heap!SetPointedAtByHeap(id)
  <2> DEFINE o == [p EXCEPT !.pointedAt = TRUE]
  <2>2. Heap!Change(id, o)
    BY <1>4 DEF Heap!SetPointedAtByHeap, p
  <2>3. Same(p, o)
    BY <1>1 DEF Same, Heap!ObjectType
  <2>4. o.dead = p.dead /\ (Unsettled(p, now) => Unsettled(o, now))
    BY <1>1 DEF Unsettled, Heap!ObjectType, Causes
  <2> HIDE DEF o
  <2> QED  BY <2>2, <2>3, <2>4 DEF p
<1>5. CASE Heap!SetDeathTime(id, now)
  <2> DEFINE o == [p EXCEPT !.deathTime = now]
  <2>2. Heap!Change(id, o)
    BY <1>5 DEF Heap!SetDeathTime, p
  <2>3. Same(p, o)
    BY <1>1 DEF Same, Heap!ObjectType
  <2>4. o.dead = p.dead /\ (Unsettled(p, now) => Unsettled(o, now))
    BY <1>1 DEF Unsettled, Heap!ObjectType, Causes
  <2> HIDE DEF o
  <2> QED  BY <2>2, <2>3, <2>4 DEF p
<1> QED  BY <1>2, <1>3, <1>4, <1>5

LEMMA DeadIs ==
    ASSUME NEW o \in Heap!ObjectType, NEW time \in Nat, Unsettled(o, time), ~o.dead
    PROVE  LET p == Heap!Dead(o, time, o.reason) IN
           p.dead /\ Unsettled(p, time)
<1> DEFINE d == [o EXCEPT !.deathTime = time, !.reason = o.reason, !.dead = TRUE]
<1>1. /\ o.reason \in Causes /\ ~o.atEnd /\ ~o.byStack /\ ~o.byHeap /\ ~o.byGlobal
  BY DEF Unsettled
<1>2. /\ d \in Heap!ObjectType /\ d.reason = o.reason /\ d.dead /\ d.deathTime = time
      /\ ~d.atEnd /\ ~d.byStack /\ ~d.byHeap /\ ~d.byGlobal
  BY <1>1 DEF Heap!ObjectType
<1>3. Heap!Dead(o, time, o.reason) = CASE o.reason = "STACK" -> Heap!SetDiedByStack(d)
                                      [] o.reason \in {"HEAP", "UNKNOWN"} -> Heap!SetDiedByHeap(d)
                                      [] o.reason = "GLOBAL" -> Heap!SetDiedByGlobal(d)
                                      [] OTHER -> Heap!SetDiedAtEnd(d)
  BY DEF Heap!Dead
<1> HIDE DEF d
<1>4. CASE o.reason = "STACK"
  <2>1. Heap!Dead(o, time, o.reason) = Heap!SetDiedByStack(d)
    BY <1>3, <1>4
  <2>2. Heap!SetDiedByStack(d).dead /\ Unsettled(Heap!SetDiedByStack(d), time)
    BY <1>2 DEF Heap!SetDiedByStack, Heap!ObjectType, Unsettled, Causes
  <2> QED  BY <2>1, <2>2
<1>5. CASE o.reason \in {"HEAP", "UNKNOWN"}
  <2>1. Heap!Dead(o, time, o.reason) = Heap!SetDiedByHeap(d)
    BY <1>3, <1>5
  <2>2. Heap!SetDiedByHeap(d).dead /\ Unsettled(Heap!SetDiedByHeap(d), time)
    BY <1>2 DEF Heap!SetDiedByHeap, Heap!ObjectType, Unsettled, Causes
  <2> QED  BY <2>1, <2>2
<1>6. CASE o.reason = "GLOBAL"
  <2>1. Heap!Dead(o, time, o.reason) = Heap!SetDiedByGlobal(d)
    BY <1>3, <1>6
  <2>2. Heap!SetDiedByGlobal(d).dead /\ Unsettled(Heap!SetDiedByGlobal(d), time)
    BY <1>2 DEF Heap!SetDiedByGlobal, Heap!ObjectType, Unsettled, Causes
  <2> QED  BY <2>1, <2>2
<1> QED  BY <1>1, <1>4, <1>5, <1>6 DEF Causes

\* What the end of the program makes of an object, and counts it as.
LEMMA EndedIs ==
    ASSUME NEW o \in Heap!ObjectType, final \in Nat, Unsettled(o, final)
    PROVE  LET e == Heap!Ended(o)
               c == Heap!Counted(e)
           IN  /\ Same(o, e) /\ Same(o, c)
               /\ Heap!Cause(e) \in {"AtEnd", "ByStack", "ByHeap"}
               /\ Heap!Cause(e) = "AtEnd" <=> c.deathTime = final
               /\ c.dead /\ ~c.byGlobal => Heap!Printed(c) = Heap!Cause(e)
<1> DEFINE e == Heap!Ended(o)
           c == Heap!Counted(e)
<1>1. Heap!Cause(e) \in {"AtEnd", "ByStack", "ByHeap"}
  BY DEF Heap!Cause
<1>2. ASSUME ~Heap!IsLive(o, final) PROVE e = o
  BY <1>2 DEF Heap!Ended
<1>3. ASSUME Heap!IsLive(o, final)
      PROVE  /\ Same(o, e) /\ e.deathTime = final
             /\ e.reason = "END_OF_PROGRAM" /\ ~e.byStack /\ ~e.byHeap
  <2> DEFINE d == IF o.dead THEN o ELSE Heap!Dead(o, final, "END_OF_PROGRAM")
             d0 == [d EXCEPT !.byStack = FALSE, !.byHeap = FALSE]
             d1 == Heap!SetDiedAtEnd(d0)
  <2>1. Same(o, d) /\ d.deathTime = final
    <3>1. CASE o.dead
      BY <1>3, <3>1 DEF Same, Unsettled, Heap!IsLive, Heap!ObjectType
    <3>2. CASE ~o.dead
      <4>1. Same(o, d)
        BY <3>2, DeadType DEF Heap!Reasons
      <4>2. d.deathTime = final
        BY <3>2 DEF Heap!Dead, Heap!SetDiedAtEnd, Heap!ObjectType
      <4> QED  BY <4>1, <4>2
    <3> QED  BY <3>1, <3>2
  <2> HIDE DEF d
  <2>2. Same(o, d0) /\ d0.deathTime = final /\ ~d0.byStack /\ ~d0.byHeap
    BY <2>1 DEF Same, Heap!ObjectType
  <2> HIDE DEF d0
  <2>3. Same(o, d1) /\ d1.deathTime = final /\ ~d1.byStack /\ ~d1.byHeap
    <3>1. Same(d0, d1)
      BY <2>2, DiedByType DEF Same
    <3>2. d1.deathTime = d0.deathTime /\ d1.byStack = d0.byStack /\ d1.byHeap = d0.byHeap
      BY <2>2 DEF Same, Heap!ObjectType, Heap!SetDiedAtEnd
    <3> QED  BY <2>2, <3>1, <3>2 DEF Same
  <2>4. e = [d1 EXCEPT !.reason = "END_OF_PROGRAM", !.lastEvent = "END_OF_PROGRAM"]
    BY <1>3 DEF Heap!Ended, d, d0
  <2> HIDE DEF d1
  <2> QED  BY <2>3, <2>4 DEF Same, Heap!ObjectType, Heap!Reasons, Heap!Events
<1>4. Same(o, e)
  BY <1>2, <1>3 DEF Same
<1> HIDE DEF e
<1>5. Same(e, c) /\ c.deathTime = e.deathTime /\ c.dead = e.dead /\ c.byGlobal = e.byGlobal
      /\ c.byStack = e.byStack /\ c.byHeap = (e.byHeap \/ Heap!Cause(e) = "ByHeap")
  <2>1. e \in Heap!ObjectType
    BY <1>4 DEF Same
  <2>2. CASE Heap!Cause(e) = "ByHeap"
    <3>1. c = Heap!SetDiedByHeap(e)
      BY <2>2 DEF Heap!Counted
    <3>2. Same(e, c)
      BY <2>1, <3>1, DiedByType
    <3> QED  BY <2>1, <2>2, <3>1, <3>2 DEF Heap!SetDiedByHeap, Heap!ObjectType
  <2>3. CASE Heap!Cause(e) # "ByHeap"
    <3>1. c = e
      BY <2>3 DEF Heap!Counted
    <3> HIDE DEF c
    <3> QED  BY <2>1, <2>3, <3>1 DEF Same, Heap!ObjectType
  <2> QED  BY <2>2, <2>3
<1>6. Same(o, c)
  BY <1>4, <1>5 DEF Same
<1> HIDE DEF c
<1>7. CASE Heap!IsLive(o, final)
  <2>1. Heap!Cause(e) = "AtEnd"
    BY <1>3, <1>7 DEF Heap!Cause, Heap!DiedAtEnd
  <2>2. Heap!Printed(c) = "AtEnd"
    BY <1>3, <1>5, <1>7, <2>1 DEF Heap!Printed
  <2> QED  BY <1>1, <1>3, <1>4, <1>5, <1>6, <1>7, <2>1, <2>2 DEF e, c
<1>8. CASE ~Heap!IsLive(o, final)
  <2>1. e = o /\ o.reason \in Causes /\ ~o.atEnd /\ c.deathTime = o.deathTime
    BY <1>2, <1>5, <1>8 DEF Unsettled
  <2>2. Heap!Cause(e) # "AtEnd"
    BY <2>1 DEF Heap!Cause, Heap!DiedAtEnd, Causes
  <2>3. c.deathTime # final
    BY <1>8, <2>1 DEF Heap!IsLive
  <2>4. ASSUME c.dead, ~c.byGlobal PROVE Heap!Printed(c) = Heap!Cause(e)
    <3>1. o.dead /\ ~o.byGlobal
      BY <1>5, <2>1, <2>4
    <3>2. (o.byStack /\ ~o.byHeap) \/ (o.byHeap /\ ~o.byStack)
      BY <3>1 DEF Unsettled
    <3>3. CASE o.byStack /\ ~o.byHeap
      <4>1. Heap!Cause(e) = "ByStack"
        BY <2>1, <2>2, <3>3 DEF Heap!Cause, Heap!DiedByStack
      <4> QED  BY <1>5, <2>1, <3>3, <4>1 DEF Heap!Printed
    <3>4. CASE o.byHeap /\ ~o.byStack
      <4>1. Heap!Cause(e) = "ByHeap"
        BY <2>1, <2>2, <3>4 DEF Heap!Cause, Heap!DiedByStack, Heap!DiedByHeap
      <4> QED  BY <1>5, <2>1, <3>4, <4>1 DEF Heap!Printed
    <3> QED  BY <3>2, <3>3, <3>4
  <2> QED  BY <1>1, <1>4, <1>6, <2>2, <2>3, <2>4 DEF e, c
<1> QED  BY <1>7, <1>8

------------------------------------------------------------------------------
(* The sums of the model.                                                  *)

SizeSum(m, S) == Sum([k \in S |-> m[k].size], S)

LEMMA SizeSumType ==
    ASSUME NEW m, NEW S, IsFiniteSet(S), \A k \in S : m[k].size \in Nat, NEW R \in SUBSET S
    PROVE  SizeSum(m, R) \in Nat /\ SizeSum(m, S) \in Nat /\ SizeSum(m, R) <= SizeSum(m, S)
<1> DEFINE f == [k \in S |-> m[k].size]
           g == [k \in R |-> m[k].size]
<1>1. (\A k \in S : f[k] \in Nat) /\ (\A k \in R : f[k] = g[k])
  OBVIOUS
<1>2. IsFiniteSet(R)
  BY FS_Subset
<1> HIDE DEF f, g
<1>3. Sum(f, R) \in Nat /\ Sum(f, S) \in Nat /\ Sum(f, R) <= Sum(f, S)
  BY <1>1, SumSubset
<1>4. Sum(f, R) = Sum(g, R)
  BY <1>1, <1>2, SumSame
<1> QED  BY <1>3, <1>4 DEF SizeSum, f, g

LEMMA SizeSumSame ==
    ASSUME NEW m, NEW n, NEW S, IsFiniteSet(S), \A k \in S : m[k].size = n[k].size
    PROVE  SizeSum(m, S) = SizeSum(n, S)
<1> DEFINE f == [k \in S |-> m[k].size]
           g == [k \in S |-> n[k].size]
<1>1. \A k \in S : f[k] = g[k]
  OBVIOUS
<1> HIDE DEF f, g
<1>2. Sum(f, S) = Sum(g, S)
  BY <1>1, SumSame
<1> QED  BY <1>2 DEF SizeSum, f, g

LEMMA SizeSumAdd ==
    ASSUME NEW m, NEW S, IsFiniteSet(S), NEW y, y \notin S, \A k \in S \cup {y} : m[k].size \in Nat
    PROVE  SizeSum(m, S \cup {y}) = m[y].size + SizeSum(m, S)
<1> DEFINE f == [k \in S \cup {y} |-> m[k].size]
           g == [k \in S |-> m[k].size]
<1>1. /\ \A k \in S \cup {y} : f[k] \in Nat
      /\ \A k \in S : f[k] = g[k]
      /\ f[y] = m[y].size
  OBVIOUS
<1> HIDE DEF f, g
<1>2. Sum(f, S \cup {y}) = f[y] + Sum(f, S)
  BY <1>1, SumAdd
<1>3. Sum(f, S) = Sum(g, S)
  BY <1>1, SumSame
<1> QED  BY <1>1, <1>2, <1>3 DEF SizeSum, f, g

LEMMA SizeOfIs == \A S : IsFiniteSet(S) => Heap!SizeOf(S) = SizeSum(made, S)
<1> SUFFICES ASSUME NEW S, IsFiniteSet(S) PROVE Heap!SizeOf(S) = SizeSum(made, S)
  OBVIOUS
<1> DEFINE f == [k \in S |-> made[k].size]
           Fold(it) == it = [s \in SUBSET S |-> IF s = {} THEN 0
                                               ELSE made[Pick(s)].size + it[s \ {Pick(s)}]]
<1>1. Heap!SizeOf(S) = (CHOOSE it : Fold(it))[S]
  BY DEF Heap!SizeOf, Heap!MapThenSumSet, Heap!MapThenFoldSet, Pick
<1>2. \A it : Fold(it) <=> Recurs(it, f, S)
  <2> SUFFICES ASSUME NEW it PROVE Fold(it) <=> Recurs(it, f, S)
    OBVIOUS
  <2>1. \A s \in SUBSET S : s # {} => f[Pick(s)] = made[Pick(s)].size
    BY PickType
  <2>2. [s \in SUBSET S |-> IF s = {} THEN 0 ELSE made[Pick(s)].size + it[s \ {Pick(s)}]]
        = [s \in SUBSET S |-> IF s = {} THEN 0 ELSE f[Pick(s)] + it[s \ {Pick(s)}]]
    BY <2>1
  <2> QED  BY <2>2 DEF Recurs
<1> HIDE DEF Fold, f
<1>3. PICK a : Recurs(a, f, S) /\ a = CHOOSE it : Recurs(it, f, S)
  BY SumsExist
<1>4. PICK b : Recurs(b, f, S) /\ b = CHOOSE it : Fold(it)
  <2>1. \E it : Fold(it)
    BY <1>2, <1>3
  <2>2. Fold(CHOOSE it : Fold(it))
    BY <2>1
  <2> QED  BY <1>2, <2>2
<1>5. a[S] = b[S]
  <2> SUFFICES ASSUME NEW g, g = f PROVE a[S] = b[S]
    OBVIOUS
  <2>1. Recurs(b, g, S) /\ \A x \in S : f[x] = g[x]
    BY <1>4
  <2> QED  BY <1>3, <2>1, SumsAgree
<1> QED  BY <1>1, <1>3, <1>4, <1>5 DEF Sum, SizeSum, f

\* The listed objects by id.
Listed == [i \in DOMAIN m_objects |-> Heap!Get(i)]

LEMMA SizedIs ==
    \A S \in SUBSET DOMAIN m_objects : IsFiniteSet(S) => Heap!Sized(S) = SizeSum(Listed, S)
<1> SUFFICES ASSUME NEW S \in SUBSET DOMAIN m_objects, IsFiniteSet(S)
             PROVE  Heap!Sized(S) = SizeSum(Listed, S)
  OBVIOUS
<1> DEFINE f == [k \in S |-> Listed[k].size]
           Fold(it) == it = [s \in SUBSET S |-> IF s = {} THEN 0
                                               ELSE Heap!Get(Pick(s)).size + it[s \ {Pick(s)}]]
<1>1. Heap!Sized(S) = (CHOOSE it : Fold(it))[S]
  BY DEF Heap!Sized, Heap!MapThenSumSet, Heap!MapThenFoldSet, Pick
<1>2. \A it : Fold(it) <=> Recurs(it, f, S)
  <2> SUFFICES ASSUME NEW it PROVE Fold(it) <=> Recurs(it, f, S)
    OBVIOUS
  <2>1. \A s \in SUBSET S : s # {} => f[Pick(s)] = Heap!Get(Pick(s)).size
    BY PickType DEF Listed
  <2>2. [s \in SUBSET S |-> IF s = {} THEN 0 ELSE Heap!Get(Pick(s)).size + it[s \ {Pick(s)}]]
        = [s \in SUBSET S |-> IF s = {} THEN 0 ELSE f[Pick(s)] + it[s \ {Pick(s)}]]
    BY <2>1
  <2> QED  BY <2>2 DEF Recurs
<1> HIDE DEF Fold, f
<1>3. PICK a : Recurs(a, f, S) /\ a = CHOOSE it : Recurs(it, f, S)
  BY SumsExist
<1>4. PICK b : Recurs(b, f, S) /\ b = CHOOSE it : Fold(it)
  <2>1. \E it : Fold(it)
    BY <1>2, <1>3
  <2>2. Fold(CHOOSE it : Fold(it))
    BY <2>1
  <2> QED  BY <1>2, <2>2
<1>5. a[S] = b[S]
  <2> SUFFICES ASSUME NEW g, g = f PROVE a[S] = b[S]
    OBVIOUS
  <2>1. Recurs(b, g, S) /\ \A x \in S : f[x] = g[x]
    BY <1>4
  <2> QED  BY <1>3, <2>1, SumsAgree
<1> QED  BY <1>1, <1>3, <1>4, <1>5 DEF Sum, SizeSum, f

------------------------------------------------------------------------------
(* The live size.                                                          *)

LEMMA MadeIs ==
    ASSUME Heap!HeapTypeOK
    PROVE  /\ DOMAIN made = 1 .. Len(made) /\ Len(made) \in Nat
           /\ IsFiniteSet(DOMAIN made) /\ Heap!Undead \in SUBSET DOMAIN made
           /\ IsFiniteSet(Heap!Undead)
           /\ \A k \in DOMAIN made : made[k] \in Heap!ObjectType /\ made[k].size \in Sizes
                                     /\ made[k].size \in Nat
<1>1. made \in Seq(Heap!ObjectType)
  BY DEF Heap!HeapTypeOK
<1>2. DOMAIN made = 1 .. Len(made) /\ Len(made) \in Nat
      /\ \A k \in DOMAIN made : made[k] \in Heap!ObjectType
  BY <1>1
<1>3. IsFiniteSet(DOMAIN made)
  BY <1>2, FS_Interval
<1>4. Heap!Undead \in SUBSET DOMAIN made
  BY DEF Heap!Undead
<1>5. IsFiniteSet(Heap!Undead)
  BY <1>3, <1>4, FS_Subset
<1>6. \A k \in DOMAIN made : made[k].size \in Sizes
  BY <1>2 DEF Heap!ObjectType
<1> QED  BY <1>2, <1>3, <1>4, <1>5, <1>6, SizesType

LEMMA LiveIs ==
    Heap!HeapTypeOK =>
        /\ Heap!SizeOf(Heap!Undead) = SizeSum(made, Heap!Undead)
        /\ Heap!SizeOf(DOMAIN made) = SizeSum(made, DOMAIN made)
        /\ SizeSum(made, Heap!Undead) \in Nat /\ SizeSum(made, DOMAIN made) \in Nat
        /\ SizeSum(made, Heap!Undead) <= SizeSum(made, DOMAIN made)
        /\ m_liveSize \in 0 .. Long - 1 /\ m_maxLiveSize \in 0 .. Long - 1 /\ again \in Nat
<1> SUFFICES ASSUME Heap!HeapTypeOK
             PROVE  /\ Heap!SizeOf(Heap!Undead) = SizeSum(made, Heap!Undead)
                    /\ Heap!SizeOf(DOMAIN made) = SizeSum(made, DOMAIN made)
                    /\ SizeSum(made, Heap!Undead) \in Nat /\ SizeSum(made, DOMAIN made) \in Nat
                    /\ SizeSum(made, Heap!Undead) <= SizeSum(made, DOMAIN made)
                    /\ m_liveSize \in 0 .. Long - 1 /\ m_maxLiveSize \in 0 .. Long - 1
                    /\ again \in Nat
  OBVIOUS
<1>1. /\ Heap!SizeOf(Heap!Undead) = SizeSum(made, Heap!Undead)
      /\ Heap!SizeOf(DOMAIN made) = SizeSum(made, DOMAIN made)
  BY MadeIs, SizeOfIs
<1>2. /\ SizeSum(made, Heap!Undead) \in Nat /\ SizeSum(made, DOMAIN made) \in Nat
      /\ SizeSum(made, Heap!Undead) <= SizeSum(made, DOMAIN made)
  BY MadeIs, SizeSumType
<1> QED  BY <1>1, <1>2 DEF Heap!HeapTypeOK

LEMMA LiveIsNext ==
    (Heap!HeapTypeOK =>
        /\ Heap!SizeOf(Heap!Undead) = SizeSum(made, Heap!Undead)
        /\ Heap!SizeOf(DOMAIN made) = SizeSum(made, DOMAIN made)
        /\ SizeSum(made, Heap!Undead) \in Nat /\ SizeSum(made, DOMAIN made) \in Nat
        /\ SizeSum(made, Heap!Undead) <= SizeSum(made, DOMAIN made)
        /\ m_liveSize \in 0 .. Long - 1 /\ m_maxLiveSize \in 0 .. Long - 1 /\ again \in Nat)'
BY LiveIs, PTL

LEMMA AllocateLive ==
    ASSUME Heap!HeapTypeOK, Heap!HeapTypeOK', Heap!LiveSizeExact,
           NEW id \in Ids, NEW bytes \in Sizes, NEW now \in Nat, Heap!Allocate(id, bytes, now)
    PROVE  Heap!LiveSizeExact'
<1> DEFINE n == Len(made) + 1
<1>1. /\ phase = "running"
      /\ made' = Append(made, Heap!Object(id, bytes, now))
      /\ m_liveSize' = Heap!Plus(m_liveSize, bytes)
      /\ m_maxLiveSize' = IF m_maxLiveSize < m_liveSize' THEN m_liveSize' ELSE m_maxLiveSize
      /\ again' = again
  BY DEF Heap!Allocate
<1>2. /\ DOMAIN made = 1 .. Len(made) /\ Len(made) \in Nat
      /\ IsFiniteSet(DOMAIN made) /\ Heap!Undead \in SUBSET DOMAIN made
      /\ IsFiniteSet(Heap!Undead)
      /\ \A k \in DOMAIN made : made[k].size \in Nat
  BY MadeIs
<1>3. /\ DOMAIN made' = 1 .. n
      /\ \A k \in DOMAIN made : made'[k] = made[k]
      /\ made'[n].size = bytes /\ ~made'[n].dead
  <2>1. made \in Seq(Heap!ObjectType) /\ Heap!Object(id, bytes, now) \in Heap!ObjectType
    BY ObjectIsTyped DEF Heap!HeapTypeOK
  <2>2. Heap!Object(id, bytes, now).size = bytes /\ ~Heap!Object(id, bytes, now).dead
    BY DEF Heap!Object
  <2> QED  BY <1>1, <2>1, <2>2
<1>4. DOMAIN made' = DOMAIN made \cup {n} /\ n \notin DOMAIN made
  BY <1>2, <1>3
<1>5. Heap!Undead' = Heap!Undead \cup {n}
  BY <1>2, <1>3, <1>4 DEF Heap!Undead
<1> HIDE DEF n
<1>6. bytes \in Nat /\ \A k \in DOMAIN made \cup {n} : made'[k].size \in Nat
  BY <1>2, <1>3, SizesType
<1>7. SizeSum(made', Heap!Undead') = bytes + SizeSum(made, Heap!Undead)
  <2>1. SizeSum(made', Heap!Undead \cup {n}) = made'[n].size + SizeSum(made', Heap!Undead)
    BY <1>2, <1>4, <1>6, SizeSumAdd
  <2>2. SizeSum(made', Heap!Undead) = SizeSum(made, Heap!Undead)
    <3>1. \A k \in Heap!Undead : made'[k].size = made[k].size
      BY <1>2, <1>3
    <3> QED  BY <1>2, <3>1, SizeSumSame
  <2> QED  BY <1>3, <1>5, <2>1, <2>2
<1>8. SizeSum(made', DOMAIN made') = bytes + SizeSum(made, DOMAIN made)
  <2>1. SizeSum(made', DOMAIN made \cup {n}) = made'[n].size + SizeSum(made', DOMAIN made)
    BY <1>2, <1>4, <1>6, SizeSumAdd
  <2>2. SizeSum(made', DOMAIN made) = SizeSum(made, DOMAIN made)
    <3>1. \A k \in DOMAIN made : made'[k].size = made[k].size
      BY <1>3
    <3> QED  BY <1>2, <3>1, SizeSumSame
  <2> QED  BY <1>3, <1>4, <2>1, <2>2
<1>9. m_liveSize' = IF m_liveSize + bytes < Long THEN m_liveSize + bytes ELSE Long - 1
  BY <1>1, LiveIs, SizesType, PlusIs
<1>10. /\ m_liveSize <= SizeSum(made, Heap!Undead) + again
       /\ SizeSum(made, DOMAIN made) + again < Long =>
             m_liveSize = SizeSum(made, Heap!Undead) + again
       /\ m_liveSize <= m_maxLiveSize
  BY <1>1, LiveIs DEF Heap!LiveSizeExact
<1>11. /\ m_liveSize' <= SizeSum(made', Heap!Undead') + again'
       /\ SizeSum(made', DOMAIN made') + again' < Long =>
             m_liveSize' = SizeSum(made', Heap!Undead') + again'
       /\ m_liveSize' <= m_maxLiveSize'
  <2>1. /\ Long \in Nat /\ bytes \in Nat /\ m_liveSize \in Nat /\ m_maxLiveSize \in Nat
        /\ SizeSum(made, Heap!Undead) \in Nat /\ SizeSum(made, DOMAIN made) \in Nat
        /\ SizeSum(made, Heap!Undead) <= SizeSum(made, DOMAIN made)
    BY <1>6, LiveIs, SizesType
  <2>2. again \in Nat
    BY LiveIs
  <2>3. m_liveSize' <= bytes + SizeSum(made, Heap!Undead) + again
    BY <1>9, <1>10, <2>1, <2>2
  <2>4. bytes + SizeSum(made, DOMAIN made) + again < Long =>
           m_liveSize' = bytes + SizeSum(made, Heap!Undead) + again
    BY <1>9, <1>10, <2>1, <2>2
  <2>5. m_liveSize' <= m_maxLiveSize'
    BY <1>1, <1>9, <2>1
  <2> QED  BY <1>1, <1>7, <1>8, <2>3, <2>4, <2>5
<1> QED  BY <1>11, LiveIsNext DEF Heap!LiveSizeExact

LEMMA AllocateAgainLive ==
    ASSUME Heap!HeapTypeOK, Heap!HeapTypeOK', Heap!LiveSizeExact,
           NEW k \in DOMAIN made, Heap!AllocateAgain(k)
    PROVE  Heap!LiveSizeExact'
<1> DEFINE bytes == made[k].size
<1>1. /\ phase = "running" /\ made' = made
      /\ m_liveSize' = Heap!Plus(m_liveSize, bytes)
      /\ m_maxLiveSize' = IF m_maxLiveSize < m_liveSize' THEN m_liveSize' ELSE m_maxLiveSize
      /\ again' = again + bytes
  BY DEF Heap!AllocateAgain
<1>2. bytes \in Nat /\ bytes \in 0 .. Long - 1
  BY MadeIs, SizesType
<1> HIDE DEF bytes
<1>3. Heap!Undead' = Heap!Undead
  BY <1>1 DEF Heap!Undead
<1>4. m_liveSize' = IF m_liveSize + bytes < Long THEN m_liveSize + bytes ELSE Long - 1
  BY <1>1, <1>2, LiveIs, PlusIs
<1>5. /\ m_liveSize <= SizeSum(made, Heap!Undead) + again
      /\ SizeSum(made, DOMAIN made) + again < Long =>
            m_liveSize = SizeSum(made, Heap!Undead) + again
      /\ m_liveSize <= m_maxLiveSize
  BY <1>1, LiveIs DEF Heap!LiveSizeExact
<1>6. /\ Long \in Nat /\ m_liveSize \in Nat /\ m_maxLiveSize \in Nat /\ again \in Nat
      /\ SizeSum(made, Heap!Undead) \in Nat /\ SizeSum(made, DOMAIN made) \in Nat
      /\ SizeSum(made, Heap!Undead) <= SizeSum(made, DOMAIN made)
  BY LiveIs, SizesType
<1>7. m_liveSize' <= SizeSum(made, Heap!Undead) + (again + bytes)
  BY <1>2, <1>4, <1>5, <1>6
<1>8. SizeSum(made, DOMAIN made) + (again + bytes) < Long =>
         m_liveSize' = SizeSum(made, Heap!Undead) + (again + bytes)
  BY <1>2, <1>4, <1>5, <1>6
<1>9. m_liveSize' <= m_maxLiveSize'
  BY <1>1, <1>2, <1>4, <1>6
<1>10. /\ m_liveSize' <= SizeSum(made', Heap!Undead') + again'
       /\ SizeSum(made', DOMAIN made') + again' < Long =>
             m_liveSize' = SizeSum(made', Heap!Undead') + again'
  BY <1>1, <1>3, <1>7, <1>8
<1> QED  BY <1>9, <1>10, LiveIsNext DEF Heap!LiveSizeExact

LEMMA ChangeLive ==
    ASSUME Heap!HeapTypeOK, Heap!HeapTypeOK', Heap!LiveSizeExact,
           NEW id \in DOMAIN m_objects, NEW o, Heap!Change(id, o), Same(Heap!Get(id), o),
           o.dead = Heap!Get(id).dead
    PROVE  Heap!LiveSizeExact'
<1>1. /\ phase = "running" /\ made' = [made EXCEPT ![m_objects[id]] = o]
      /\ UNCHANGED <<m_liveSize, m_maxLiveSize, again>>
  BY DEF Heap!Change
<1>2. /\ DOMAIN made' = DOMAIN made
      /\ \A k \in DOMAIN made : made'[k].size = made[k].size /\ made'[k].dead = made[k].dead
  BY <1>1, GetType DEF Same
<1>3. Heap!Undead' = Heap!Undead
  BY <1>2 DEF Heap!Undead
<1>4. IsFiniteSet(DOMAIN made) /\ Heap!Undead \in SUBSET DOMAIN made /\ IsFiniteSet(Heap!Undead)
  BY MadeIs
<1>5. SizeSum(made', Heap!Undead) = SizeSum(made, Heap!Undead)
  BY <1>2, <1>4, SizeSumSame
<1>6. SizeSum(made', DOMAIN made) = SizeSum(made, DOMAIN made)
  BY <1>2, <1>4, SizeSumSame
<1>7. /\ m_liveSize <= SizeSum(made, Heap!Undead) + again
      /\ SizeSum(made, DOMAIN made) + again < Long =>
            m_liveSize = SizeSum(made, Heap!Undead) + again
      /\ m_liveSize <= m_maxLiveSize
  BY <1>1, LiveIs DEF Heap!LiveSizeExact
<1>8. /\ m_liveSize' <= SizeSum(made', Heap!Undead') + again'
      /\ SizeSum(made', DOMAIN made') + again' < Long =>
            m_liveSize' = SizeSum(made', Heap!Undead') + again'
      /\ m_liveSize' <= m_maxLiveSize'
  BY <1>1, <1>2, <1>3, <1>5, <1>6, <1>7
<1> QED  BY <1>8, LiveIsNext DEF Heap!LiveSizeExact

LEMMA MakeDeadLive ==
    ASSUME Heap!HeapTypeOK, Heap!HeapTypeOK', Heap!LiveSizeExact, phase = "running",
           NEW id \in DOMAIN m_objects, NEW o, Same(Heap!Get(id), o), o.dead,
           ~Heap!Get(id).dead,
           made' = [made EXCEPT ![m_objects[id]] = o],
           m_liveSize' = Heap!Minus(m_liveSize, Heap!Get(id).size),
           UNCHANGED <<m_maxLiveSize, again>>
    PROVE  Heap!LiveSizeExact'
<1> DEFINE k == m_objects[id]
           bytes == Heap!Get(id).size
<1>1. k \in DOMAIN made /\ made[k].size = bytes /\ ~made[k].dead
  BY GetType
<1>2. /\ DOMAIN made' = DOMAIN made /\ made'[k].dead
      /\ \A j \in DOMAIN made : /\ made'[j].size = made[j].size
                                /\ j # k => made'[j].dead = made[j].dead
  BY <1>1, GetType DEF Same
<1>3. /\ IsFiniteSet(DOMAIN made) /\ Heap!Undead \in SUBSET DOMAIN made
      /\ IsFiniteSet(Heap!Undead) /\ bytes \in Sizes
      /\ \A j \in DOMAIN made : made[j].size \in Nat
  BY <1>1, MadeIs
<1> DEFINE rest == Heap!Undead \ {k}
<1>4. Heap!Undead' = rest /\ Heap!Undead = rest \cup {k}
  BY <1>1, <1>2 DEF Heap!Undead
<1>5. IsFiniteSet(rest) /\ k \notin rest /\ rest \subseteq DOMAIN made
  BY <1>3, FS_Subset
<1> HIDE DEF k, rest, bytes
<1>6. SizeSum(made, Heap!Undead) = bytes + SizeSum(made, rest)
  <2>1. \A j \in rest \cup {k} : made[j].size \in Nat
    BY <1>1, <1>3, <1>5
  <2>2. SizeSum(made, rest \cup {k}) = made[k].size + SizeSum(made, rest)
    BY <1>5, <2>1, SizeSumAdd
  <2> QED  BY <1>1, <1>4, <2>2
<1>7. SizeSum(made', rest) = SizeSum(made, rest)
  <2>1. \A j \in rest : made'[j].size = made[j].size
    BY <1>2, <1>5
  <2> QED  BY ONLY <1>5, <2>1, SizeSumSame
<1>8. SizeSum(made', DOMAIN made) = SizeSum(made, DOMAIN made)
  <2>1. \A j \in DOMAIN made : made'[j].size = made[j].size
    BY <1>2
  <2> QED  BY ONLY <1>3, <2>1, SizeSumSame
<1>9. m_liveSize' = IF m_liveSize >= bytes THEN m_liveSize - bytes ELSE 0
  BY <1>3, LiveIs, SizesType, MinusIs DEF bytes
<1>10. /\ m_liveSize <= SizeSum(made, Heap!Undead) + again
       /\ SizeSum(made, DOMAIN made) + again < Long =>
             m_liveSize = SizeSum(made, Heap!Undead) + again
       /\ m_liveSize <= m_maxLiveSize
  BY LiveIs DEF Heap!LiveSizeExact
<1>11. /\ m_liveSize' <= SizeSum(made', Heap!Undead') + again'
       /\ SizeSum(made', DOMAIN made') + again' < Long =>
             m_liveSize' = SizeSum(made', Heap!Undead') + again'
       /\ m_liveSize' <= m_maxLiveSize'
  <2>1. /\ bytes \in Nat /\ m_liveSize \in Nat /\ m_maxLiveSize \in Nat
        /\ SizeSum(made, rest) \in Nat
    <3>1. SizeSum(made, rest) \in Nat
      BY <1>3, <1>5, SizeSumType
    <3> QED  BY <1>3, <3>1, LiveIs, SizesType
  <2>2. again \in Nat /\ again' = again
    BY LiveIs
  <2>3. m_liveSize' <= SizeSum(made, rest) + again /\ m_liveSize' <= m_maxLiveSize
    BY <1>6, <1>9, <1>10, <2>1, <2>2
  <2>4. SizeSum(made, DOMAIN made) + again < Long => m_liveSize' = SizeSum(made, rest) + again
    BY <1>6, <1>9, <1>10, <2>1, <2>2
  <2> QED  BY <1>2, <1>4, <1>7, <1>8, <2>2, <2>3, <2>4
<1> QED  BY <1>11, LiveIsNext DEF Heap!LiveSizeExact

------------------------------------------------------------------------------
(* The counters of the end.                                                *)

Ends == {"AtEnd", "ByStack", "ByHeap"}

Shown(objs, V, cause) == {i \in V : Heap!Printed(objs[i]) = cause}

\* What counters of unlimited width would say of the objects objs, those in V
\* having been visited.
CountsAre(objs, V, tot, siz, fin) ==
    /\ tot["AtEnd"] + tot["ByStack"] + tot["ByHeap"] = Cardinality(V)
    /\ siz["AtEnd"] + siz["ByStack"] + siz["ByHeap"] = SizeSum(objs, V)
    /\ tot["ByStack"] = tot["StackAfterHeap"] + tot["StackOnly"]
    /\ tot["AtEnd"] = Cardinality({i \in V : objs[i].deathTime = fin})
    /\ (\A i \in V : objs[i].dead /\ ~objs[i].byGlobal) =>
          \A cause \in Ends : /\ tot[cause] = Cardinality(Shown(objs, V, cause))
                              /\ siz[cause] = SizeSum(objs, Shown(objs, V, cause))

LEMMA VisitedIs ==
    ASSUME Heap!HeapTypeOK
    PROVE  /\ Heap!Visited \in SUBSET DOMAIN m_objects
           /\ \A S \in SUBSET DOMAIN m_objects : IsFiniteSet(S)
<1>1. IsFiniteSet(DOMAIN m_objects)
  BY HeapAssumption, FS_Subset DEF Heap!HeapTypeOK
<1>2. \A S \in SUBSET DOMAIN m_objects : IsFiniteSet(S)
  BY <1>1, FS_Subset
<1> QED  BY <1>2 DEF Heap!Visited

LEMMA SameCardinality == \A S : Heap!Cardinality(S) = Cardinality(S)
BY DEF Heap!Cardinality, Cardinality

\* tot and siz are such counters, as far as an unsigned int can tell.
Exact(objs, V, tot, siz, fin) ==
    \E etot, esiz \in [Heap!Counters -> Nat] :
        /\ CountsAre(objs, V, etot, esiz, fin)
        /\ \A k \in Heap!Counters : /\ tot[k] = Heap!Wrapped(etot[k])
                                   /\ siz[k] = Heap!Wrapped(esiz[k])

CountsExact == Exact(Listed, Heap!Visited, total, size, final)

LEMMA CountersFollow ==
    ASSUME Heap!HeapTypeOK, CountsExact
    PROVE  Heap!CountersAgree
<1>1. Heap!Visited \in SUBSET DOMAIN m_objects
  BY VisitedIs
<1>2. \A S \in SUBSET DOMAIN m_objects : Heap!Sized(S) = SizeSum(Listed, S)
  BY VisitedIs, SizedIs
<1>3. \A i \in Heap!Visited : Listed[i] = Heap!Get(i)
  BY <1>1 DEF Listed
<1>4. Heap!Sized(Heap!Visited) = SizeSum(Listed, Heap!Visited)
  BY <1>1, <1>2
<1>5. {i \in Heap!Visited : Listed[i].deathTime = final} =
      {i \in Heap!Visited : Heap!Get(i).deathTime = final}
  BY <1>3
<1> DEFINE Those(cause) == {i \in Heap!Visited : Heap!Printed(Heap!Get(i)) = cause}
<1>6. \A cause : /\ Those(cause) = Shown(Listed, Heap!Visited, cause)
                 /\ Heap!Sized(Those(cause)) = SizeSum(Listed, Shown(Listed, Heap!Visited, cause))
  <2> SUFFICES ASSUME NEW cause
               PROVE  /\ Those(cause) = Shown(Listed, Heap!Visited, cause)
                      /\ Heap!Sized(Those(cause)) =
                            SizeSum(Listed, Shown(Listed, Heap!Visited, cause))
    OBVIOUS
  <2>1. Those(cause) = Shown(Listed, Heap!Visited, cause)
    BY <1>3 DEF Shown
  <2>2. Shown(Listed, Heap!Visited, cause) \in SUBSET DOMAIN m_objects
    BY <1>1 DEF Shown
  <2> QED  BY <1>2, <2>1, <2>2
<1>7. (\A i \in Heap!Visited : Listed[i].dead /\ ~Listed[i].byGlobal) <=>
      (\A i \in Heap!Visited : Heap!Get(i).dead /\ ~Heap!Get(i).byGlobal)
  BY <1>3
<1>8. PICK etot \in [Heap!Counters -> Nat], esiz \in [Heap!Counters -> Nat] :
         /\ CountsAre(Listed, Heap!Visited, etot, esiz, final)
         /\ \A k \in Heap!Counters : /\ total[k] = Heap!Wrapped(etot[k])
                                    /\ size[k] = Heap!Wrapped(esiz[k])
  BY DEF CountsExact, Exact
<1> HIDE DEF Those
<1>9. /\ etot["AtEnd"] + etot["ByStack"] + etot["ByHeap"] = Cardinality(Heap!Visited)
      /\ esiz["AtEnd"] + esiz["ByStack"] + esiz["ByHeap"] = Heap!Sized(Heap!Visited)
      /\ etot["ByStack"] = etot["StackAfterHeap"] + etot["StackOnly"]
      /\ etot["AtEnd"] = Cardinality({i \in Heap!Visited : Heap!Get(i).deathTime = final})
      /\ (\A i \in Heap!Visited : Heap!Get(i).dead /\ ~Heap!Get(i).byGlobal) =>
            \A cause \in Ends : /\ etot[cause] = Cardinality(Those(cause))
                                /\ esiz[cause] = Heap!Sized(Those(cause))
  BY <1>4, <1>5, <1>6, <1>7, <1>8 DEF CountsAre
<1>10. /\ Ends \subseteq Heap!Counters
       /\ {"AtEnd", "ByStack", "ByHeap", "StackAfterHeap", "StackOnly"} \subseteq Heap!Counters
  BY DEF Ends, Heap!Counters
<1>11. Heap!Wrapped(total["AtEnd"] + total["ByStack"] + total["ByHeap"]) =
       Heap!Wrapped(etot["AtEnd"] + etot["ByStack"] + etot["ByHeap"])
  <2>1. PICK a \in Nat, b \in Nat, c \in Nat :
           a = etot["AtEnd"] /\ b = etot["ByStack"] /\ c = etot["ByHeap"]
    BY <1>10
  <2>2. /\ total["AtEnd"] = Heap!Wrapped(a) /\ total["ByStack"] = Heap!Wrapped(b)
        /\ total["ByHeap"] = Heap!Wrapped(c)
    BY <1>8, <1>10, <2>1
  <2>3. Heap!Wrapped(Heap!Wrapped(a) + Heap!Wrapped(b) + Heap!Wrapped(c)) =
        Heap!Wrapped(a + b + c)
    BY WrapSum3
  <2> QED  BY <2>1, <2>2, <2>3
<1>12. Heap!Wrapped(size["AtEnd"] + size["ByStack"] + size["ByHeap"]) =
       Heap!Wrapped(esiz["AtEnd"] + esiz["ByStack"] + esiz["ByHeap"])
  <2>1. PICK a \in Nat, b \in Nat, c \in Nat :
           a = esiz["AtEnd"] /\ b = esiz["ByStack"] /\ c = esiz["ByHeap"]
    BY <1>10
  <2>2. /\ size["AtEnd"] = Heap!Wrapped(a) /\ size["ByStack"] = Heap!Wrapped(b)
        /\ size["ByHeap"] = Heap!Wrapped(c)
    BY <1>8, <1>10, <2>1
  <2>3. Heap!Wrapped(Heap!Wrapped(a) + Heap!Wrapped(b) + Heap!Wrapped(c)) =
        Heap!Wrapped(a + b + c)
    BY WrapSum3
  <2> QED  BY <2>1, <2>2, <2>3
<1>13. total["ByStack"] = Heap!Wrapped(total["StackAfterHeap"] + total["StackOnly"])
  <2>1. PICK a \in Nat, b \in Nat : a = etot["StackAfterHeap"] /\ b = etot["StackOnly"]
    BY <1>10
  <2>2. /\ total["StackAfterHeap"] = Heap!Wrapped(a) /\ total["StackOnly"] = Heap!Wrapped(b)
        /\ total["ByStack"] = Heap!Wrapped(a + b)
    BY <1>8, <1>9, <1>10, <2>1
  <2>3. Heap!Wrapped(Heap!Wrapped(a) + Heap!Wrapped(b)) = Heap!Wrapped(a + b)
    BY WrapSum
  <2> QED  BY <2>2, <2>3
<1>14. total["AtEnd"] =
       Heap!Wrapped(Cardinality({i \in Heap!Visited : Heap!Get(i).deathTime = final}))
  BY <1>8, <1>9, <1>10
<1>15. (\A i \in Heap!Visited : Heap!Get(i).dead /\ ~Heap!Get(i).byGlobal) =>
          \A cause \in Ends : /\ total[cause] = Heap!Wrapped(Cardinality(Those(cause)))
                              /\ size[cause] = Heap!Wrapped(Heap!Sized(Those(cause)))
  BY <1>8, <1>9, <1>10
<1> QED  BY <1>9, <1>11, <1>12, <1>13, <1>14, <1>15, SameCardinality
         DEF Heap!CountersAgree, Ends, Those

\* One more object c, counted under the given cause: the counters tot and siz
\* become tot2 and siz2, those in moved having moved.
CountedToo(objs, more, V, id, fin, tot, siz, tot2, siz2, c, cause, moved) ==
    /\ IsFiniteSet(V) /\ id \notin V
    /\ \A i \in V : objs[i].size \in Nat /\ more[i] = objs[i]
    /\ more[id] = c /\ c.size \in Nat
    /\ tot \in [Heap!Counters -> Nat] /\ siz \in [Heap!Counters -> Nat]
    /\ cause \in Ends
    /\ cause = "AtEnd" <=> c.deathTime = fin
    /\ c.dead /\ ~c.byGlobal => Heap!Printed(c) = cause
    /\ \A k \in Ends : k \in moved <=> k = cause
    /\ "StackAfterHeap" \in moved <=> cause = "ByStack" /\ "StackOnly" \notin moved
    /\ "StackOnly" \in moved => cause = "ByStack"
    /\ \A k \in Heap!Counters : k # "NoSite" =>
          tot2[k] = IF k \in moved THEN tot[k] + 1 ELSE tot[k]
    /\ \A k \in Heap!Counters :
          siz2[k] = IF k \in moved THEN siz[k] + c.size ELSE siz[k]

LEMMA CountOneMore ==
    ASSUME NEW objs, NEW more, NEW V, NEW id, NEW fin, NEW tot, NEW siz, NEW tot2, NEW siz2,
           NEW c, NEW cause, NEW moved,
           CountedToo(objs, more, V, id, fin, tot, siz, tot2, siz2, c, cause, moved),
           CountsAre(objs, V, tot, siz, fin)
    PROVE  CountsAre(more, V \cup {id}, tot2, siz2, fin)
<1> USE DEF CountedToo
<1> DEFINE W == V \cup {id}
<1>1. /\ \A k \in Heap!Counters : tot[k] \in Nat /\ siz[k] \in Nat
      /\ Ends \subseteq Heap!Counters /\ "NoSite" \notin Ends
      /\ {"StackAfterHeap", "StackOnly"} \subseteq Heap!Counters
  BY DEF Heap!Counters, Ends
<1>2. /\ \A k \in Ends : /\ tot2[k] = IF k = cause THEN tot[k] + 1 ELSE tot[k]
                         /\ siz2[k] = IF k = cause THEN siz[k] + c.size ELSE siz[k]
                         /\ tot[k] \in Nat /\ siz[k] \in Nat
  BY <1>1
<1>3. \A S \in SUBSET V : /\ IsFiniteSet(S) /\ Cardinality(S) \in Nat
                          /\ Cardinality(S \cup {id}) = Cardinality(S) + 1
                          /\ SizeSum(objs, S) \in Nat /\ SizeSum(more, S) = SizeSum(objs, S)
                          /\ SizeSum(more, S \cup {id}) = c.size + SizeSum(objs, S)
  <2> SUFFICES ASSUME NEW S \in SUBSET V
               PROVE  /\ IsFiniteSet(S) /\ Cardinality(S) \in Nat
                      /\ Cardinality(S \cup {id}) = Cardinality(S) + 1
                      /\ SizeSum(objs, S) \in Nat /\ SizeSum(more, S) = SizeSum(objs, S)
                      /\ SizeSum(more, S \cup {id}) = c.size + SizeSum(objs, S)
    OBVIOUS
  <2>1. IsFiniteSet(S) /\ Cardinality(S) \in Nat /\ id \notin S
    BY FS_Subset, FS_CardinalityType
  <2>2. Cardinality(S \cup {id}) = Cardinality(S) + 1
    BY <2>1, FS_AddElement
  <2>3. SizeSum(objs, S) \in Nat
    <3>1. (\A k \in S : objs[k].size \in Nat) /\ S \in SUBSET S
      OBVIOUS
    <3> QED  BY ONLY <2>1, <3>1, SizeSumType
  <2>4. SizeSum(more, S) = SizeSum(objs, S)
    <3>1. \A k \in S : more[k].size = objs[k].size
      OBVIOUS
    <3> QED  BY ONLY <2>1, <3>1, SizeSumSame
  <2>5. SizeSum(more, S \cup {id}) = c.size + SizeSum(more, S)
    <3>1. (\A k \in S \cup {id} : more[k].size \in Nat) /\ more[id] = c
      OBVIOUS
    <3> QED  BY ONLY <2>1, <3>1, SizeSumAdd
  <2> QED  BY <2>1, <2>2, <2>3, <2>4, <2>5
<1>4. /\ tot["AtEnd"] + tot["ByStack"] + tot["ByHeap"] = Cardinality(V)
      /\ siz["AtEnd"] + siz["ByStack"] + siz["ByHeap"] = SizeSum(objs, V)
      /\ tot["ByStack"] = tot["StackAfterHeap"] + tot["StackOnly"]
      /\ tot["AtEnd"] = Cardinality({i \in V : objs[i].deathTime = fin})
  BY DEF CountsAre
<1>5. /\ tot2["AtEnd"] + tot2["ByStack"] + tot2["ByHeap"] = Cardinality(W)
      /\ siz2["AtEnd"] + siz2["ByStack"] + siz2["ByHeap"] = SizeSum(more, W)
  <2>1. Cardinality(W) = Cardinality(V) + 1 /\ SizeSum(more, W) = c.size + SizeSum(objs, V)
    BY <1>3
  <2> QED  BY <1>2, <1>4, <2>1 DEF Ends
<1>6. tot2["ByStack"] = tot2["StackAfterHeap"] + tot2["StackOnly"]
  <2>1. /\ tot["ByStack"] \in Nat /\ tot["StackAfterHeap"] \in Nat /\ tot["StackOnly"] \in Nat
        /\ tot2["ByStack"] = IF cause = "ByStack" THEN tot["ByStack"] + 1 ELSE tot["ByStack"]
        /\ tot2["StackAfterHeap"] = IF "StackAfterHeap" \in moved
                                    THEN tot["StackAfterHeap"] + 1 ELSE tot["StackAfterHeap"]
        /\ tot2["StackOnly"] = IF "StackOnly" \in moved
                               THEN tot["StackOnly"] + 1 ELSE tot["StackOnly"]
    BY <1>1, <1>2 DEF Ends
  <2>2. CASE "StackOnly" \in moved
    BY <1>4, <2>1, <2>2
  <2>3. CASE "StackOnly" \notin moved
    BY <1>4, <2>1, <2>3
  <2> QED  BY <2>2, <2>3
<1>7. tot2["AtEnd"] = Cardinality({i \in W : more[i].deathTime = fin})
  <2> DEFINE D == {i \in V : objs[i].deathTime = fin}
             E == {i \in W : more[i].deathTime = fin}
  <2>1. D \in SUBSET V
    OBVIOUS
  <2>2. CASE cause = "AtEnd"
    <3>1. E = D \cup {id}
      BY <2>2
    <3>2. tot2["AtEnd"] = tot["AtEnd"] + 1
      BY <1>2, <2>2 DEF Ends
    <3> HIDE DEF D, E
    <3>3. Cardinality(E) = Cardinality(D) + 1
      BY <1>3, <2>1, <3>1
    <3> QED  BY <1>4, <3>2, <3>3 DEF D, E
  <2>3. CASE cause # "AtEnd"
    <3>1. E = D
      BY <2>3
    <3>2. tot2["AtEnd"] = tot["AtEnd"]
      BY <1>2, <2>3 DEF Ends
    <3> HIDE DEF D, E
    <3> QED  BY <1>4, <3>1, <3>2 DEF D, E
  <2> QED  BY <2>2, <2>3
<1>8. ASSUME \A i \in W : more[i].dead /\ ~more[i].byGlobal, NEW k \in Ends
      PROVE  /\ tot2[k] = Cardinality(Shown(more, W, k))
             /\ siz2[k] = SizeSum(more, Shown(more, W, k))
  <2>1. Heap!Printed(c) = cause
    BY <1>8
  <2>2. /\ tot[k] = Cardinality(Shown(objs, V, k))
        /\ siz[k] = SizeSum(objs, Shown(objs, V, k))
    <3>1. \A i \in V : objs[i].dead /\ ~objs[i].byGlobal
      BY <1>8
    <3> QED  BY <3>1 DEF CountsAre
  <2>3. Shown(objs, V, k) \in SUBSET V
    BY DEF Shown
  <2>4. Shown(more, W, k) = IF k = cause THEN Shown(objs, V, k) \cup {id} ELSE Shown(objs, V, k)
    BY <2>1 DEF Shown
  <2>5. CASE k = cause
    <3>1. /\ Cardinality(Shown(more, W, k)) = Cardinality(Shown(objs, V, k)) + 1
          /\ SizeSum(more, Shown(more, W, k)) = c.size + SizeSum(objs, Shown(objs, V, k))
          /\ SizeSum(objs, Shown(objs, V, k)) \in Nat
      BY <1>3, <2>3, <2>4, <2>5
    <3> QED  BY <1>2, <2>2, <2>5, <3>1
  <2>6. CASE k # cause
    <3>1. /\ Cardinality(Shown(more, W, k)) = Cardinality(Shown(objs, V, k))
          /\ SizeSum(more, Shown(more, W, k)) = SizeSum(objs, Shown(objs, V, k))
      BY <1>3, <2>3, <2>4, <2>6
    <3> QED  BY <1>2, <2>2, <2>6, <3>1
  <2> QED  BY <2>5, <2>6
<1> QED  BY <1>5, <1>6, <1>7, <1>8 DEF CountsAre

LEMMA MovedIs ==
    ASSUME NEW e
    PROVE  LET moved == Heap!Moved(e) IN
           /\ \A k \in Ends : k \in moved <=> k = Heap!Cause(e)
           /\ "StackAfterHeap" \in moved <=> Heap!Cause(e) = "ByStack" /\ "StackOnly" \notin moved
           /\ "StackOnly" \in moved => Heap!Cause(e) = "ByStack"
           /\ moved \subseteq Heap!Counters \ {"NoSite"}
<1>1. Heap!Cause(e) \in Ends
  BY DEF Heap!Cause, Ends
<1> QED  BY <1>1 DEF Heap!Moved, Ends, Heap!Counters

------------------------------------------------------------------------------
(* The steps of the heap.                                                  *)

\* While the program runs nothing is counted and no object is settled; at its
\* end those still to be visited are not.
HeapOK ==
    /\ phase = "running" =>
          /\ left = {}
          /\ \A k \in Heap!Counters : total[k] = 0 /\ size[k] = 0
          /\ \A k \in DOMAIN made : Unsettled(made[k], Exec!NowUp)
    /\ phase = "ending" =>
          /\ final = Exec!NowUp
          /\ \A i \in left : Unsettled(Heap!Get(i), final)

\* The counters alone do not determine what they have counted once they wrap, so
\* the invariant says that there are exact ones behind them.
HeapInv == Heap!HeapTypeOK /\ HeapOK /\ Heap!LiveSizeExact /\ CountsExact

LEMMA NoneCounted ==
    ASSUME NEW objs, NEW tot, NEW siz, NEW fin, \A k \in Heap!Counters : tot[k] = 0 /\ siz[k] = 0
    PROVE  Exact(objs, {}, tot, siz, fin)
<1> DEFINE zero == [k \in Heap!Counters |-> 0]
<1>1. /\ SizeSum(objs, {}) = 0
      /\ \A cause : Shown(objs, {}, cause) = {}
      /\ {i \in {} : objs[i].deathTime = fin} = {}
      /\ Cardinality({}) = 0
  BY SumEmpty, FS_EmptySet DEF SizeSum, Shown
<1>2. /\ {"AtEnd", "ByStack", "ByHeap", "StackAfterHeap", "StackOnly"} \subseteq Heap!Counters
      /\ Ends \subseteq Heap!Counters
  BY DEF Heap!Counters, Ends
<1>3. zero \in [Heap!Counters -> Nat] /\ \A k \in Heap!Counters : zero[k] = 0
  OBVIOUS
<1> HIDE DEF zero
<1>4. CountsAre(objs, {}, zero, zero, fin)
  BY <1>1, <1>2, <1>3 DEF CountsAre
<1>5. Heap!Wrapped(0) = 0
  BY SizesType DEF Heap!Wrapped
<1> QED  BY <1>3, <1>4, <1>5 DEF Exact

LEMMA UnsettledLater ==
    ASSUME NEW o \in Heap!ObjectType, NEW a \in Nat, NEW b \in Nat, a <= b, Unsettled(o, a)
    PROVE  Unsettled(o, b)
<1>1. o.deathTime \in Nat
  BY DEF Heap!ObjectType
<1> QED  BY <1>1 DEF Unsettled

LEMMA RunningCounters ==
    ASSUME phase' = "running", HeapOK'
    PROVE  CountsExact'
<1>1. Heap!Visited' = {}
  BY DEF Heap!Visited
<1>2. \A k \in Heap!Counters : total'[k] = 0 /\ size'[k] = 0
  BY DEF HeapOK
<1>3. Exact(Listed', {}, total', size', final')
  BY <1>2, NoneCounted
<1> QED  BY <1>1, <1>3 DEF CountsExact

LEMMA HeapCallOK ==
    ASSUME HeapInv, Exec!NowUp \in Nat,
           phase = "running", NEW id \in Ids, HeapCall(id), Exec!NowUp' = Exec!NowUp
    PROVE  HeapInv'
<1> USE DEF HeapInv
<1>1. PICK now \in Nat : now = Exec!NowUp
  OBVIOUS
<1>2. /\ left = {}
      /\ \A k \in Heap!Counters : total[k] = 0 /\ size[k] = 0
      /\ \A k \in DOMAIN made : Unsettled(made[k], now)
  BY <1>1 DEF HeapOK
<1>3. /\ final \in Nat /\ NoMethod \notin deathSites /\ again \in Nat
      /\ m_liveSize \in 0 .. Long - 1
      /\ total \in [Heap!Counters -> 0 .. Word - 1] /\ size \in [Heap!Counters -> 0 .. Word - 1]
  BY DEF Heap!HeapTypeOK
<1>4. ASSUME Heap!HeapTypeOK', Heap!LiveSizeExact', UNCHANGED <<phase, left, total, size>>,
             \A k \in DOMAIN made' : Unsettled(made'[k], now)
      PROVE  HeapInv'
  <2>1. HeapOK' /\ phase' = "running"
    BY <1>1, <1>2, <1>4 DEF HeapOK
  <2> QED  BY <1>4, <2>1, RunningCounters
<1>5. ASSUME NEW bytes \in Sizes, Heap!Allocate(id, bytes, now)
      PROVE  HeapInv'
  <2>1. Heap!HeapTypeOK'
    BY <1>5, AllocateType
  <2>2. Heap!LiveSizeExact'
    BY <1>5, <2>1, AllocateLive
  <2>3. made' = Append(made, Heap!Object(id, bytes, now)) /\ UNCHANGED <<phase, left, total, size>>
    BY <1>5 DEF Heap!Allocate
  <2>4. ASSUME NEW k \in DOMAIN made' PROVE Unsettled(made'[k], now)
    <3>1. made \in Seq(Heap!ObjectType) /\ Heap!Object(id, bytes, now) \in Heap!ObjectType
      BY ObjectIsTyped DEF Heap!HeapTypeOK
    <3>2. \/ k \in DOMAIN made /\ made'[k] = made[k]
          \/ made'[k] = Heap!Object(id, bytes, now)
      BY <2>3, <3>1
    <3>3. Unsettled(Heap!Object(id, bytes, now), now)
      BY DEF Unsettled, Heap!Object, Causes
    <3> QED  BY <1>2, <3>2, <3>3
  <2> QED  BY <1>4, <2>1, <2>2, <2>3, <2>4
<1>6. ASSUME id \in DOMAIN m_objects,
             \/ \E reason \in {"STACK", "HEAP", "GLOBAL"} : Heap!SetReason(id, reason)
             \/ \E event \in {"ROOT", "UPDATE_AWAY_TO_NULL"} : Heap!SetLastEvent(id, event)
             \/ Heap!SetPointedAtByHeap(id)
             \/ Heap!SetDeathTime(id, now)
      PROVE  HeapInv'
  <2>1. PICK o : /\ Heap!Change(id, o) /\ Same(Heap!Get(id), o)
                 /\ o.dead = Heap!Get(id).dead
                 /\ Unsettled(Heap!Get(id), now) => Unsettled(o, now)
    BY <1>6, SetterIs
  <2>2. /\ made' = [made EXCEPT ![m_objects[id]] = o]
        /\ UNCHANGED <<m_objects, m_liveSize, m_maxLiveSize, phase, left, final, total, size,
                       deathSites, again>>
    BY <2>1 DEF Heap!Change
  <2>3. Heap!HeapTypeOK'
    BY <1>2, <1>3, <1>6, <2>1, <2>2, OneChangeType
  <2>4. Heap!LiveSizeExact'
    BY <1>6, <2>1, <2>3, ChangeLive
  <2>5. ASSUME NEW k \in DOMAIN made' PROVE Unsettled(made'[k], now)
    <3>1. m_objects[id] \in DOMAIN made /\ Heap!Get(id) = made[m_objects[id]]
      BY <1>6, GetType
    <3> QED  BY <1>2, <2>1, <2>2, <3>1
  <2> QED  BY <1>4, <2>2, <2>3, <2>4, <2>5
<1>7. ASSUME id \in DOMAIN m_objects, Heap!MakeDead(id, now)
      PROVE  HeapInv'
  <2> DEFINE p == Heap!Get(id)
             o == Heap!Dead(p, now, p.reason)
  <2>1. UNCHANGED <<m_objects, m_maxLiveSize, phase, left, final, total, size, deathSites, again>>
    BY <1>7 DEF Heap!MakeDead
  <2>2. /\ m_objects[id] \in DOMAIN made /\ p = made[m_objects[id]]
        /\ p \in Heap!ObjectType /\ Unsettled(p, now) /\ p.reason \in Heap!Reasons
        /\ p.size \in Sizes
    BY <1>2, <1>7, GetType DEF Heap!ObjectType
  <2>3. CASE ~p.dead
    <3>1. /\ m_liveSize' = Heap!Minus(m_liveSize, p.size)
          /\ made' = [made EXCEPT ![m_objects[id]] = o]
      <4>1. Heap!DiesNow(p)
        BY <2>3 DEF Heap!DiesNow
      <4>2. /\ m_liveSize' = Heap!Minus(m_liveSize, p.size)
            /\ made' = [made EXCEPT ![m_objects[id]] = Heap!Dead(@, now, @.reason)]
        BY <1>7, <4>1 DEF Heap!MakeDead
      <4> QED  BY <2>2, <4>2
    <3>2. Same(p, o) /\ o.dead /\ Unsettled(o, now)
      BY <2>2, <2>3, DeadType, DeadIs
    <3> HIDE DEF o
    <3> HIDE DEF p
    <3>3. m_liveSize' \in 0 .. Long - 1
      <4>1. PICK bytes \in 0 .. Long - 1 : bytes = p.size
        BY <2>2, SizesType
      <4>2. PICK a \in 0 .. Long - 1 : a = m_liveSize
        BY <1>3
      <4>3. Heap!Minus(a, bytes) \in 0 .. Long - 1
        BY SizesType, MinusIs
      <4> QED  BY <3>1, <4>1, <4>2, <4>3
    <3>4. Heap!HeapTypeOK'
      BY <1>2, <1>3, <1>7, <2>1, <3>1, <3>2, <3>3, OneChangeType DEF p
    <3>5. Heap!LiveSizeExact'
      BY <1>7, <2>1, <2>3, <3>1, <3>2, <3>4, MakeDeadLive DEF p
    <3>6. \A k \in DOMAIN made' : Unsettled(made'[k], now)
      BY <1>2, <2>2, <3>1, <3>2
    <3> QED  BY <1>4, <2>1, <3>4, <3>5, <3>6
  <2>4. CASE p.dead
    <3>1. UNCHANGED <<m_liveSize, made>>
      BY <1>7, <2>4 DEF Heap!MakeDead, Heap!DiesNow
    <3>2. Heap!HeapTypeOK'
      BY <2>1, <3>1 DEF Heap!HeapTypeOK, Heap!Get
    <3>3. Heap!LiveSizeExact'
      <4>1. Heap!Undead' = Heap!Undead
        BY <3>1 DEF Heap!Undead
      <4>2. /\ m_liveSize <= SizeSum(made, Heap!Undead) + again
            /\ SizeSum(made, DOMAIN made) + again < Long =>
                  m_liveSize = SizeSum(made, Heap!Undead) + again
            /\ m_liveSize <= m_maxLiveSize
        BY LiveIs DEF Heap!LiveSizeExact
      <4> QED  BY <2>1, <3>1, <3>2, <4>1, <4>2, LiveIsNext DEF Heap!LiveSizeExact
    <3> QED  BY <1>2, <1>4, <2>1, <3>1, <3>2, <3>3
  <2> QED  BY <2>3, <2>4
<1>8. ASSUME NEW k \in DOMAIN made, Heap!AllocateAgain(k)
      PROVE  HeapInv'
  <2>1. Heap!HeapTypeOK'
    BY <1>8, AllocateAgainType
  <2>2. Heap!LiveSizeExact'
    BY <1>8, <2>1, AllocateAgainLive
  <2>3. UNCHANGED <<made, phase, left, total, size>>
    BY <1>8 DEF Heap!AllocateAgain
  <2> QED  BY <1>2, <1>4, <2>1, <2>2, <2>3
<1> QED  BY <1>1, <1>5, <1>6, <1>7, <1>8 DEF HeapCall

LEMMA EndOfProgramOK ==
    ASSUME HeapInv, Exec!NowUp \in Nat,
           Heap!EndOfProgram(Exec!NowUp), Exec!NowUp' = Exec!NowUp
    PROVE  HeapInv'
<1> USE DEF HeapInv
<1>1. PICK now \in Nat : now = Exec!NowUp
  OBVIOUS
<1>2. /\ phase = "running" /\ phase' = "ending" /\ left' = DOMAIN m_objects /\ final' = now
      /\ UNCHANGED <<made, m_objects, m_liveSize, m_maxLiveSize, total, size, deathSites,
                     again>>
  BY <1>1 DEF Heap!EndOfProgram
<1>3. Heap!HeapTypeOK'
  BY <1>2 DEF Heap!HeapTypeOK, Heap!Get
<1>4. HeapOK'
  <2>1. ASSUME NEW i \in DOMAIN m_objects PROVE Unsettled(Heap!Get(i), now)
    BY <1>1, <1>2, GetType DEF HeapOK
  <2>2. \A i \in left' : Unsettled(Heap!Get(i)', final')
    BY <1>2, <2>1 DEF Heap!Get
  <2> QED  BY <1>1, <1>2, <2>2 DEF HeapOK
<1>5. Heap!LiveSizeExact'
  BY <1>2 DEF Heap!LiveSizeExact
<1>6. CountsExact'
  <2>1. Heap!Visited' = {}
    BY <1>2 DEF Heap!Visited
  <2>2. \A k \in Heap!Counters : total'[k] = 0 /\ size'[k] = 0
    BY <1>2 DEF HeapOK
  <2>3. Exact(Listed', {}, total', size', final')
    BY <2>2, NoneCounted
  <2> QED  BY <2>1, <2>3 DEF CountsExact
<1> QED  BY <1>3, <1>4, <1>5, <1>6

LEMMA EndObjectOK ==
    ASSUME HeapInv,
           NEW id \in left, NEW dsite, Heap!EndObject(id, dsite), Exec!NowUp' = Exec!NowUp
    PROVE  HeapInv'
<1> USE DEF HeapInv
<1> DEFINE e == Heap!Ended(Heap!Get(id))
           c == Heap!Counted(e)
           unknown == IF dsite = NoMethod THEN {"NoSite"} ELSE {}
<1>1. /\ phase = "ending" /\ phase' = "ending" /\ left' = left \ {id}
      /\ made' = [made EXCEPT ![m_objects[id]] = c]
      /\ total' = [k \in Heap!Counters |-> IF k \in Heap!Moved(e) \cup unknown
                                          THEN Heap!Wrapped(total[k] + 1) ELSE total[k]]
      /\ size' = [k \in Heap!Counters |-> IF k \in Heap!Moved(e)
                                         THEN Heap!Wrapped(size[k] + e.size) ELSE size[k]]
      /\ deathSites' = deathSites \cup ({dsite} \ {NoMethod})
      /\ UNCHANGED <<m_objects, m_liveSize, m_maxLiveSize, final, again>>
  BY DEF Heap!EndObject
<1>2. /\ left \subseteq DOMAIN m_objects /\ id \in DOMAIN m_objects /\ final \in Nat
      /\ total \in [Heap!Counters -> 0 .. Word - 1] /\ size \in [Heap!Counters -> 0 .. Word - 1]
      /\ NoMethod \notin deathSites /\ m_liveSize \in 0 .. Long - 1 /\ again \in Nat
  BY DEF Heap!HeapTypeOK
<1>3. Heap!Get(id) \in Heap!ObjectType /\ Unsettled(Heap!Get(id), final)
  BY <1>1, <1>2, GetType DEF HeapOK
<1>4. /\ Same(Heap!Get(id), e) /\ Same(Heap!Get(id), c)
      /\ Heap!Cause(e) \in Ends
      /\ Heap!Cause(e) = "AtEnd" <=> c.deathTime = final
      /\ c.dead /\ ~c.byGlobal => Heap!Printed(c) = Heap!Cause(e)
  <2>1. PICK o \in Heap!ObjectType : o = Heap!Get(id)
    BY <1>3
  <2> QED  BY <1>2, <1>3, <2>1, EndedIs DEF Ends
<1> HIDE DEF c, e
<1>5. e.size \in Nat /\ c.size = e.size
  BY <1>4, SizesType DEF Same, Heap!ObjectType
<1>6. Heap!HeapTypeOK'
  <2>1. /\ total' \in [Heap!Counters -> 0 .. Word - 1]
        /\ size' \in [Heap!Counters -> 0 .. Word - 1]
    <3>1. \A k \in Heap!Counters : /\ Heap!Wrapped(total[k] + 1) \in 0 .. Word - 1
                                  /\ Heap!Wrapped(size[k] + e.size) \in 0 .. Word - 1
      BY <1>2, <1>5, SizesType, WrapType
    <3> QED  BY <1>1, <1>2, <3>1
  <2>2. left' \subseteq DOMAIN m_objects' /\ NoMethod \notin deathSites'
    BY <1>1, <1>2
  <2> QED  BY <1>1, <1>2, <1>4, <2>1, <2>2, OneChangeType
<1>7. /\ Listed'[id] = c
      /\ \A i \in DOMAIN m_objects : i # id => Listed'[i] = Listed[i] /\ Heap!Get(i)' = Heap!Get(i)
  <2>1. m_objects[id] \in DOMAIN made
    BY <1>2, GetType
  <2>2. \A i \in DOMAIN m_objects : Listed'[i] = made'[m_objects[i]] /\ Listed[i] = made[m_objects[i]]
    BY <1>1 DEF Listed, Heap!Get
  <2>3. ASSUME NEW i \in DOMAIN m_objects, i # id
        PROVE  made'[m_objects[i]] = made[m_objects[i]]
    BY <1>1, <1>2, <2>1, <2>3, OneIdEach
  <2>4. made'[m_objects[id]] = c
    BY <1>1, <2>1
  <2> QED  BY <1>1, <1>2, <2>2, <2>3, <2>4 DEF Heap!Get
<1>8. HeapOK'
  <2>1. \A i \in left' : Unsettled(Heap!Get(i)', final')
    BY <1>1, <1>2, <1>7 DEF HeapOK
  <2> QED  BY <1>1, <2>1 DEF HeapOK
<1>9. Heap!LiveSizeExact'
  BY <1>1 DEF Heap!LiveSizeExact
<1>10. CountsExact'
  <2>1. PICK V : V = Heap!Visited
    OBVIOUS
  <2>2. PICK objs : objs = Listed
    OBVIOUS
  <2>3. PICK more : more = Listed'
    OBVIOUS
  <2>4. /\ V = DOMAIN m_objects \ left /\ IsFiniteSet(V) /\ id \notin V
        /\ Heap!Visited' = V \cup {id}
    <3>1. V = DOMAIN m_objects \ left
      BY <1>1, <2>1 DEF Heap!Visited
    <3>2. IsFiniteSet(V)
      BY <3>1, VisitedIs
    <3>3. Heap!Visited' = V \cup {id}
      BY <1>1, <1>2, <3>1 DEF Heap!Visited
    <3> QED  BY <3>1, <3>2, <3>3
  <2>5. PICK tot \in [Heap!Counters -> Nat], siz \in [Heap!Counters -> Nat] :
           /\ CountsAre(objs, V, tot, siz, final)
           /\ \A k \in Heap!Counters : /\ total[k] = Heap!Wrapped(tot[k])
                                      /\ size[k] = Heap!Wrapped(siz[k])
    BY <2>1, <2>2 DEF CountsExact, Exact
  <2>6. \A i \in V : objs[i].size \in Nat /\ more[i] = objs[i]
    <3>1. \A i \in V : Listed[i] = Heap!Get(i) /\ Heap!Get(i).size \in Sizes
      BY <2>4, GetType DEF Listed, Heap!ObjectType
    <3> QED  BY <1>7, <2>2, <2>3, <2>4, <3>1, SizesType
  <2>7. more[id] = c
    BY <1>7, <2>3
  <2>8. PICK moved : moved = Heap!Moved(e)
    OBVIOUS
  <2>9. PICK cause \in Ends : cause = Heap!Cause(e)
    BY <1>4
  <2>10. /\ \A k \in Ends : k \in moved <=> k = cause
         /\ "StackAfterHeap" \in moved <=> cause = "ByStack" /\ "StackOnly" \notin moved
         /\ "StackOnly" \in moved => cause = "ByStack"
    <3>1. PICK x : x = e
      OBVIOUS
    <3> QED  BY <2>8, <2>9, <3>1, MovedIs
  <2>11. PICK fin, d : fin = final /\ d = c
    OBVIOUS
  <2> DEFINE tot2 == [k \in Heap!Counters |-> IF k \in moved \cup unknown THEN tot[k] + 1
                                             ELSE tot[k]]
             siz2 == [k \in Heap!Counters |-> IF k \in moved THEN siz[k] + d.size ELSE siz[k]]
  <2>12. /\ tot2 \in [Heap!Counters -> Nat] /\ siz2 \in [Heap!Counters -> Nat]
         /\ \A k \in Heap!Counters : k # "NoSite" =>
               tot2[k] = IF k \in moved THEN tot[k] + 1 ELSE tot[k]
         /\ \A k \in Heap!Counters : siz2[k] = IF k \in moved THEN siz[k] + d.size ELSE siz[k]
    BY <1>5, <2>11
  <2>13. \A k \in Heap!Counters : /\ total'[k] = Heap!Wrapped(tot2[k])
                                  /\ size'[k] = Heap!Wrapped(siz2[k])
    <3> SUFFICES ASSUME NEW k \in Heap!Counters
                 PROVE  total'[k] = Heap!Wrapped(tot2[k]) /\ size'[k] = Heap!Wrapped(siz2[k])
      OBVIOUS
    <3>1. PICK a \in Nat, b \in Nat, n \in Nat : a = tot[k] /\ b = siz[k] /\ n = d.size
      BY <1>5, <2>11
    <3>2. /\ Heap!Wrapped(Heap!Wrapped(a) + 1) = Heap!Wrapped(a + 1)
          /\ Heap!Wrapped(Heap!Wrapped(b) + n) = Heap!Wrapped(b + n)
      BY WrapAdd
    <3>3. total'[k] = IF k \in moved \cup unknown THEN Heap!Wrapped(Heap!Wrapped(a) + 1)
                      ELSE Heap!Wrapped(a)
      BY <1>1, <2>5, <2>8, <3>1
    <3>4. size'[k] = IF k \in moved THEN Heap!Wrapped(Heap!Wrapped(b) + n) ELSE Heap!Wrapped(b)
      BY <1>1, <1>5, <2>5, <2>8, <2>11, <3>1
    <3>5. /\ tot2[k] = IF k \in moved \cup unknown THEN a + 1 ELSE a
          /\ siz2[k] = IF k \in moved THEN b + n ELSE b
      BY <3>1
    <3> HIDE DEF tot2, siz2, unknown
    <3> QED  BY <3>2, <3>3, <3>4, <3>5
  <2> HIDE DEF tot2, siz2
  <2>14. CountsAre(more, V \cup {id}, tot2, siz2, fin)
    <3>1. CountsAre(objs, V, tot, siz, fin)
      BY <2>5, <2>11
    <3>2. /\ d.size \in Nat /\ more[id] = d
          /\ cause = "AtEnd" <=> d.deathTime = fin
          /\ d.dead /\ ~d.byGlobal => Heap!Printed(d) = cause
      BY <1>4, <1>5, <2>7, <2>9, <2>11
    <3>3. CountedToo(objs, more, V, id, fin, tot, siz, tot2, siz2, d, cause, moved)
      BY ONLY <2>4, <2>5, <2>6, <2>9, <2>10, <2>12, <3>2 DEF CountedToo
    <3> QED  BY ONLY <3>1, <3>3, CountOneMore
  <2>15. Exact(more, V \cup {id}, total', size', fin)
    BY <2>12, <2>13, <2>14 DEF Exact
  <2> QED  BY <1>1, <2>3, <2>4, <2>11, <2>15 DEF CountsExact
<1> QED  BY <1>6, <1>8, <1>9, <1>10

\* A call of Exec leaves the heap and does not set the clock back.
LEMMA HeapStays ==
    ASSUME HeapInv, UNCHANGED heapVars, phase = "running",
           Exec!NowUp \in Nat, Exec!NowUp' \in Nat, Exec!NowUp <= Exec!NowUp'
    PROVE  HeapInv'
<1> USE DEF HeapInv
<1>1. UNCHANGED <<made, m_objects, m_liveSize, m_maxLiveSize, phase, left, final, total, size,
                  deathSites, again>>
  BY DEF heapVars
<1>2. Heap!HeapTypeOK'
  BY <1>1 DEF Heap!HeapTypeOK, Heap!Get
<1>3. PICK now \in Nat, then \in Nat : now = Exec!NowUp /\ then = Exec!NowUp'
  OBVIOUS
<1>4. HeapOK'
  <2>1. \A k \in DOMAIN made : Unsettled(made[k], then)
    <3>1. \A k \in DOMAIN made : made[k] \in Heap!ObjectType
      BY MadeIs
    <3>2. \A k \in DOMAIN made : Unsettled(made[k], now)
      BY <1>3 DEF HeapOK
    <3> QED  BY <1>3, <3>1, <3>2, UnsettledLater
  <2> QED  BY <1>1, <1>3, <2>1 DEF HeapOK
<1>5. Heap!LiveSizeExact'
  <2>1. Heap!Undead' = Heap!Undead
    BY <1>1 DEF Heap!Undead
  <2>2. /\ m_liveSize <= SizeSum(made, Heap!Undead) + again
        /\ SizeSum(made, DOMAIN made) + again < Long =>
              m_liveSize = SizeSum(made, Heap!Undead) + again
        /\ m_liveSize <= m_maxLiveSize
    BY LiveIs DEF Heap!LiveSizeExact
  <2> QED  BY <1>1, <1>2, <2>1, <2>2, LiveIsNext DEF Heap!LiveSizeExact
<1> QED  BY <1>1, <1>2, <1>4, <1>5, RunningCounters

\* The same where nothing changes, whatever the phase.
LEMMA HeapStutters ==
    ASSUME HeapInv, UNCHANGED <<heapVars, execVars>>
    PROVE  HeapInv'
<1> USE DEF HeapInv
<1>1. /\ UNCHANGED <<made, m_objects, m_liveSize, m_maxLiveSize, phase, left, final, total, size,
                     deathSites, again>>
      /\ Exec!NowUp' = Exec!NowUp
  BY DEF heapVars, execVars, Exec!NowUp
<1>2. Heap!HeapTypeOK'
  BY <1>1 DEF Heap!HeapTypeOK, Heap!Get
<1>3. HeapOK'
  BY <1>1 DEF HeapOK, Heap!Get
<1>4. Heap!LiveSizeExact'
  <2>1. Heap!Undead' = Heap!Undead
    BY <1>1 DEF Heap!Undead
  <2>2. phase = "running" =>
           /\ m_liveSize <= SizeSum(made, Heap!Undead) + again
           /\ SizeSum(made, DOMAIN made) + again < Long =>
                 m_liveSize = SizeSum(made, Heap!Undead) + again
           /\ m_liveSize <= m_maxLiveSize
    BY LiveIs DEF Heap!LiveSizeExact
  <2> QED  BY <1>1, <1>2, <2>1, <2>2, LiveIsNext DEF Heap!LiveSizeExact
<1>5. CountsExact'
  <2>1. Listed' = Listed /\ Heap!Visited' = Heap!Visited
    BY <1>1 DEF Listed, Heap!Visited, Heap!Get
  <2> QED  BY <1>1, <2>1 DEF CountsExact
<1> QED  BY <1>2, <1>3, <1>4, <1>5

------------------------------------------------------------------------------
(* The methods of a thread.                                                *)

LEMMA NamesType == Methods \subseteq Exec!Names /\ NoMethod \in Exec!Names /\ NoMethod \notin LibMethods
BY ExecAssumption DEF Exec!Names

LEMMA ReverseType ==
    ASSUME NEW S, NEW s \in Seq(S)
    PROVE  /\ Exec!Reverse(s) \in Seq(S) /\ Len(Exec!Reverse(s)) = Len(s)
           /\ \A k \in 1 .. Len(s) : /\ Exec!Reverse(s)[k] = s[Len(s) - k + 1]
                                     /\ Len(s) - k + 1 \in 1 .. Len(s)
<1>1. Len(s) \in Nat /\ \A k \in 1 .. Len(s) : s[k] \in S
  OBVIOUS
<1>2. \A k \in 1 .. Len(s) : Len(s) - k + 1 \in 1 .. Len(s)
  BY <1>1
<1>3. Exec!Reverse(s) = [k \in 1 .. Len(s) |-> s[(Len(s) - k) + 1]]
  BY DEF Exec!Reverse
<1> QED  BY <1>1, <1>2, <1>3

LEMMA PairIs ==
    ASSUME NEW S, NEW s \in Seq(S), Len(s) = 2
    PROVE  /\ s = <<s[1], s[2]>> /\ s \in S \X S
           /\ DOMAIN s = 1 .. 2 /\ s[1] \in S /\ s[2] \in S
           /\ s # << >>
<1>1. DOMAIN s = 1 .. 2 /\ s[1] \in S /\ s[2] \in S
  <2>1. DOMAIN s = 1 .. 2
    BY LenProperties
  <2>2. s[1] \in S /\ s[2] \in S
    BY ElementOfSeq
  <2> QED  BY <2>1, <2>2
<1>2. <<s[1], s[2]>> \in Seq(S) /\ Len(<<s[1], s[2]>>) = 2
  BY <1>1
<1>3. s = <<s[1], s[2]>>
  BY <1>1, <1>2, SeqEqual
<1>4. s # << >>
  BY EmptySeq
<1> QED  BY <1>1, <1>3, <1>4

LEMMA FirstTwo ==
    ASSUME NEW s \in Seq(Exec!Names)
    PROVE  LET top == SubSeq(s \o <<NoMethod, NoMethod>>, 1, 2) IN
           /\ top \in Seq(Exec!Names) /\ Len(top) = 2 /\ DOMAIN top = 1 .. 2
           /\ top[1] = IF Len(s) >= 1 THEN s[1] ELSE NoMethod
           /\ top[2] = IF Len(s) >= 2 THEN s[2] ELSE NoMethod
           /\ top[1] \in Exec!Names /\ top[2] \in Exec!Names
           /\ top \in Exec!Names \X Exec!Names /\ top # << >>
<1> DEFINE long == s \o <<NoMethod, NoMethod>>
           top == SubSeq(long, 1, 2)
<1>1. <<NoMethod, NoMethod>> \in Seq(Exec!Names) /\ Len(<<NoMethod, NoMethod>>) = 2
      /\ Len(s) \in Nat
  BY NamesType
<1>2. long \in Seq(Exec!Names) /\ Len(long) = Len(s) + 2
  BY <1>1
<1>3. \A k \in 1 .. 2 : long[k] = IF Len(s) >= k THEN s[k] ELSE NoMethod
  BY <1>1
<1> HIDE DEF long
<1>4. top \in Seq(Exec!Names) /\ Len(top) = 2
  BY <1>1, <1>2
<1>5. \A k \in 1 .. 2 : top[k] = long[k]
  BY <1>1, <1>2
<1> HIDE DEF top
<1>6. /\ DOMAIN top = 1 .. 2 /\ top[1] \in Exec!Names /\ top[2] \in Exec!Names
      /\ top \in Exec!Names \X Exec!Names /\ top # << >>
  BY <1>4, PairIs
<1> QED  BY <1>3, <1>4, <1>5, <1>6 DEF top, long

LEMMA FirstAppIs ==
    ASSUME NEW s \in Seq(Exec!Names), s # << >>
    PROVE  /\ Exec!FirstApp(s) \in 1 .. Len(s)
           /\ \A k \in 1 .. Exec!FirstApp(s) - 1 : s[k] \in LibMethods
           /\ s[Exec!FirstApp(s)] \in LibMethods =>
                 /\ Exec!FirstApp(s) = Len(s)
                 /\ \A k \in 1 .. Len(s) : s[k] \in LibMethods
<1> DEFINE app == {k \in DOMAIN s : s[k] \notin LibMethods}
<1>1. DOMAIN s = 1 .. Len(s) /\ Len(s) \in Nat /\ Len(s) >= 1
  OBVIOUS
<1>2. Exec!FirstApp(s) = IF app = {} THEN Len(s) ELSE Exec!Min(app)
  BY DEF Exec!FirstApp
<1>3. CASE app = {}
  BY <1>1, <1>2, <1>3
<1>4. CASE app # {}
  <2>1. app \subseteq Nat
    BY <1>1
  <2>2. PICK x \in app : \A y \in app : x <= y
    <3> HIDE DEF app
    <3> QED  BY <1>4, <2>1, NatMin
  <2>3. Exec!Min(app) \in app /\ \A y \in app : Exec!Min(app) <= y
    <3> HIDE DEF app
    <3> QED  BY <2>2 DEF Exec!Min
  <2>4. Exec!FirstApp(s) \in app /\ \A y \in app : Exec!FirstApp(s) <= y
    BY <1>2, <1>4, <2>3
  <2>5. ASSUME NEW k \in 1 .. Exec!FirstApp(s) - 1 PROVE s[k] \in LibMethods
    <3>1. k \in DOMAIN s /\ ~(Exec!FirstApp(s) <= k)
      BY <1>1, <2>4
    <3> QED  BY <2>4, <3>1
  <2> QED  BY <1>1, <2>4, <2>5
<1> QED  BY <1>3, <1>4

LEMMA DequeType ==
    ASSUME NEW methods \in Seq(Methods)
    PROVE  /\ Exec!TopJavalibMethods(methods) \in Seq(Exec!Names)
           /\ Exec!FullMethodStack(methods) \in Seq(Exec!Names)
           /\ Exec!TopTwo(methods) \in Exec!Names \X Exec!Names
<1>1. methods \in Seq(Exec!Names)
  BY NamesType
<1>2. Exec!Reverse(methods) \in Seq(Exec!Names) /\ Len(Exec!Reverse(methods)) = Len(methods)
  BY <1>1, ReverseType
<1>3. Exec!TopTwo(methods) \in Exec!Names \X Exec!Names
  BY <1>2, FirstTwo DEF Exec!TopTwo
<1>4. Exec!TopJavalibMethods(methods) \in Seq(Exec!Names)
  <2>1. CASE methods = << >>
    BY <2>1, NamesType DEF Exec!TopJavalibMethods
  <2>2. CASE methods # << >>
    <3>1. PICK r \in Seq(Exec!Names) : r = Exec!Reverse(methods) /\ r # << >>
      BY <1>1, <1>2, <2>2
    <3>2. Exec!FirstApp(r) \in 1 .. Len(r)
      BY <3>1, FirstAppIs
    <3>3. SubSeq(r, 1, Exec!FirstApp(r)) \in Seq(Exec!Names)
      BY <3>2
    <3> QED  BY <2>2, <3>1, <3>3 DEF Exec!TopJavalibMethods
  <2> QED  BY <2>1, <2>2
<1> QED  BY <1>2, <1>3, <1>4 DEF Exec!FullMethodStack

------------------------------------------------------------------------------
(* The counts of contexts and of frames.                                   *)

LEMMA CountOfIs == \A map : Exec!CountOf(map) = Sum(map, DOMAIN map)
BY DEF Exec!CountOf, Exec!MapThenSumSet, Exec!MapThenFoldSet, Sum, Recurs, Pick

LEMMA IncrementIs ==
    ASSUME NEW map, map \in [DOMAIN map -> Nat], NEW pair
    PROVE  LET more == Exec!Increment(map, pair) IN
           /\ DOMAIN more = DOMAIN map \cup {pair}
           /\ more \in [DOMAIN more -> Nat]
           /\ IsFiniteSet(DOMAIN map) =>
                 IsFiniteSet(DOMAIN more) /\ Exec!CountOf(more) = Exec!CountOf(map) + 1
<1> DEFINE more == Exec!Increment(map, pair)
<1>1. more = [p \in DOMAIN map \cup {pair} |->
                 (IF p \in DOMAIN map THEN map[p] ELSE 0) + (IF p = pair THEN 1 ELSE 0)]
  BY DEF Exec!Increment
<1>2. DOMAIN more = DOMAIN map \cup {pair}
  BY <1>1
<1>3. more \in [DOMAIN more -> Nat]
  <2>1. \A p \in DOMAIN map : map[p] \in Nat
    OBVIOUS
  <2> QED  BY <1>1, <2>1
<1>4. /\ \A p \in DOMAIN map : p # pair => more[p] = map[p]
      /\ more[pair] = (IF pair \in DOMAIN map THEN map[pair] ELSE 0) + 1
      /\ \A p \in DOMAIN map : map[p] \in Nat
      /\ \A p \in DOMAIN more : more[p] \in Nat
  <2>1. \A p \in DOMAIN map : map[p] \in Nat
    OBVIOUS
  <2>2. \A p \in DOMAIN more : more[p] \in Nat
    BY <1>3
  <2> QED  BY <1>1, <2>1, <2>2
<1> HIDE DEF more
<1>5. ASSUME IsFiniteSet(DOMAIN map)
      PROVE  IsFiniteSet(DOMAIN more) /\ Sum(more, DOMAIN more) = Sum(map, DOMAIN map) + 1
  <2>1. IsFiniteSet(DOMAIN more)
    BY <1>2, <1>5, FS_AddElement
  <2>2. CASE pair \in DOMAIN map
    <3>1. DOMAIN more = DOMAIN map
      BY <1>2, <2>2
    <3>2. /\ \A p \in DOMAIN map : map[p] \in Nat /\ more[p] \in Nat
          /\ \A p \in DOMAIN map \ {pair} : map[p] = more[p]
      BY <1>4, <3>1
    <3>3. Sum(more, DOMAIN map) + map[pair] = Sum(map, DOMAIN map) + more[pair]
      BY ONLY <1>5, <2>2, <3>2, SumChange
    <3>4. Sum(more, DOMAIN map) \in Nat /\ Sum(map, DOMAIN map) \in Nat
      BY ONLY <1>5, <3>2, SumRemove
    <3> QED  BY <1>4, <2>1, <2>2, <3>1, <3>3, <3>4
  <2>3. CASE pair \notin DOMAIN map
    <3>1. \A p \in DOMAIN map \cup {pair} : more[p] \in Nat
      BY <1>2, <1>4
    <3>2. Sum(more, DOMAIN map \cup {pair}) = more[pair] + Sum(more, DOMAIN map)
      BY ONLY <1>5, <2>3, <3>1, SumAdd
    <3>3. \A p \in DOMAIN map : more[p] = map[p]
      BY <1>4, <2>3
    <3>4. Sum(more, DOMAIN map) = Sum(map, DOMAIN map)
      BY ONLY <1>5, <3>3, SumSame
    <3>5. Sum(map, DOMAIN map) \in Nat
      BY ONLY <1>4, <1>5, SumRemove
    <3> QED  BY <1>2, <1>4, <2>1, <2>3, <3>2, <3>4, <3>5
  <2> QED  BY <2>2, <2>3
<1> QED  BY <1>2, <1>3, <1>5, CountOfIs DEF more

FrameSum(methods) == Sum([t \in ThreadIds |-> Len(methods[t])], ThreadIds)

LEMMA FramesIs == Exec!Frames = FrameSum(m_methods)
<1> DEFINE f == [t \in ThreadIds |-> Len(m_methods[t])]
           Fold(it) == it = [s \in SUBSET ThreadIds |->
                                IF s = {} THEN 0
                                ELSE Len(m_methods[Pick(s)]) + it[s \ {Pick(s)}]]
<1>1. Exec!Frames = (CHOOSE it : Fold(it))[ThreadIds]
  BY DEF Exec!Frames, Exec!MapThenSumSet, Exec!MapThenFoldSet, Pick
<1>2. \A it : Fold(it) <=> Recurs(it, f, ThreadIds)
  <2> SUFFICES ASSUME NEW it PROVE Fold(it) <=> Recurs(it, f, ThreadIds)
    OBVIOUS
  <2>1. \A s \in SUBSET ThreadIds : s # {} => f[Pick(s)] = Len(m_methods[Pick(s)])
    BY PickType
  <2>2. [s \in SUBSET ThreadIds |-> IF s = {} THEN 0
                                    ELSE Len(m_methods[Pick(s)]) + it[s \ {Pick(s)}]]
        = [s \in SUBSET ThreadIds |-> IF s = {} THEN 0 ELSE f[Pick(s)] + it[s \ {Pick(s)}]]
    BY <2>1
  <2> QED  BY <2>2 DEF Recurs
<1> HIDE DEF Fold, f
<1>3. PICK a : Recurs(a, f, ThreadIds) /\ a = CHOOSE it : Recurs(it, f, ThreadIds)
  BY ExecAssumption, SumsExist
<1>4. PICK b : Recurs(b, f, ThreadIds) /\ b = CHOOSE it : Fold(it)
  <2>1. \E it : Fold(it)
    BY <1>2, <1>3
  <2>2. Fold(CHOOSE it : Fold(it))
    BY <2>1
  <2> QED  BY <1>2, <2>2
<1>5. a[ThreadIds] = b[ThreadIds]
  <2> SUFFICES ASSUME NEW g, g = f PROVE a[ThreadIds] = b[ThreadIds]
    OBVIOUS
  <2>1. Recurs(b, g, ThreadIds) /\ \A x \in ThreadIds : f[x] = g[x]
    BY <1>4
  <2> QED  BY <1>3, <2>1, ExecAssumption, SumsAgree
<1> QED  BY <1>1, <1>3, <1>4, <1>5 DEF Sum, FrameSum, f

LEMMA FramesIsNext == (Exec!Frames = FrameSum(m_methods))'
BY FramesIs, PTL

LEMMA FramesChange ==
    ASSUME NEW methods \in [ThreadIds -> Seq(Methods)], NEW more \in [ThreadIds -> Seq(Methods)],
           NEW t \in ThreadIds, \A u \in ThreadIds \ {t} : more[u] = methods[u]
    PROVE  /\ FrameSum(methods) \in Nat /\ FrameSum(more) \in Nat
           /\ FrameSum(more) + Len(methods[t]) = FrameSum(methods) + Len(more[t])
           /\ Len(methods[t]) <= FrameSum(methods)
<1> DEFINE f == [u \in ThreadIds |-> Len(methods[u])]
           g == [u \in ThreadIds |-> Len(more[u])]
<1>1. /\ \A u \in ThreadIds : f[u] \in Nat /\ g[u] \in Nat
      /\ \A u \in ThreadIds \ {t} : f[u] = g[u]
      /\ f[t] = Len(methods[t]) /\ g[t] = Len(more[t])
  OBVIOUS
<1>2. IsFiniteSet(ThreadIds)
  BY ExecAssumption
<1> HIDE DEF f, g
<1>3. /\ Sum(f, ThreadIds) \in Nat /\ Sum(g, ThreadIds) \in Nat
      /\ Sum(g, ThreadIds) + f[t] = Sum(f, ThreadIds) + g[t]
      /\ f[t] <= Sum(f, ThreadIds)
  BY <1>1, <1>2, SumChange
<1>4. FrameSum(methods) = Sum(f, ThreadIds) /\ FrameSum(more) = Sum(g, ThreadIds)
  BY DEF FrameSum, f, g
<1> QED  BY <1>1, <1>3, <1>4

------------------------------------------------------------------------------
(* The steps of the execution state.                                       *)

\* A thread that was never seen has no frame.
ExecOK ==
    /\ \A t \in ThreadIds \ threads : m_methods[t] = << >>
    /\ IsFiniteSet(DOMAIN m_execPairCountMap)

ExecInv == Exec!ExecTypeOK /\ Exec!StacksInStep /\ ExecOK

LEMMA TimesType ==
    ASSUME ExecInv
    PROVE  /\ m_meth_time \in Nat /\ m_methexit_time \in Nat /\ m_uptime \in Nat
           /\ Exec!NowUp \in Nat
BY DEF ExecInv, Exec!ExecTypeOK, Exec!NowUp

\* getThread
LEMMA LocalsType ==
    ASSUME ExecInv, NEW t \in ThreadIds
    PROVE  /\ Exec!Locals(t, m_locals) \in Seq(SUBSET Objects)
           /\ Len(Exec!Locals(t, m_locals)) = Len(m_methods[t]) + 1
           /\ Exec!Locals(t, m_deadlocals) \in Seq(SUBSET Objects)
           /\ Len(Exec!Locals(t, m_deadlocals)) = Len(m_methods[t]) + 1
           /\ m_methods[t] \in Seq(Methods)
<1>1. m_methods[t] \in Seq(Methods)
  BY DEF ExecInv, Exec!ExecTypeOK
<1>2. CASE t \in threads
  <2>1. /\ Exec!Locals(t, m_locals) = m_locals[t]
        /\ Exec!Locals(t, m_deadlocals) = m_deadlocals[t]
    BY <1>2 DEF Exec!Locals
  <2>2. m_locals[t] \in Seq(SUBSET Objects) /\ m_deadlocals[t] \in Seq(SUBSET Objects)
    BY DEF ExecInv, Exec!ExecTypeOK
  <2>3. /\ Len(m_locals[t]) = Len(m_methods[t]) + 1
        /\ Len(m_deadlocals[t]) = Len(m_methods[t]) + 1
    BY <1>2 DEF ExecInv, Exec!StacksInStep
  <2> QED  BY <1>1, <2>1, <2>2, <2>3
<1>3. CASE t \notin threads
  <2>1. /\ Exec!Locals(t, m_locals) = << {} >>
        /\ Exec!Locals(t, m_deadlocals) = << {} >>
    BY <1>3 DEF Exec!Locals
  <2>2. << {} >> \in Seq(SUBSET Objects) /\ Len(<< {} >>) = 1
    OBVIOUS
  <2>3. Len(m_methods[t]) = 0
    BY <1>3 DEF ExecInv, ExecOK
  <2> QED  BY <1>1, <2>1, <2>2, <2>3
<1> QED  BY <1>2, <1>3

LEMMA FrontType ==
    ASSUME NEW S, NEW s \in Seq(S), s # << >>
    PROVE  /\ Exec!Front(s) \in Seq(S) /\ Len(Exec!Front(s)) = Len(s) - 1
           /\ Len(s) \in Nat /\ Len(s) > 0
<1>1. Exec!Front(s) = SubSeq(s, 1, Len(s) - 1)
  BY DEF Exec!Front
<1>2. Len(s) \in Nat /\ Len(s) > 0
  OBVIOUS
<1>3. /\ SubSeq(s, 1, Len(s) - 1) \in Seq(S)
      /\ Len(SubSeq(s, 1, Len(s) - 1)) = Len(s) - 1
  <2>1. PICK n \in Nat : n = Len(s) - 1
    BY <1>2
  <2>2. \A i \in 1 .. n : s[i] \in S
    BY <1>2, <2>1, ElementOfSeq
  <2>3. SubSeq(s, 1, n) \in Seq(S) /\ Len(SubSeq(s, 1, n)) = n
    BY <2>2, SubSeqProperties
  <2> QED  BY <2>1, <2>3
<1> QED  BY <1>1, <1>2, <1>3

\* What a step of one thread leaves, if frames and local variables stay in step.
LEMMA ThreadStep ==
    ASSUME ExecInv, NEW t \in ThreadIds, NEW ms \in Seq(Methods),
           NEW l \in Seq(SUBSET Objects), NEW d \in Seq(SUBSET Objects),
           Len(l) = Len(ms) + 1, Len(d) = Len(ms) + 1,
           threads' = threads \cup {t},
           m_methods' = [m_methods EXCEPT ![t] = ms],
           m_locals' = [m_locals EXCEPT ![t] = l],
           m_deadlocals' = [m_deadlocals EXCEPT ![t] = d]
    PROVE  /\ threads' \subseteq ThreadIds
           /\ m_methods' \in [ThreadIds -> Seq(Methods)]
           /\ m_locals' \in [ThreadIds -> Seq(SUBSET Objects)]
           /\ m_deadlocals' \in [ThreadIds -> Seq(SUBSET Objects)]
           /\ \A u \in ThreadIds \ threads' : m_methods'[u] = << >>
           /\ \A u \in threads' : /\ Len(m_locals'[u]) = Len(m_methods'[u]) + 1
                                  /\ Len(m_deadlocals'[u]) = Len(m_methods'[u]) + 1
           /\ FrameSum(m_methods') + Len(m_methods[t]) = FrameSum(m_methods) + Len(ms)
           /\ FrameSum(m_methods) \in Nat /\ FrameSum(m_methods') \in Nat
           /\ Len(m_thread_stack) \in Nat
           /\ Len(m_thread_stack) <= FrameSum(m_methods)
<1>1. /\ threads \subseteq ThreadIds
      /\ m_methods \in [ThreadIds -> Seq(Methods)]
      /\ m_locals \in [ThreadIds -> Seq(SUBSET Objects)]
      /\ m_deadlocals \in [ThreadIds -> Seq(SUBSET Objects)]
      /\ m_thread_stack \in Seq(threads)
  BY DEF ExecInv, Exec!ExecTypeOK
<1>2. /\ \A u \in threads : /\ Len(m_locals[u]) = Len(m_methods[u]) + 1
                            /\ Len(m_deadlocals[u]) = Len(m_methods[u]) + 1
      /\ Len(m_thread_stack) <= FrameSum(m_methods)
  BY FramesIs DEF ExecInv, Exec!StacksInStep
<1>3. \A u \in ThreadIds \ threads : m_methods[u] = << >>
  BY DEF ExecInv, ExecOK
<1>4. /\ threads' \subseteq ThreadIds
      /\ m_methods' \in [ThreadIds -> Seq(Methods)]
      /\ m_locals' \in [ThreadIds -> Seq(SUBSET Objects)]
      /\ m_deadlocals' \in [ThreadIds -> Seq(SUBSET Objects)]
  BY <1>1
<1>5. /\ m_methods'[t] = ms /\ m_locals'[t] = l /\ m_deadlocals'[t] = d
      /\ \A u \in ThreadIds \ {t} : /\ m_methods'[u] = m_methods[u]
                                    /\ m_locals'[u] = m_locals[u]
                                    /\ m_deadlocals'[u] = m_deadlocals[u]
  BY <1>1
<1>6. \A u \in ThreadIds \ threads' : m_methods'[u] = << >>
  BY <1>3, <1>5
<1>7. \A u \in threads' : /\ Len(m_locals'[u]) = Len(m_methods'[u]) + 1
                          /\ Len(m_deadlocals'[u]) = Len(m_methods'[u]) + 1
  <2> SUFFICES ASSUME NEW u \in threads'
               PROVE  /\ Len(m_locals'[u]) = Len(m_methods'[u]) + 1
                      /\ Len(m_deadlocals'[u]) = Len(m_methods'[u]) + 1
    OBVIOUS
  <2>1. CASE u = t
    BY <1>5, <2>1
  <2>2. CASE u # t
    <3>1. u \in threads /\ u \in ThreadIds \ {t}
      BY <1>1, <2>2
    <3> QED  BY <1>2, <1>5, <3>1
  <2> QED  BY <2>1, <2>2
<1>8. /\ FrameSum(m_methods') + Len(m_methods[t]) = FrameSum(m_methods) + Len(ms)
      /\ FrameSum(m_methods) \in Nat /\ FrameSum(m_methods') \in Nat
  <2>1. PICK a \in [ThreadIds -> Seq(Methods)], b \in [ThreadIds -> Seq(Methods)] :
           a = m_methods /\ b = m_methods'
    BY <1>1, <1>4
  <2>2. \A u \in ThreadIds \ {t} : b[u] = a[u]
    BY <1>5, <2>1
  <2>3. /\ FrameSum(a) \in Nat /\ FrameSum(b) \in Nat
        /\ FrameSum(b) + Len(a[t]) = FrameSum(a) + Len(b[t])
    BY <2>2, FramesChange
  <2> QED  BY <1>5, <2>1, <2>3
<1>9. Len(m_thread_stack) \in Nat
  BY <1>1
<1> QED  BY <1>2, <1>4, <1>6, <1>7, <1>8, <1>9

LEMMA CallOK ==
    ASSUME ExecInv, NEW t \in ThreadIds, NEW m \in Methods, Exec!Call(t, m)
    PROVE  ExecInv' /\ Exec!NowUp' \in Nat /\ Exec!NowUp <= Exec!NowUp'
<1>1. /\ m_meth_time' = m_meth_time + 1
      /\ threads' = threads \cup {t}
      /\ m_methods' = [m_methods EXCEPT ![t] = Append(@, m)]
      /\ m_locals' = [m_locals EXCEPT ![t] = Append(Exec!Locals(t, m_locals), {})]
      /\ m_deadlocals' = [m_deadlocals EXCEPT ![t] = Append(Exec!Locals(t, m_deadlocals), {})]
      /\ m_execPairCountMap' = Exec!Increment(m_execPairCountMap,
                                              Exec!TopTwo(Append(m_methods[t], m)))
      /\ m_thread_stack' = Append(m_thread_stack, t)
      /\ UNCHANGED <<m_methexit_time, m_uptime, m_deathPairCountMap, sites>>
  BY DEF Exec!Call
<1>2. PICK ms \in Seq(Methods) : ms = Append(m_methods[t], m) /\ Len(ms) = Len(m_methods[t]) + 1
  <2>1. PICK old \in Seq(Methods) : old = m_methods[t]
    BY LocalsType
  <2>2. Append(old, m) \in Seq(Methods) /\ Len(Append(old, m)) = Len(old) + 1
    OBVIOUS
  <2> QED  BY <2>1, <2>2
<1>3. PICK l \in Seq(SUBSET Objects) :
         l = Append(Exec!Locals(t, m_locals), {}) /\ Len(l) = Len(ms) + 1
  <2>1. PICK k \in Seq(SUBSET Objects) : k = Exec!Locals(t, m_locals) /\ Len(k) = Len(ms)
    BY <1>2, LocalsType
  <2>2. Append(k, {}) \in Seq(SUBSET Objects) /\ Len(Append(k, {})) = Len(k) + 1
    OBVIOUS
  <2> QED  BY <2>1, <2>2
<1>4. PICK d \in Seq(SUBSET Objects) :
         d = Append(Exec!Locals(t, m_deadlocals), {}) /\ Len(d) = Len(ms) + 1
  <2>1. PICK k \in Seq(SUBSET Objects) : k = Exec!Locals(t, m_deadlocals) /\ Len(k) = Len(ms)
    BY <1>2, LocalsType
  <2>2. Append(k, {}) \in Seq(SUBSET Objects) /\ Len(Append(k, {})) = Len(k) + 1
    OBVIOUS
  <2> QED  BY <2>1, <2>2
<1>5. m_methods' = [m_methods EXCEPT ![t] = ms]
  BY <1>1, <1>2 DEF ExecInv, Exec!ExecTypeOK
<1>6. /\ threads' \subseteq ThreadIds
      /\ m_methods' \in [ThreadIds -> Seq(Methods)]
      /\ m_locals' \in [ThreadIds -> Seq(SUBSET Objects)]
      /\ m_deadlocals' \in [ThreadIds -> Seq(SUBSET Objects)]
      /\ \A u \in ThreadIds \ threads' : m_methods'[u] = << >>
      /\ \A u \in threads' : /\ Len(m_locals'[u]) = Len(m_methods'[u]) + 1
                             /\ Len(m_deadlocals'[u]) = Len(m_methods'[u]) + 1
      /\ FrameSum(m_methods') + Len(m_methods[t]) = FrameSum(m_methods) + Len(ms)
      /\ FrameSum(m_methods) \in Nat /\ FrameSum(m_methods') \in Nat
      /\ Len(m_thread_stack) \in Nat
      /\ Len(m_thread_stack) <= FrameSum(m_methods)
  BY <1>1, <1>3, <1>4, <1>5, ThreadStep
<1>7. m_thread_stack' \in Seq(threads') /\ Len(m_thread_stack') = Len(m_thread_stack) + 1
  <2>1. m_thread_stack \in Seq(threads \cup {t})
    BY DEF ExecInv, Exec!ExecTypeOK
  <2> QED  BY <1>1, <2>1
<1>8. Len(m_thread_stack') <= FrameSum(m_methods')
  <2>1. PICK old \in Nat : old = Len(m_methods[t])
    BY LocalsType
  <2>2. FrameSum(m_methods') = FrameSum(m_methods) + 1
    <3>1. PICK before \in Nat, after \in Nat :
             before = FrameSum(m_methods) /\ after = FrameSum(m_methods')
      BY <1>6
    <3>2. after + old = before + (old + 1)
      BY <1>2, <1>6, <2>1, <3>1
    <3>3. after = before + 1
      BY ONLY <3>2, before \in Nat, after \in Nat, old \in Nat
    <3> QED  BY <3>1, <3>3
  <2> QED  BY <1>6, <1>7, <2>2
<1>9. /\ DOMAIN m_execPairCountMap' \subseteq Exec!Pairs
      /\ m_execPairCountMap' \in [DOMAIN m_execPairCountMap' -> Nat]
      /\ IsFiniteSet(DOMAIN m_execPairCountMap')
      /\ Exec!CountOf(m_execPairCountMap)' = m_meth_time'
  <2>1. PICK pair \in Exec!Names \X Exec!Names : pair = Exec!TopTwo(ms)
    BY DequeType
  <2>2. PICK map : map = m_execPairCountMap
    OBVIOUS
  <2>3. /\ DOMAIN map \subseteq Exec!Pairs /\ map \in [DOMAIN map -> Nat]
        /\ IsFiniteSet(DOMAIN map) /\ Exec!CountOf(map) = m_meth_time
    BY <2>2 DEF ExecInv, ExecOK, Exec!ExecTypeOK, Exec!StacksInStep
  <2>4. PICK more : more = Exec!Increment(map, pair)
    OBVIOUS
  <2>5. /\ DOMAIN more = DOMAIN map \cup {pair} /\ more \in [DOMAIN more -> Nat]
        /\ IsFiniteSet(DOMAIN more) /\ Exec!CountOf(more) = Exec!CountOf(map) + 1
    BY <2>3, <2>4, IncrementIs
  <2>6. more = m_execPairCountMap'
    BY <1>1, <1>2, <2>1, <2>2, <2>4
  <2>7. pair \in Exec!Pairs
    BY DEF Exec!Pairs
  <2>8. Exec!CountOf(m_execPairCountMap)' = Exec!CountOf(more)
    BY <2>6 DEF Exec!CountOf, Exec!MapThenSumSet, Exec!MapThenFoldSet
  <2> QED  BY <1>1, <2>3, <2>5, <2>6, <2>7, <2>8
<1>10. /\ m_meth_time' \in Nat /\ m_methexit_time' \in Nat /\ m_uptime' \in Nat
       /\ Exec!NowUp' \in Nat /\ Exec!NowUp <= Exec!NowUp'
  BY <1>1, TimesType DEF Exec!NowUp
<1>11. Exec!ExecTypeOK'
  BY <1>1, <1>6, <1>7, <1>9, <1>10 DEF ExecInv, Exec!ExecTypeOK
<1>12. Exec!StacksInStep'
  BY <1>6, <1>8, <1>9, FramesIsNext DEF Exec!StacksInStep
<1>13. ExecOK'
  BY <1>6, <1>9 DEF ExecOK
<1> QED  BY <1>10, <1>11, <1>12, <1>13 DEF ExecInv

\* A step that counts no call.
LEMMA CountsStay ==
    ASSUME ExecInv, UNCHANGED <<m_meth_time, m_execPairCountMap>>
    PROVE  /\ DOMAIN m_execPairCountMap' \subseteq Exec!Pairs
           /\ m_execPairCountMap' \in [DOMAIN m_execPairCountMap' -> Nat]
           /\ IsFiniteSet(DOMAIN m_execPairCountMap')
           /\ Exec!CountOf(m_execPairCountMap)' = m_meth_time'
<1>1. /\ DOMAIN m_execPairCountMap \subseteq Exec!Pairs
      /\ m_execPairCountMap \in [DOMAIN m_execPairCountMap -> Nat]
      /\ IsFiniteSet(DOMAIN m_execPairCountMap)
      /\ Exec!CountOf(m_execPairCountMap) = m_meth_time
  BY DEF ExecInv, ExecOK, Exec!ExecTypeOK, Exec!StacksInStep
<1>2. Exec!CountOf(m_execPairCountMap)' = Exec!CountOf(m_execPairCountMap)
  BY DEF Exec!CountOf, Exec!MapThenSumSet, Exec!MapThenFoldSet
<1> QED  BY <1>1, <1>2

LEMMA ReturnOK ==
    ASSUME ExecInv, NEW t \in ThreadIds, Exec!Return(t)
    PROVE  ExecInv' /\ Exec!NowUp' \in Nat /\ Exec!NowUp <= Exec!NowUp'
<1>1. /\ m_methexit_time' = m_methexit_time + 1
      /\ threads' = threads \cup {t}
      /\ m_thread_stack' = IF m_thread_stack = << >> THEN << >> ELSE Exec!Front(m_thread_stack)
      /\ m_methods' = [m_methods EXCEPT ![t] = IF @ = << >> THEN << >> ELSE Exec!Front(@)]
      /\ m_locals' = [m_locals EXCEPT ![t] = Exec!Popped(t, m_locals)]
      /\ m_deadlocals' = [m_deadlocals EXCEPT ![t] = Exec!Popped(t, m_deadlocals)]
      /\ UNCHANGED <<m_meth_time, m_uptime, m_execPairCountMap, m_deathPairCountMap, sites>>
  BY DEF Exec!Return, Exec!contexts
<1>2. PICK n \in Nat : n = Len(m_methods[t]) /\ (n = 0 <=> m_methods[t] = << >>)
  <2>1. PICK old \in Seq(Methods) : old = m_methods[t]
    BY LocalsType
  <2>2. Len(old) \in Nat /\ (Len(old) = 0 <=> old = << >>)
    OBVIOUS
  <2> QED  BY <2>1, <2>2
<1>3. PICK ms \in Seq(Methods) :
         /\ ms = IF m_methods[t] = << >> THEN << >> ELSE Exec!Front(m_methods[t])
         /\ Len(ms) = IF n = 0 THEN 0 ELSE n - 1
  <2>1. PICK old \in Seq(Methods) : old = m_methods[t]
    BY LocalsType
  <2>2. CASE old = << >>
    <3>1. << >> \in Seq(Methods) /\ Len(<< >>) = 0
      OBVIOUS
    <3> QED  BY <1>2, <2>1, <2>2, <3>1
  <2>3. CASE old # << >>
    <3>1. Exec!Front(old) \in Seq(Methods) /\ Len(Exec!Front(old)) = Len(old) - 1
      BY <2>3, FrontType
    <3> QED  BY <1>2, <2>1, <2>3, <3>1
  <2> QED  BY <2>2, <2>3
<1>4. ASSUME NEW k \in Seq(SUBSET Objects), Len(k) = n + 1
      PROVE  /\ n # 0 => /\ Exec!Front(k) \in Seq(SUBSET Objects)
                         /\ Len(Exec!Front(k)) = Len(ms) + 1
             /\ n = 0 => Len(k) = Len(ms) + 1
  <2>1. k # << >>
    BY <1>2, <1>4
  <2>2. Exec!Front(k) \in Seq(SUBSET Objects) /\ Len(Exec!Front(k)) = Len(k) - 1
    BY <2>1, FrontType
  <2> QED  BY <1>2, <1>3, <1>4, <2>2
<1>5. PICK l \in Seq(SUBSET Objects) : l = Exec!Popped(t, m_locals) /\ Len(l) = Len(ms) + 1
  <2>1. PICK k \in Seq(SUBSET Objects) : k = Exec!Locals(t, m_locals) /\ Len(k) = n + 1
    BY <1>2, LocalsType
  <2> QED  BY <1>2, <1>4, <2>1 DEF Exec!Popped
<1>6. PICK d \in Seq(SUBSET Objects) : d = Exec!Popped(t, m_deadlocals) /\ Len(d) = Len(ms) + 1
  <2>1. PICK k \in Seq(SUBSET Objects) : k = Exec!Locals(t, m_deadlocals) /\ Len(k) = n + 1
    BY <1>2, LocalsType
  <2> QED  BY <1>2, <1>4, <2>1 DEF Exec!Popped
<1>7. m_methods' = [m_methods EXCEPT ![t] = ms]
  BY <1>1, <1>3 DEF ExecInv, Exec!ExecTypeOK
<1>8. /\ threads' \subseteq ThreadIds
      /\ m_methods' \in [ThreadIds -> Seq(Methods)]
      /\ m_locals' \in [ThreadIds -> Seq(SUBSET Objects)]
      /\ m_deadlocals' \in [ThreadIds -> Seq(SUBSET Objects)]
      /\ \A u \in ThreadIds \ threads' : m_methods'[u] = << >>
      /\ \A u \in threads' : /\ Len(m_locals'[u]) = Len(m_methods'[u]) + 1
                             /\ Len(m_deadlocals'[u]) = Len(m_methods'[u]) + 1
      /\ FrameSum(m_methods') + Len(m_methods[t]) = FrameSum(m_methods) + Len(ms)
      /\ FrameSum(m_methods) \in Nat /\ FrameSum(m_methods') \in Nat
      /\ Len(m_thread_stack) \in Nat
      /\ Len(m_thread_stack) <= FrameSum(m_methods)
  BY <1>1, <1>5, <1>6, <1>7, ThreadStep
<1>9. /\ m_thread_stack' \in Seq(threads')
      /\ Len(m_thread_stack') = IF Len(m_thread_stack) = 0 THEN 0 ELSE Len(m_thread_stack) - 1
  <2>1. PICK S : S = threads \cup {t}
    OBVIOUS
  <2>2. PICK s \in Seq(S) : s = m_thread_stack
    BY <2>1 DEF ExecInv, Exec!ExecTypeOK
  <2>3. CASE s = << >>
    <3>1. << >> \in Seq(S) /\ Len(<< >>) = 0
      OBVIOUS
    <3> QED  BY <1>1, <2>1, <2>2, <2>3, <3>1
  <2>4. CASE s # << >>
    <3>1. Exec!Front(s) \in Seq(S) /\ Len(Exec!Front(s)) = Len(s) - 1 /\ Len(s) # 0
      BY <2>4, FrontType
    <3> QED  BY <1>1, <2>1, <2>2, <2>4, <3>1
  <2> QED  BY <2>3, <2>4
<1>10. Len(m_thread_stack') <= FrameSum(m_methods')
  <2>1. PICK a \in Nat, b \in Nat, k \in Nat, j \in Nat :
           /\ a = FrameSum(m_methods) /\ b = FrameSum(m_methods')
           /\ k = Len(m_thread_stack) /\ j = Len(ms)
    BY <1>3, <1>8, LenProperties
  <2>2. b + n = a + j /\ k <= a /\ j = (IF n = 0 THEN 0 ELSE n - 1)
    BY <1>2, <1>3, <1>8, <2>1
  <2>3. (IF k = 0 THEN 0 ELSE k - 1) <= b
    BY <2>2
  <2> QED  BY <1>9, <2>1, <2>3
<1>11. /\ DOMAIN m_execPairCountMap' \subseteq Exec!Pairs
       /\ m_execPairCountMap' \in [DOMAIN m_execPairCountMap' -> Nat]
       /\ IsFiniteSet(DOMAIN m_execPairCountMap')
       /\ Exec!CountOf(m_execPairCountMap)' = m_meth_time'
  BY <1>1, CountsStay
<1>12. /\ m_meth_time' \in Nat /\ m_methexit_time' \in Nat /\ m_uptime' \in Nat
       /\ Exec!NowUp' \in Nat /\ Exec!NowUp <= Exec!NowUp'
  BY <1>1, TimesType DEF Exec!NowUp
<1>13. Exec!ExecTypeOK'
  BY <1>1, <1>8, <1>9, <1>11, <1>12 DEF ExecInv, Exec!ExecTypeOK
<1>14. Exec!StacksInStep'
  BY <1>8, <1>10, <1>11, FramesIsNext DEF Exec!StacksInStep
<1>15. ExecOK'
  BY <1>8, <1>11 DEF ExecOK
<1> QED  BY <1>12, <1>13, <1>14, <1>15 DEF ExecInv

\* Steps that leave the stacks.
LEMMA StacksStay ==
    ASSUME ExecInv, UNCHANGED <<Exec!stacks, m_meth_time, m_execPairCountMap>>
    PROVE  Exec!StacksInStep' /\ ExecOK'
<1>1. UNCHANGED <<threads, m_methods, m_locals, m_deadlocals, m_thread_stack>>
  BY DEF Exec!stacks
<1>2. /\ IsFiniteSet(DOMAIN m_execPairCountMap')
      /\ Exec!CountOf(m_execPairCountMap)' = m_meth_time'
  BY CountsStay
<1>3. /\ \A t \in threads : /\ Len(m_locals[t]) = Len(m_methods[t]) + 1
                            /\ Len(m_deadlocals[t]) = Len(m_methods[t]) + 1
      /\ Len(m_thread_stack) <= FrameSum(m_methods)
  BY FramesIs DEF ExecInv, Exec!StacksInStep
<1>4. Exec!StacksInStep'
  BY <1>1, <1>2, <1>3, FramesIsNext DEF Exec!StacksInStep
<1>5. ExecOK'
  BY <1>1, <1>2 DEF ExecInv, ExecOK
<1> QED  BY <1>4, <1>5

LEMMA TickOK ==
    ASSUME ExecInv, Exec!Tick
    PROVE  ExecInv' /\ Exec!NowUp' \in Nat /\ Exec!NowUp <= Exec!NowUp'
<1>1. /\ m_uptime' = m_uptime + 1
      /\ UNCHANGED <<Exec!stacks, m_meth_time, m_methexit_time, m_execPairCountMap,
                     m_deathPairCountMap, sites>>
  BY DEF Exec!Tick, Exec!contexts
<1>2. /\ m_meth_time' \in Nat /\ m_methexit_time' \in Nat /\ m_uptime' \in Nat
      /\ Exec!NowUp' \in Nat /\ Exec!NowUp <= Exec!NowUp'
  BY <1>1, TimesType DEF Exec!NowUp
<1>3. Exec!ExecTypeOK'
  BY <1>1, <1>2 DEF ExecInv, Exec!ExecTypeOK, Exec!stacks
<1>4. Exec!StacksInStep' /\ ExecOK'
  BY <1>1, StacksStay
<1> QED  BY <1>2, <1>3, <1>4 DEF ExecInv

LEMMA ObjectRootOK ==
    ASSUME ExecInv, NEW t \in ThreadIds, NEW o \in Objects, Exec!ObjectRoot(t, o)
    PROVE  ExecInv' /\ Exec!NowUp' \in Nat /\ Exec!NowUp <= Exec!NowUp'
<1>1. /\ threads' = threads \cup {t}
      /\ m_locals' = [m_locals EXCEPT ![t] =
                         Append(Exec!Front(Exec!Locals(t, m_locals)),
                                Exec!Last(Exec!Locals(t, m_locals)) \cup {o})]
      /\ m_deadlocals' = [m_deadlocals EXCEPT ![t] = Exec!Locals(t, m_deadlocals)]
      /\ UNCHANGED <<m_methods, m_thread_stack, m_meth_time, m_methexit_time, m_uptime,
                     m_execPairCountMap, m_deathPairCountMap, sites>>
  BY DEF Exec!ObjectRoot, Exec!clocks, Exec!contexts
<1>2. PICK ms \in Seq(Methods) : ms = m_methods[t] /\ Len(ms) \in Nat
  BY LocalsType, LenProperties
<1>3. PICK l \in Seq(SUBSET Objects) :
         /\ l = Append(Exec!Front(Exec!Locals(t, m_locals)),
                       Exec!Last(Exec!Locals(t, m_locals)) \cup {o})
         /\ Len(l) = Len(ms) + 1
  <2>1. PICK k \in Seq(SUBSET Objects) : k = Exec!Locals(t, m_locals) /\ Len(k) = Len(ms) + 1
    BY <1>2, LocalsType
  <2>2. k # << >> /\ Len(k) \in 1 .. Len(k)
    BY <1>2, <2>1
  <2>3. /\ Exec!Front(k) \in Seq(SUBSET Objects) /\ Len(Exec!Front(k)) = Len(ms)
    BY <1>2, <2>1, <2>2, FrontType
  <2>4. Exec!Last(k) = k[Len(k)]
    BY DEF Exec!Last
  <2>5. k[Len(k)] \in SUBSET Objects
    BY <2>2, ElementOfSeq
  <2>6. PICK front \in Seq(SUBSET Objects), last \in SUBSET Objects :
           front = Exec!Front(k) /\ last = Exec!Last(k) \cup {o}
    BY <2>3, <2>4, <2>5
  <2>7. Append(front, last) \in Seq(SUBSET Objects) /\ Len(Append(front, last)) = Len(front) + 1
    OBVIOUS
  <2> QED  BY <2>1, <2>3, <2>6, <2>7
<1>4. PICK d \in Seq(SUBSET Objects) : d = Exec!Locals(t, m_deadlocals) /\ Len(d) = Len(ms) + 1
  BY <1>2, LocalsType
<1>5. m_methods' = [m_methods EXCEPT ![t] = ms]
  BY <1>1, <1>2 DEF ExecInv, Exec!ExecTypeOK
<1>6. /\ threads' \subseteq ThreadIds
      /\ m_methods' \in [ThreadIds -> Seq(Methods)]
      /\ m_locals' \in [ThreadIds -> Seq(SUBSET Objects)]
      /\ m_deadlocals' \in [ThreadIds -> Seq(SUBSET Objects)]
      /\ \A u \in ThreadIds \ threads' : m_methods'[u] = << >>
      /\ \A u \in threads' : /\ Len(m_locals'[u]) = Len(m_methods'[u]) + 1
                             /\ Len(m_deadlocals'[u]) = Len(m_methods'[u]) + 1
      /\ FrameSum(m_methods') + Len(m_methods[t]) = FrameSum(m_methods) + Len(ms)
      /\ FrameSum(m_methods) \in Nat /\ FrameSum(m_methods') \in Nat
      /\ Len(m_thread_stack) \in Nat
      /\ Len(m_thread_stack) <= FrameSum(m_methods)
  BY <1>1, <1>3, <1>4, <1>5, ThreadStep
<1>7. m_thread_stack' \in Seq(threads')
  <2>1. m_thread_stack \in Seq(threads \cup {t})
    BY DEF ExecInv, Exec!ExecTypeOK
  <2> QED  BY <1>1, <2>1
<1>8. Len(m_thread_stack') <= FrameSum(m_methods')
  BY <1>1, <1>6
<1>9. /\ DOMAIN m_execPairCountMap' \subseteq Exec!Pairs
      /\ m_execPairCountMap' \in [DOMAIN m_execPairCountMap' -> Nat]
      /\ IsFiniteSet(DOMAIN m_execPairCountMap')
      /\ Exec!CountOf(m_execPairCountMap)' = m_meth_time'
  BY <1>1, CountsStay
<1>10. /\ m_meth_time' \in Nat /\ m_methexit_time' \in Nat /\ m_uptime' \in Nat
       /\ Exec!NowUp' \in Nat /\ Exec!NowUp <= Exec!NowUp'
  BY <1>1, TimesType DEF Exec!NowUp
<1>11. Exec!ExecTypeOK'
  BY <1>1, <1>6, <1>7, <1>9, <1>10 DEF ExecInv, Exec!ExecTypeOK
<1>12. Exec!StacksInStep'
  BY <1>6, <1>8, <1>9, FramesIsNext DEF Exec!StacksInStep
<1>13. ExecOK'
  BY <1>6, <1>9 DEF ExecOK
<1> QED  BY <1>10, <1>11, <1>12, <1>13 DEF ExecInv

LEMMA DeathContextOK ==
    ASSUME ExecInv, NEW o \in Objects, NEW deque \in Seq(Exec!Names),
           Exec!UpdateObj2DeathContext(o, deque)
    PROVE  ExecInv' /\ Exec!NowUp' = Exec!NowUp
<1> DEFINE top == SubSeq(deque \o <<NoMethod, NoMethod>>, 1, 2)
           n == Exec!FirstApp(top)
           nonlib == IF top[n] \notin LibMethods THEN top[n]
                     ELSE IF Len(deque) > 2 THEN Exec!RestLast(deque) ELSE NoMethod
<1>1. PICK past \in Junk :
         /\ sites' = [sites EXCEPT ![o] = [l1 |-> top[1],
                                           l2 |-> IF n = 2 THEN top[2] ELSE @.l2,
                                           nonlib |-> nonlib]]
         /\ m_deathPairCountMap' =
               Exec!Increment(m_deathPairCountMap, IF n = 2 THEN top ELSE <<top[1], past>>)
         /\ UNCHANGED <<Exec!stacks, m_meth_time, m_methexit_time, m_uptime, m_execPairCountMap>>
  BY DEF Exec!UpdateObj2DeathContext, Exec!clocks
<1>2. /\ top \in Seq(Exec!Names) /\ Len(top) = 2
      /\ top[1] \in Exec!Names /\ top[2] \in Exec!Names
      /\ top \in Exec!Names \X Exec!Names
  BY FirstTwo
<1> HIDE DEF top
<1>3. n \in {1, 2}
  <2>1. PICK s \in Seq(Exec!Names) : s = top /\ Len(s) = 2
    BY <1>2
  <2>2. s # << >>
    BY <2>1, EmptySeq
  <2>3. Exec!FirstApp(s) \in 1 .. Len(s)
    BY <2>2, FirstAppIs
  <2> QED  BY <2>1, <2>3
<1> HIDE DEF n
<1>4. nonlib \in Exec!Names
  <2>1. CASE Len(deque) > 2
    <3>1. Len(deque) \in 1 .. Len(deque)
      BY <2>1
    <3>2. Exec!RestLast(deque) = deque[Len(deque)]
      BY DEF Exec!RestLast, Exec!Last
    <3>3. Exec!RestLast(deque) \in Exec!Names
      BY <3>1, <3>2, ElementOfSeq
    <3> QED  BY <1>2, <1>3, <3>3, NamesType
  <2>2. CASE ~(Len(deque) > 2)
    BY <1>2, <1>3, <2>2, NamesType
  <2> QED  BY <2>1, <2>2
<1> HIDE DEF nonlib
<1>5. sites' \in [Objects -> [l1 : Exec!Names, l2 : Exec!Names,
                              nonlib : Exec!Names \cup {Exec!None}]]
  BY <1>1, <1>2, <1>4 DEF ExecInv, Exec!ExecTypeOK
<1>6. /\ DOMAIN m_deathPairCountMap' \subseteq Exec!Pairs
      /\ m_deathPairCountMap' \in [DOMAIN m_deathPairCountMap' -> Nat]
  <2>1. PICK pair \in Exec!Pairs : pair = IF n = 2 THEN top ELSE <<top[1], past>>
    BY <1>2 DEF Exec!Pairs
  <2>2. PICK map : map = m_deathPairCountMap
    OBVIOUS
  <2>3. DOMAIN map \subseteq Exec!Pairs /\ map \in [DOMAIN map -> Nat]
    BY <2>2 DEF ExecInv, Exec!ExecTypeOK
  <2>4. PICK more : more = Exec!Increment(map, pair)
    OBVIOUS
  <2>5. DOMAIN more = DOMAIN map \cup {pair} /\ more \in [DOMAIN more -> Nat]
    BY <2>3, <2>4, IncrementIs
  <2>6. more = m_deathPairCountMap'
    BY <1>1, <2>1, <2>2, <2>4
  <2> QED  BY <2>3, <2>5, <2>6
<1>7. Exec!ExecTypeOK'
  BY <1>1, <1>5, <1>6 DEF ExecInv, Exec!ExecTypeOK, Exec!stacks
<1>8. Exec!StacksInStep' /\ ExecOK'
  BY <1>1, StacksStay
<1>9. Exec!NowUp' = Exec!NowUp
  BY <1>1 DEF Exec!NowUp
<1> QED  BY <1>7, <1>8, <1>9 DEF ExecInv

LEMMA ExecStutters ==
    ASSUME ExecInv, UNCHANGED execVars
    PROVE  ExecInv' /\ Exec!NowUp' = Exec!NowUp
<1>1. UNCHANGED <<Exec!stacks, m_meth_time, m_methexit_time, m_uptime, m_execPairCountMap,
                  m_deathPairCountMap, sites>>
  BY DEF execVars, Exec!stacks
<1>2. Exec!ExecTypeOK'
  BY <1>1 DEF ExecInv, Exec!ExecTypeOK, Exec!stacks
<1>3. Exec!StacksInStep' /\ ExecOK'
  BY <1>1, StacksStay
<1> QED  BY <1>1, <1>2, <1>3 DEF ExecInv, Exec!NowUp

------------------------------------------------------------------------------
(* The invariant.                                                          *)

IInv == HeapInv /\ ExecInv /\ calls \in 0 .. MaxCalls

LEMMA HeapInitOK ==
    ASSUME Heap!Init
    PROVE  HeapInv
<1>1. /\ made = << >> /\ m_objects = [i \in {} |-> 0]
      /\ m_liveSize = 0 /\ m_maxLiveSize = 0
      /\ phase = "running" /\ left = {} /\ final = 0
      /\ total = [k \in Heap!Counters |-> 0] /\ size = [k \in Heap!Counters |-> 0]
      /\ deathSites = {} /\ again = 0
  BY DEF Heap!Init
<1>2. DOMAIN m_objects = {} /\ DOMAIN made = {} /\ Len(made) = 0
  BY <1>1
<1>3. Heap!HeapTypeOK
  <2>1. made \in Seq(Heap!ObjectType) /\ Len(made) <= MaxObjects
    BY <1>1, HeapAssumption
  <2>2. m_objects \in [DOMAIN m_objects -> DOMAIN made]
    BY <1>1, <1>2
  <2>3. m_liveSize \in 0 .. Long - 1 /\ m_maxLiveSize \in 0 .. Long - 1
    BY <1>1, SizesType
  <2>4. 0 \in 0 .. Word - 1
    BY SizesType
  <2> QED  BY <1>1, <1>2, <2>1, <2>2, <2>3, <2>4 DEF Heap!HeapTypeOK
<1>4. HeapOK
  BY <1>1, <1>2 DEF HeapOK
<1>5. Heap!LiveSizeExact
  <2>1. Heap!Undead = {}
    BY <1>2 DEF Heap!Undead
  <2>2. SizeSum(made, {}) = 0
    BY SumEmpty DEF SizeSum
  <2>3. Heap!SizeOf(Heap!Undead) = 0 /\ Heap!SizeOf(DOMAIN made) = 0
    BY <1>2, <1>3, <2>1, <2>2, LiveIs
  <2> QED  BY <1>1, <2>3 DEF Heap!LiveSizeExact
<1>6. CountsExact
  <2>1. Heap!Visited = {}
    BY <1>1 DEF Heap!Visited
  <2>2. \A k \in Heap!Counters : total[k] = 0 /\ size[k] = 0
    BY <1>1
  <2>3. Exact(Listed, {}, total, size, final)
    BY <2>2, NoneCounted
  <2> QED  BY <2>1, <2>3 DEF CountsExact
<1> QED  BY <1>3, <1>4, <1>5, <1>6 DEF HeapInv

LEMMA FrameSumType ==
    ASSUME NEW methods \in [ThreadIds -> Seq(Methods)]
    PROVE  FrameSum(methods) \in Nat
<1> DEFINE f == [u \in ThreadIds |-> Len(methods[u])]
<1>1. \A u \in ThreadIds : f[u] \in Nat
  OBVIOUS
<1>2. IsFiniteSet(ThreadIds)
  BY ExecAssumption
<1> HIDE DEF f
<1>3. Sum(f, ThreadIds) \in Nat
  BY ONLY <1>1, <1>2, SumRemove
<1> QED  BY <1>3 DEF FrameSum, f

LEMMA ExecInitOK ==
    ASSUME Exec!Init
    PROVE  ExecInv
<1>1. /\ threads = {}
      /\ m_methods = [t \in ThreadIds |-> << >>]
      /\ m_locals = [t \in ThreadIds |-> << >>]
      /\ m_deadlocals = [t \in ThreadIds |-> << >>]
      /\ m_thread_stack = << >>
      /\ m_meth_time = 0 /\ m_methexit_time = 0 /\ m_uptime = 0
      /\ m_execPairCountMap = [p \in {} |-> 0]
      /\ m_deathPairCountMap = [p \in {} |-> 0]
      /\ sites = [o \in Objects |-> [l1 |-> NoMethod, l2 |-> NoMethod, nonlib |-> Exec!None]]
  BY DEF Exec!Init
<1>2. DOMAIN m_execPairCountMap = {} /\ DOMAIN m_deathPairCountMap = {}
  BY <1>1
<1>3. Exec!ExecTypeOK
  <2>1. /\ m_methods \in [ThreadIds -> Seq(Methods)]
        /\ m_locals \in [ThreadIds -> Seq(SUBSET Objects)]
        /\ m_deadlocals \in [ThreadIds -> Seq(SUBSET Objects)]
        /\ m_thread_stack \in Seq(threads)
    BY <1>1
  <2>2. /\ m_execPairCountMap \in [DOMAIN m_execPairCountMap -> Nat]
        /\ m_deathPairCountMap \in [DOMAIN m_deathPairCountMap -> Nat]
    BY <1>1, <1>2
  <2>3. sites \in [Objects -> [l1 : Exec!Names, l2 : Exec!Names,
                               nonlib : Exec!Names \cup {Exec!None}]]
    BY <1>1, NamesType
  <2> QED  BY <1>1, <1>2, <2>1, <2>2, <2>3 DEF Exec!ExecTypeOK
<1>4. Exec!StacksInStep
  <2>1. Exec!CountOf(m_execPairCountMap) = 0
    BY <1>2, CountOfIs, SumEmpty
  <2>2. FrameSum(m_methods) \in Nat
    <3>1. m_methods \in [ThreadIds -> Seq(Methods)]
      BY <1>1
    <3> QED  BY <3>1, FrameSumType
  <2>3. Len(m_thread_stack) <= Exec!Frames
    <3>1. Len(m_thread_stack) = 0
      BY <1>1
    <3> QED  BY <2>2, <3>1, FramesIs
  <2> QED  BY <1>1, <2>1, <2>3 DEF Exec!StacksInStep
<1>5. ExecOK
  BY <1>1, <1>2, FS_EmptySet DEF ExecOK
<1> QED  BY <1>3, <1>4, <1>5 DEF ExecInv

\* An Object's number.
LEMMA NumberType ==
    ASSUME HeapInv, NEW id \in DOMAIN m_objects
    PROVE  m_objects[id] \in Objects
<1>1. m_objects[id] \in 1 .. Len(made) /\ Len(made) \in Nat /\ Len(made) <= MaxObjects
  BY GetType, MadeIs DEF HeapInv, Heap!HeapTypeOK
<1> QED  BY <1>1, HeapAssumption DEF Objects

LEMMA NextOK ==
    ASSUME IInv, [Next]_vars
    PROVE  IInv'
<1>1. HeapInv /\ ExecInv /\ calls \in 0 .. MaxCalls /\ MaxCalls \in Nat /\ Exec!NowUp \in Nat
  BY TimesType, ExecAssumption DEF IInv
<1>2. ASSUME OneMoreCall PROVE phase = "running" /\ calls' \in 0 .. MaxCalls
  BY <1>1, <1>2 DEF OneMoreCall
<1>3. CASE OneMoreCall /\ \E id \in Ids : HeapCall(id) /\ UNCHANGED execVars
  <2>1. PICK id \in Ids : HeapCall(id) /\ UNCHANGED execVars
    BY <1>3
  <2>2. ExecInv' /\ Exec!NowUp' = Exec!NowUp
    BY <1>1, <2>1, ExecStutters
  <2>3. HeapInv'
    BY <1>1, <1>2, <1>3, <2>1, <2>2, HeapCallOK
  <2> QED  BY <1>2, <1>3, <2>2, <2>3 DEF IInv
<1>4. CASE OneMoreCall /\ \E t \in ThreadIds : ExecCall(t) /\ UNCHANGED heapVars
  <2>1. PICK t \in ThreadIds : ExecCall(t) /\ UNCHANGED heapVars
    BY <1>4
  <2>2. ExecInv' /\ Exec!NowUp' \in Nat /\ Exec!NowUp <= Exec!NowUp'
    <3>1. CASE \E m \in Methods : Exec!Call(t, m)
      BY <1>1, <3>1, CallOK
    <3>2. CASE Exec!Return(t)
      BY <1>1, <3>2, ReturnOK
    <3>3. CASE \E id \in DOMAIN m_objects : Exec!ObjectRoot(t, m_objects[id])
      <4>1. PICK o \in Objects : Exec!ObjectRoot(t, o)
        BY <1>1, <3>3, NumberType
      <4> QED  BY <1>1, <4>1, ObjectRootOK
    <3> QED  BY <2>1, <3>1, <3>2, <3>3 DEF ExecCall
  <2>3. HeapInv'
    BY <1>1, <1>2, <1>4, <2>1, <2>2, HeapStays
  <2> QED  BY <1>2, <1>4, <2>2, <2>3 DEF IInv
<1>5. CASE OneMoreCall /\ Exec!Tick /\ UNCHANGED heapVars
  <2>1. ExecInv' /\ Exec!NowUp' \in Nat /\ Exec!NowUp <= Exec!NowUp'
    BY <1>1, <1>5, TickOK
  <2>2. HeapInv'
    BY <1>1, <1>2, <1>5, <2>1, HeapStays
  <2> QED  BY <1>2, <1>5, <2>1, <2>2 DEF IInv
<1>6. CASE OneMoreCall /\ \E t \in ThreadIds, id \in Ids : DeathContext(t, id) /\ UNCHANGED heapVars
  <2>1. PICK t \in ThreadIds, id \in Ids : DeathContext(t, id) /\ UNCHANGED heapVars
    BY <1>6
  <2>2. PICK o \in Objects, deque \in Seq(Exec!Names) : Exec!UpdateObj2DeathContext(o, deque)
    <3>1. m_methods[t] \in Seq(Methods)
      BY <1>1, LocalsType
    <3>2. /\ Exec!TopJavalibMethods(m_methods[t]) \in Seq(Exec!Names)
          /\ Exec!FullMethodStack(m_methods[t]) \in Seq(Exec!Names)
      BY <3>1, DequeType
    <3>3. m_objects[id] \in Objects
      BY <1>1, <2>1, NumberType DEF DeathContext
    <3> QED  BY <2>1, <3>2, <3>3 DEF DeathContext
  <2>3. ExecInv' /\ Exec!NowUp' = Exec!NowUp
    BY <1>1, <2>2, DeathContextOK
  <2>4. HeapInv'
    <3>1. Exec!NowUp' \in Nat /\ Exec!NowUp <= Exec!NowUp'
      BY <1>1, <2>3
    <3> QED  BY <1>1, <1>2, <1>6, <2>1, <3>1, HeapStays
  <2> QED  BY <1>2, <1>6, <2>3, <2>4 DEF IInv
<1>7. CASE Heap!EndOfProgram(Exec!NowUp) /\ UNCHANGED <<execVars, calls>>
  <2>1. ExecInv' /\ Exec!NowUp' = Exec!NowUp
    BY <1>1, <1>7, ExecStutters
  <2>2. HeapInv'
    BY <1>1, <1>7, <2>1, EndOfProgramOK
  <2> QED  BY <1>1, <1>7, <2>1, <2>2 DEF IInv
<1>8. CASE \E id \in left : Heap!EndObject(id, sites[m_objects[id]].l1) /\ UNCHANGED <<execVars, calls>>
  <2>1. PICK id \in left : /\ Heap!EndObject(id, sites[m_objects[id]].l1)
                           /\ UNCHANGED <<execVars, calls>>
    BY <1>8
  <2> PICK dsite : dsite = sites[m_objects[id]].l1
    OBVIOUS
  <2>2. ExecInv' /\ Exec!NowUp' = Exec!NowUp
    BY <1>1, <2>1, ExecStutters
  <2>3. HeapInv'
    BY <1>1, <2>1, <2>2, EndObjectOK
  <2> QED  BY <1>1, <2>1, <2>2, <2>3 DEF IInv
<1>9. CASE UNCHANGED vars
  <2>1. UNCHANGED <<heapVars, execVars>> /\ UNCHANGED execVars /\ UNCHANGED calls
    BY <1>9 DEF vars
  <2>2. ExecInv'
    BY <1>1, <2>1, ExecStutters
  <2>3. HeapInv'
    BY <1>1, <2>1, HeapStutters
  <2> QED  BY <1>1, <2>1, <2>2, <2>3 DEF IInv
<1> QED  BY <1>3, <1>4, <1>5, <1>6, <1>7, <1>8, <1>9 DEF Next

LEMMA Inductive == Spec => []IInv
<1>1. Init => IInv
  <2> SUFFICES ASSUME Init PROVE IInv
    OBVIOUS
  <2>1. Heap!Init /\ Exec!Init /\ calls = 0
    BY DEF Init
  <2> QED  BY <2>1, HeapInitOK, ExecInitOK, ExecAssumption DEF IInv
<1>2. IInv /\ [Next]_vars => IInv'
  BY NextOK
<1> QED  BY <1>1, <1>2, PTL DEF Spec

------------------------------------------------------------------------------
(* What the invariant says of every behaviour.                             *)

\* The heap and the execution state keep their types: numbers of objects are
\* in range, the live size fits an unsigned long, no returns, calls or deaths
\* leave a stack, a deque or a map of counts malformed.
THEOREM TypeCorrect == Spec => []TypeOK
<1>1. IInv => TypeOK
  BY DEF IInv, HeapInv, ExecInv, TypeOK
<1> QED  BY <1>1, Inductive, PTL

\* At the end of the program each object is counted under one cause, with its
\* size, and under the cause that its flags say: whatever objects were made,
\* displaced, allocated again and killed before it in whatever order, and up to the
\* wrapping of an unsigned int of any width (update_death_counters and
\* __end_of_program).
THEOREM CountersCorrect == Spec => []CountersAgree
<1>1. IInv => CountersAgree
  BY CountersFollow DEF IInv, HeapInv, CountersAgree
<1> QED  BY <1>1, Inductive, PTL

\* The live size never is more than the size of the objects that are not dead and
\* of those allocated again, and is just that while all sizes together fit an
\* unsigned long, however often an object is killed and whatever id or object is
\* allocated again (both overloads of allocate, makeDead).
THEOREM LiveSizeCorrect == Spec => []LiveSizeExact
<1>1. IInv => LiveSizeExact
  BY DEF IInv, HeapInv, LiveSizeExact
<1> QED  BY <1>1, Inductive, PTL

\* Whatever returns come without a call, each thread has one set of local
\* variables more than it has frames, no entry of the stack of threads is left
\* when every frame is gone, and each call is counted under one context.
THEOREM StacksCorrect == Spec => []StacksInStep
<1>1. IInv => StacksInStep
  BY DEF IInv, ExecInv, StacksInStep
<1> QED  BY <1>1, Inductive, PTL

------------------------------------------------------------------------------
(* Contexts of death.                                                      *)

\* top_javalib_methods ends with the innermost method that is not of a library.
LEMMA EndsAtApp ==
    ASSUME NEW methods \in Seq(Methods), NEW a \in DOMAIN methods,
           methods[a] \notin LibMethods,
           \A j \in DOMAIN methods : methods[j] \notin LibMethods => j <= a
    PROVE  LET deque == Exec!TopJavalibMethods(methods) IN
           /\ deque \in Seq(Exec!Names) /\ Len(deque) \in Nat /\ Len(deque) >= 1
           /\ deque[Len(deque)] = methods[a]
           /\ \A k \in 1 .. Len(deque) - 1 : deque[k] \in LibMethods
<1>1. PICK n \in Nat : n = Len(methods) /\ a \in 1 .. n /\ DOMAIN methods = 1 .. n
  BY LenProperties
<1>2. methods # << >> /\ methods \in Seq(Exec!Names)
  BY <1>1, NamesType
<1>3. PICK r \in Seq(Exec!Names) :
         /\ r = Exec!Reverse(methods) /\ Len(r) = n /\ r # << >>
         /\ \A k \in 1 .. n : r[k] = methods[n - k + 1]
  <2>1. /\ Exec!Reverse(methods) \in Seq(Exec!Names) /\ Len(Exec!Reverse(methods)) = n
        /\ \A k \in 1 .. n : Exec!Reverse(methods)[k] = methods[n - k + 1]
    BY <1>1, <1>2, ReverseType
  <2> QED  BY <1>1, <2>1, EmptySeq
<1>4. PICK f \in 1 .. n :
         /\ f = Exec!FirstApp(r)
         /\ \A k \in 1 .. f - 1 : r[k] \in LibMethods
         /\ r[f] \in LibMethods => \A k \in 1 .. n : r[k] \in LibMethods
  BY <1>3, FirstAppIs
<1>5. n - a + 1 \in 1 .. n /\ n - (n - a + 1) + 1 = a
  BY <1>1
<1>6. r[n - a + 1] = methods[a]
  BY <1>3, <1>5
<1>7. r[f] \notin LibMethods
  BY <1>4, <1>5, <1>6
<1>8. n - f + 1 \in 1 .. n /\ r[f] = methods[n - f + 1]
  <2>1. n - f + 1 \in 1 .. n
    BY <1>1, <1>4
  <2> QED  BY <1>3, <1>4, <2>1
<1>9. n - f + 1 <= a
  BY <1>1, <1>7, <1>8
<1>10. ~(n - a + 1 < f)
  <2>1. SUFFICES ASSUME n - a + 1 < f PROVE FALSE
    OBVIOUS
  <2>2. n - a + 1 \in 1 .. f - 1
    BY <1>1, <1>4, <1>5, <2>1
  <2> QED  BY <1>4, <1>6, <2>2
<1>11. n - f + 1 = a
  BY <1>1, <1>4, <1>9, <1>10
<1>12. PICK deque \in Seq(Exec!Names) :
         /\ deque = Exec!TopJavalibMethods(methods) /\ Len(deque) = f
         /\ \A k \in 1 .. f : deque[k] = r[k]
  <2>1. /\ SubSeq(r, 1, f) \in Seq(Exec!Names) /\ Len(SubSeq(r, 1, f)) = f
        /\ \A k \in 1 .. f : SubSeq(r, 1, f)[k] = r[k]
    BY <1>3, <1>4
  <2>2. Exec!TopJavalibMethods(methods) = SubSeq(r, 1, f)
    BY <1>2, <1>3, <1>4 DEF Exec!TopJavalibMethods
  <2> QED  BY <2>1, <2>2
<1>13. f \in Nat /\ f >= 1 /\ f \in 1 .. f /\ \A k \in 1 .. f - 1 : k \in 1 .. f
  BY <1>4
<1>14. deque[f] = methods[a] /\ \A k \in 1 .. f - 1 : deque[k] \in LibMethods
  BY <1>4, <1>8, <1>11, <1>12, <1>13
<1> QED  BY <1>12, <1>13, <1>14

\* Of such a deque the site records the last method.
LEMMA SiteIs ==
    ASSUME ExecInv, NEW o \in Objects, NEW deque \in Seq(Exec!Names), NEW m \in Exec!Names,
           Len(deque) \in Nat, Len(deque) >= 1,
           deque[Len(deque)] = m, m \notin LibMethods,
           \A k \in 1 .. Len(deque) - 1 : deque[k] \in LibMethods,
           Exec!UpdateObj2DeathContext(o, deque)
    PROVE  sites'[o].nonlib = m
<1> DEFINE top == SubSeq(deque \o <<NoMethod, NoMethod>>, 1, 2)
           n == Exec!FirstApp(top)
           nonlib == IF top[n] \notin LibMethods THEN top[n]
                     ELSE IF Len(deque) > 2 THEN Exec!RestLast(deque) ELSE NoMethod
<1>1. sites' = [sites EXCEPT ![o] = [l1 |-> top[1],
                                     l2 |-> IF n = 2 THEN top[2] ELSE @.l2,
                                     nonlib |-> nonlib]]
  BY DEF Exec!UpdateObj2DeathContext
<1>2. DOMAIN sites = Objects
  BY DEF ExecInv, Exec!ExecTypeOK
<1>3. sites'[o].nonlib = nonlib
  <2> HIDE DEF nonlib, n, top
  <2> QED  BY <1>1, <1>2
<1>4. /\ top \in Seq(Exec!Names) /\ Len(top) = 2
      /\ top[1] = deque[1]
      /\ top[2] = IF Len(deque) >= 2 THEN deque[2] ELSE NoMethod
      /\ top # << >>
  BY FirstTwo
<1> HIDE DEF top
<1>5. /\ n \in 1 .. 2
      /\ \A k \in 1 .. n - 1 : top[k] \in LibMethods
      /\ top[n] \in LibMethods => \A k \in 1 .. 2 : top[k] \in LibMethods
  <2>1. PICK s \in Seq(Exec!Names) : s = top /\ s # << >> /\ Len(s) = 2
    BY <1>4
  <2>2. /\ Exec!FirstApp(s) \in 1 .. Len(s)
        /\ \A k \in 1 .. Exec!FirstApp(s) - 1 : s[k] \in LibMethods
        /\ s[Exec!FirstApp(s)] \in LibMethods => \A k \in 1 .. Len(s) : s[k] \in LibMethods
    BY <2>1, FirstAppIs
  <2> QED  BY <2>1, <2>2
<1>6. NoMethod \notin LibMethods
  BY NamesType
<1>7. n = 1 \/ n = 2
  BY <1>5
<1> HIDE DEF n
<1>8. CASE Len(deque) = 1
  <2>1. top[1] = m
    BY <1>4, <1>8
  <2>2. n = 1
    <3>1. n = 2 => 1 \in 1 .. n - 1
      OBVIOUS
    <3> QED  BY <1>5, <1>7, <2>1, <3>1
  <2> QED  BY <1>3, <2>1, <2>2
<1>9. CASE Len(deque) = 2
  <2>1. top[2] = m /\ top[1] \in LibMethods
    BY <1>4, <1>9
  <2>2. n = 2
    <3>1. 2 \in 1 .. 2
      OBVIOUS
    <3> QED  BY <1>5, <1>7, <2>1, <3>1
  <2> QED  BY <1>3, <2>1, <2>2
<1>10. CASE Len(deque) > 2
  <2>1. top[1] \in LibMethods /\ top[2] \in LibMethods
    BY <1>4, <1>10
  <2>2. Exec!RestLast(deque) = m
    BY DEF Exec!RestLast, Exec!Last
  <2> QED  BY <1>3, <1>7, <1>10, <2>1, <2>2
<1>11. PICK depth \in Nat : depth = Len(deque) /\ depth >= 1
  OBVIOUS
<1> QED  BY <1>8, <1>9, <1>10, <1>11

\* When an object dies in a thread that is anywhere inside a method of the
\* program, UpdateObj2DeathContext records the innermost such method, whether it
\* is one of the two methods of the site or lies deeper (top_javalib_methods).
THEOREM NonLibraryCorrect == Spec => NonLibraryContext
<1> DEFINE App(methods) == {k \in DOMAIN methods : methods[k] \notin LibMethods}
           Innermost(methods) == CHOOSE k \in App(methods) : \A j \in App(methods) : j <= k
           Right == \A t \in ThreadIds, id \in DOMAIN m_objects :
                       /\ App(m_methods[t]) # {}
                       /\ Exec!UpdateObj2DeathContext(m_objects[id],
                                                      Exec!TopJavalibMethods(m_methods[t]))
                       => sites'[m_objects[id]].nonlib = m_methods[t][Innermost(m_methods[t])]
<1>1. IInv => Right
  <2> SUFFICES ASSUME IInv, NEW t \in ThreadIds, NEW id \in DOMAIN m_objects,
                      App(m_methods[t]) # {},
                      Exec!UpdateObj2DeathContext(m_objects[id],
                                                  Exec!TopJavalibMethods(m_methods[t]))
               PROVE  sites'[m_objects[id]].nonlib = m_methods[t][Innermost(m_methods[t])]
    OBVIOUS
  <2>1. PICK methods \in Seq(Methods) : methods = m_methods[t]
    BY DEF IInv, ExecInv, Exec!ExecTypeOK
  <2>2. PICK o \in Objects : o = m_objects[id]
    BY NumberType DEF IInv
  <2>3. PICK a \in App(methods) : \A j \in App(methods) : j <= a
    <3>1. PICK n \in Nat : DOMAIN methods = 1 .. n
      BY <2>1, LenProperties
    <3> DEFINE depths == {n - k + 1 : k \in App(methods)}
    <3>2. depths \subseteq Nat /\ depths # {} /\ App(methods) \subseteq 1 .. n
      BY <2>1, <3>1
    <3>3. PICK d \in depths : \A e \in depths : d <= e
      <4> HIDE DEF depths
      <4> QED  BY <3>2, NatMin
    <3>4. PICK a \in App(methods) : d = n - a + 1
      BY <3>3
    <3>5. ASSUME NEW j \in App(methods) PROVE j <= a
      <4>1. d <= n - j + 1 /\ j \in 1 .. n /\ a \in 1 .. n
        BY <3>2, <3>3, <3>4
      <4> QED  BY <3>4, <4>1
    <3> QED  BY <3>5
  <2>4. PICK b \in App(methods) : b = Innermost(methods) /\ \A j \in App(methods) : j <= b
    BY <2>3
  <2>5. /\ b \in DOMAIN methods /\ methods[b] \notin LibMethods
        /\ \A j \in DOMAIN methods : methods[j] \notin LibMethods => j <= b
    BY <2>4
  <2>6. methods[b] \in Exec!Names
    BY <2>5, NamesType
  <2>7. PICK deque \in Seq(Exec!Names) :
          /\ deque = Exec!TopJavalibMethods(methods)
          /\ Len(deque) \in Nat /\ Len(deque) >= 1
          /\ deque[Len(deque)] = methods[b]
          /\ \A k \in 1 .. Len(deque) - 1 : deque[k] \in LibMethods
    BY <2>5, EndsAtApp
  <2>8. Exec!UpdateObj2DeathContext(o, deque)
    BY <2>1, <2>2, <2>7
  <2>9. sites'[o].nonlib = methods[b]
    BY ONLY IInv, <2>2, <2>5, <2>6, <2>7, <2>8, SiteIs DEF IInv
  <2> QED  BY <2>1, <2>2, <2>4, <2>9
<1>2. IInv => [Right]_vars
  BY <1>1
<1> QED  BY <1>2, Inductive, PTL DEF NonLibraryContext
==============================================================================
