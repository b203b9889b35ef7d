------------------------- MODULE DisjointSetsProofs -------------------------
(***************************************************************************)
(* DisjointSets is a partition, for any finite set of objects: types, the  *)
(* forest's own invariants, and that every step is a step of Partition or  *)
(* a stutter.  That calls return is left to the run.                       *)
(***************************************************************************)
EXTENDS DisjointSets, FiniteSetTheorems, SequenceTheorems, WellFoundedInduction, TLAPS

(* Powers of two: the function that TwoTo is defined by exists, since the  *)
(* least number up to which it does not would have one before it.          *)

LEMMA NatMin ==
    ASSUME NEW T, T \subseteq Nat, T # {}
    PROVE  \E x \in T : \A y \in T : x <= y
<1>1. PICK x \in T : \A y \in T : <<y, x>> \notin OpToRel(<, Nat)
  BY NatLessThanWellFounded, WFMin
<1>2. \A y \in T : ~ (y < x)
  BY <1>1 DEF OpToRel
<1>3. x \in Nat /\ \A y \in T : y \in Nat
  OBVIOUS
<1> QED  BY <1>2, <1>3

\* f doubles up to n.
Doubles(f, n) == f \in [Nat -> Nat] /\ \A k \in 0 .. n : f[k] = IF k = 0 THEN 1 ELSE 2 * f[k - 1]

LEMMA DoublesUpTo == \A n \in Nat : \E f : Doubles(f, n)
<1> DEFINE Bad == {n \in Nat : ~ \E f : Doubles(f, n)}
<1>1. SUFFICES ASSUME Bad # {} PROVE FALSE
  OBVIOUS
<1>2. PICK n \in Nat : n \in Bad /\ \A k \in Bad : n <= k
  <2>1. Bad \subseteq Nat
    OBVIOUS
  <2> HIDE DEF Bad
  <2> QED  BY <1>1, <2>1, NatMin
<1>3. ~ \E f : Doubles(f, n)
  BY <1>2
<1>4. CASE n = 0
  <2> DEFINE f == [k \in Nat |-> 1]
  <2>1. Doubles(f, n)
    BY <1>4 DEF Doubles
  <2> QED  BY <1>3, <2>1
<1>5. CASE n # 0
  <2>1. n - 1 \in Nat /\ n - 1 \notin Bad
    BY <1>2, <1>5
  <2>2. PICK f : Doubles(f, n - 1)
    BY <2>1
  <2> DEFINE g == [k \in Nat |-> IF k = n THEN 2 * f[n - 1] ELSE f[k]]
  <2>3. f \in [Nat -> Nat] /\ f[n - 1] \in Nat
    BY <2>1, <2>2 DEF Doubles
  <2>4. g \in [Nat -> Nat] /\ \A k \in Nat : g[k] = IF k = n THEN 2 * f[n - 1] ELSE f[k]
    BY <2>3
  <2> HIDE DEF g
  <2>5. ASSUME NEW k \in 0 .. n PROVE g[k] = IF k = 0 THEN 1 ELSE 2 * g[k - 1]
    <3>1. CASE k = n
      <4>1. k # 0 /\ k - 1 \in Nat /\ k - 1 # n /\ k \in Nat
        BY <1>5, <2>1, <3>1
      <4> QED  BY <2>4, <3>1, <4>1
    <3>2. CASE k # n
      <4>1. k \in 0 .. n - 1 /\ k \in Nat
        BY <2>1, <3>2
      <4>2. f[k] = IF k = 0 THEN 1 ELSE 2 * f[k - 1]
        BY <2>2, <4>1 DEF Doubles
      <4>3. k # 0 => k - 1 \in Nat /\ k - 1 # n
        BY <4>1
      <4> QED  BY <2>4, <3>2, <4>1, <4>2, <4>3
    <3> QED  BY <3>1, <3>2
  <2>6. Doubles(g, n)
    BY <2>4, <2>5 DEF Doubles
  <2> QED  BY <1>3, <2>6
<1> QED  BY <1>4, <1>5

LEMMA DoublesAgree ==
    ASSUME NEW n \in Nat, NEW m \in Nat, n <= m, NEW f, NEW g, Doubles(f, n), Doubles(g, m)
    PROVE  f[n] = g[n]
<1> DEFINE Bad == {k \in 0 .. n : f[k] # g[k]}
<1>1. SUFFICES ASSUME Bad # {} PROVE FALSE
  <2>1. n \in 0 .. n
    OBVIOUS
  <2> QED  BY <2>1
<1>2. PICK k \in 0 .. n : k \in Bad /\ \A j \in Bad : k <= j
  <2>1. Bad \subseteq Nat /\ Bad \subseteq 0 .. n
    OBVIOUS
  <2> HIDE DEF Bad
  <2> QED  BY <1>1, <2>1, NatMin
<1>3. k \in 0 .. m /\ f[k] # g[k]
  BY <1>2
<1>4. f[k] = (IF k = 0 THEN 1 ELSE 2 * f[k - 1]) /\ g[k] = (IF k = 0 THEN 1 ELSE 2 * g[k - 1])
  BY <1>3 DEF Doubles
<1>5. k # 0
  BY <1>3, <1>4
<1>6. k - 1 \in 0 .. n /\ ~(k <= k - 1)
  BY <1>5
<1>7. f[k - 1] = g[k - 1]
  BY <1>2, <1>6
<1> QED  BY <1>3, <1>4, <1>7

LEMMA TwoToIs ==
    /\ TwoTo \in [Nat -> Nat] /\ TwoTo[0] = 1
    /\ \A n \in Nat : TwoTo[n + 1] = 2 * TwoTo[n]
<1> DEFINE Upto(n) == CHOOSE f : Doubles(f, n)
           it == [n \in Nat |-> Upto(n)[n]]
<1>1. ASSUME NEW n \in Nat PROVE Doubles(Upto(n), n)
  BY DoublesUpTo
<1> HIDE DEF Upto
<1>2. it \in [Nat -> Nat]
  BY <1>1 DEF Doubles
<1>3. ASSUME NEW n \in Nat PROVE it[n] = IF n = 0 THEN 1 ELSE 2 * it[n - 1]
  <2>1. Upto(n)[n] = IF n = 0 THEN 1 ELSE 2 * Upto(n)[n - 1]
    <3>1. n \in 0 .. n
      OBVIOUS
    <3> QED  BY <1>1, <3>1 DEF Doubles
  <2>2. ASSUME n # 0 PROVE n - 1 \in Nat /\ Upto(n)[n - 1] = Upto(n - 1)[n - 1]
    <3>1. n - 1 \in Nat /\ n - 1 <= n
      BY <2>2
    <3>2. Doubles(Upto(n), n) /\ Doubles(Upto(n - 1), n - 1)
      BY <1>1, <3>1
    <3> QED  BY <3>1, <3>2, DoublesAgree
  <2> QED  BY <2>1, <2>2
<1>4. it = [n \in Nat |-> IF n = 0 THEN 1 ELSE 2 * it[n - 1]]
  <2>1. it = [n \in Nat |-> it[n]]
    OBVIOUS
  <2> HIDE DEF it
  <2> QED  BY <1>3, <2>1
<1> HIDE DEF it
<1>5. TwoTo = [n \in Nat |-> IF n = 0 THEN 1 ELSE 2 * TwoTo[n - 1]]
  BY <1>4 DEF TwoTo
<1>6. \A n \in Nat : TwoTo[n] = IF n = 0 THEN 1 ELSE 2 * TwoTo[n - 1]
  BY <1>5
<1>7. ASSUME NEW n \in Nat PROVE TwoTo[n] = it[n]
  <2> DEFINE Bad == {k \in Nat : TwoTo[k] # it[k]}
  <2>1. SUFFICES ASSUME Bad # {} PROVE FALSE
    OBVIOUS
  <2>2. PICK k \in Nat : k \in Bad /\ \A j \in Bad : k <= j
    <3>1. Bad \subseteq Nat
      OBVIOUS
    <3> HIDE DEF Bad
    <3> QED  BY <2>1, <3>1, NatMin
  <2>3. TwoTo[k] # it[k] /\ k # 0
    BY <1>3, <1>6, <2>2
  <2>4. k - 1 \in Nat /\ TwoTo[k - 1] = it[k - 1]
    BY <2>2, <2>3
  <2> QED  BY <1>3, <1>6, <2>3, <2>4
<1>8. ASSUME NEW n \in Nat PROVE n + 1 \in Nat /\ n + 1 # 0 /\ n + 1 - 1 = n
  OBVIOUS
<1>9. DOMAIN TwoTo = Nat
  BY <1>5
<1> QED  BY <1>2, <1>5, <1>6, <1>7, <1>8, <1>9
-----------------------------------------------------------------------------

\* A set is named by one of its objects.
Named == \A x \in Known : chief[chief[x]] = chief[x]

\* The calls of find that have not returned climb one path of one tree.
Climbing ==
    /\ \A i, j \in DOMAIN path : /\ chief[path[i]] = chief[path[1]]
                                 /\ i < j => m_rank[path[i]] < m_rank[path[j]]
    /\ root # Nothing =>
          /\ path # << >>
          /\ root = chief[path[1]]
          /\ \A i \in DOMAIN path : path[i] = root \/ m_rank[path[i]] < m_rank[root]

Under(op) == call # Nothing /\ call.op = op

\* Objects get_sets has done with.
Visited == {x \in Known : x \notin todo /\ (path # << >> => x # path[1])}

\* What the methods' local variables have come to.
Calling ==
    /\ call = Nothing => path = << >>
    /\ call # Nothing => Sets!Legal(call, Known)
    /\ Under("make_set") => path = << >>
    /\ Under("find") => path # << >> /\ path[1] = call.a
    /\ Under("setunion") =>
          \/ found = << >> /\ path # << >> /\ path[1] = call.a
          \/ Len(found) = 1 /\ path # << >> /\ path[1] = call.b /\ found[1] = chief[call.a]
          \/ /\ Len(found) = 2 /\ path = << >>
             /\ found[1] = chief[call.a] /\ found[2] = chief[call.b]
    /\ Under("get_sets") =>
          /\ path # << >> => path[1] \notin todo
          /\ the_sets = [r \in {chief[x] : x \in Visited} |-> {x \in Visited : chief[x] = r}]

Forest == SetsExact /\ Named

IInv == TypeOK /\ Forest /\ Climbing /\ Calling

AbstractStep == [Sets!Next]_<<chief, call, answer>>
-----------------------------------------------------------------------------
\* The forest's part of the invariant holds as long as nobody writes to it.
LEMMA ForestKept == ASSUME Forest, UNCHANGED forest PROVE Forest'
BY DEF Forest, SetsExact, forest, ParentsInside, RanksGrow, RootSizes, RanksBySize, Named, Known, IsRoot,
       Sets!SetNamed

LEMMA StartStep ==
    ASSUME IInv, NEW c \in Sets!CallType, Start(c)
    PROVE  IInv' /\ AbstractStep
<1>1. DOMAIN m_parent = Known /\ DOMAIN m_set_size = Known
  BY DEF IInv, TypeOK
<1>2. /\ call = Nothing /\ call' = c /\ Sets!Legal(c, Known) /\ root = Nothing /\ root' = Nothing
      /\ answer' = Nothing /\ found' = << >> /\ the_sets' = Empty
      /\ UNCHANGED <<m_parent, m_rank, m_set_size, chief>>
      /\ path' = IF c.op \in {"find", "setunion"} THEN <<c.a>> ELSE << >>
      /\ todo' = IF c.op = "get_sets" THEN Known ELSE {}
  BY <1>1 DEF Start, forest, IInv, Climbing, Calling
<1>3. c # Nothing
  BY ObjectsAssumption
<1>4. c.op \in {"find", "setunion"} => c.a \in Known
  BY <1>2 DEF Sets!Legal
<1>5. TypeOK'
  <2>1. path' \in Seq(Known)
    BY <1>2, <1>4
  <2> QED  BY <1>2, <2>1 DEF IInv, TypeOK, Known, Empty
<1>6. Forest'
  BY <1>2, ForestKept DEF IInv, forest
<1>7. Climbing'
  BY <1>2 DEF Climbing
<1>8. Calling'
  <2>1. Visited' = {} \/ c.op # "get_sets"
    BY <1>2 DEF Visited, Known
  <2> QED  BY <1>2, <1>3, <2>1 DEF Calling, Under, Known, Empty, Sets!CallType, Sets!Operations
<1>9. Sets!Call(c)
  BY <1>2 DEF Sets!Call, Sets!Known, Known
<1> QED  BY <1>5, <1>6, <1>7, <1>8, <1>9 DEF IInv, AbstractStep, Sets!Next

LEMMA MakeSetStep == ASSUME IInv, MakeSet PROVE IInv' /\ AbstractStep
<1>0. PICK x : x = call.a
  OBVIOUS
<1>1. /\ call # Nothing /\ call.op = "make_set" /\ x \in Objects /\ call' = Nothing
      /\ path = << >> /\ path' = << >> /\ root = Nothing /\ root' = Nothing
      /\ UNCHANGED <<found, todo, the_sets, answer>>
      /\ DOMAIN m_parent = Known
  BY <1>0 DEF MakeSet, search, locals, IInv, TypeOK, Sets!CallType, Climbing, Calling, Under
<1>2. Climbing' /\ Calling'
  BY <1>1 DEF Climbing, Calling, Under
<1>3. CASE x \in Known
  <2>1. UNCHANGED <<m_parent, m_rank, m_set_size, chief>>
    BY <1>0, <1>1, <1>3 DEF MakeSet, forest
  <2>2. TypeOK'
    BY <1>1, <2>1 DEF IInv, TypeOK, Known
  <2>3. Forest'
    BY <2>1, ForestKept DEF IInv, forest
  <2>4. Sets!Return
    BY <1>0, <1>1, <1>3, <2>1 DEF Sets!Return, Sets!Made, Known
  <2> QED  BY <1>2, <2>2, <2>3, <2>4 DEF IInv, AbstractStep, Sets!Next
<1>4. CASE x \notin Known
  <2>1. /\ m_parent' = With(m_parent, x, x) /\ m_rank' = With(m_rank, x, 0)
        /\ m_set_size' = With(m_set_size, x, 1) /\ chief' = With(chief, x, x)
    BY <1>0, <1>1, <1>4 DEF MakeSet, SizeOne
  <2>2. /\ Known' = Known \cup {x}
        /\ chief' \in [Known' -> Known'] /\ m_parent' \in [Known' -> Known']
        /\ m_rank' \in [Known' -> Nat] /\ m_set_size' \in [Known' -> Nat]
        /\ chief'[x] = x /\ m_parent'[x] = x /\ m_rank'[x] = 0 /\ m_set_size'[x] = 1
        /\ \A y \in Known : /\ chief'[y] = chief[y] /\ m_parent'[y] = m_parent[y]
                            /\ m_rank'[y] = m_rank[y] /\ m_set_size'[y] = m_set_size[y]
        /\ \A y \in Known : chief[y] \in Known /\ m_parent[y] \in Known
    <3>1. /\ chief \in [Known -> Known] /\ m_parent \in [Known -> Known]
          /\ m_rank \in [Known -> Nat] /\ m_set_size \in [Known -> Nat]
      BY DEF IInv, TypeOK
    <3>2. /\ chief' \in [Known \cup {x} -> Known \cup {x}] /\ chief'[x] = x
          /\ \A y \in Known : y # x => chief'[y] = chief[y]
      BY <2>1, <3>1 DEF With
    <3>3. /\ m_parent' \in [Known \cup {x} -> Known \cup {x}] /\ m_parent'[x] = x
          /\ \A y \in Known : y # x => m_parent'[y] = m_parent[y]
      BY <2>1, <3>1 DEF With
    <3>4. /\ m_rank' \in [Known \cup {x} -> Nat \cup {0}] /\ m_rank'[x] = 0
          /\ \A y \in Known : y # x => m_rank'[y] = m_rank[y]
      BY <2>1, <3>1 DEF With
    <3>5. /\ m_set_size' \in [Known \cup {x} -> Nat \cup {1}] /\ m_set_size'[x] = 1
          /\ \A y \in Known : y # x => m_set_size'[y] = m_set_size[y]
      BY <2>1, <3>1 DEF With
    <3>6. Known' = Known \cup {x}
      BY <3>2 DEF Known
    <3>7. Nat \cup {0} = Nat /\ Nat \cup {1} = Nat
      OBVIOUS
    <3> QED  BY <1>4, <3>1, <3>2, <3>3, <3>4, <3>5, <3>6, <3>7
  <2>3. TypeOK'
    <3>1. /\ found' \in Seq(Known') /\ path' \in Seq(Known')
      BY <1>1, <2>2 DEF IInv, TypeOK
    <3>2. Known' \subseteq Objects
      BY <1>1, <2>2 DEF IInv, TypeOK
    <3>3. /\ todo' \subseteq Known' /\ DOMAIN the_sets' \subseteq Known'
          /\ the_sets' \in [DOMAIN the_sets' -> SUBSET Known']
      BY <1>1, <2>2 DEF IInv, TypeOK
    <3> QED  BY <1>1, <2>2, <3>1, <3>2, <3>3 DEF TypeOK
  <2>4. ParentsInside' /\ RanksGrow' /\ Named'
    BY <1>4, <2>2 DEF IInv, Forest, SetsExact, ParentsInside, RanksGrow, Named, IsRoot
  <2>5. RootSizes'
    <3>1. Sets!SetNamed(chief, x)' = {x}
      BY <1>4, <2>2 DEF Sets!SetNamed, Known
    <3>2. \A r \in Known : Sets!SetNamed(chief, r)' = Sets!SetNamed(chief, r)
      BY <1>4, <2>2 DEF Sets!SetNamed, Known
    <3>3. Cardinality({x}) = 1
      BY FS_Singleton
    <3> QED  BY <1>4, <2>2, <3>1, <3>2, <3>3 DEF IInv, Forest, SetsExact, RootSizes, IsRoot
  <2>6. RanksBySize'
    BY <1>4, <2>2, TwoToIs DEF IInv, Forest, SetsExact, RanksBySize, IsRoot
  <2>7. Sets!Return
    BY <1>0, <1>1, <1>4, <2>1 DEF Sets!Return, Sets!Made, With, Known
  <2> QED  BY <1>2, <2>3, <2>4, <2>5, <2>6, <2>7 DEF IInv, Forest, SetsExact, AbstractStep, Sets!Next
<1> QED  BY <1>3, <1>4
-----------------------------------------------------------------------------
(* find                                                                    *)

LEMMA DescendStep == ASSUME IInv, Descend PROVE IInv' /\ AbstractStep
<1> DEFINE n == Len(path)
           up == m_parent[path[n]]
<1>1. /\ path \in Seq(Known) /\ path # << >> /\ root = Nothing /\ root' = Nothing
      /\ UNCHANGED <<m_parent, m_rank, m_set_size, chief, call, found, todo, the_sets, answer>>
      /\ n \in Nat \ {0} /\ DOMAIN path = 1 .. n /\ path[n] \in Known /\ up \in Known
      /\ up # path[n] /\ path' = Append(path, up)
  BY DEF Descend, forest, locals, Top, IInv, TypeOK
<1>2. /\ path' \in Seq(Known) /\ path' # << >> /\ DOMAIN path' = 1 .. n + 1
      /\ path'[n + 1] = up /\ \A i \in 1 .. n : path'[i] = path[i]
  BY <1>1
<1>3. chief[up] = chief[path[n]] /\ m_rank[path[n]] < m_rank[up]
  BY <1>1 DEF IInv, Forest, SetsExact, ParentsInside, RanksGrow, IsRoot
<1>4. TypeOK'
  BY <1>1, <1>2 DEF IInv, TypeOK, Known
<1>5. Forest'
  BY <1>1, ForestKept DEF IInv, forest
<1>6. Climbing'
  <2>1. \A i \in 1 .. n : m_rank[path[i]] \in Nat /\ m_rank[up] \in Nat
    BY <1>1 DEF IInv, TypeOK
  <2>2. \A i \in 1 .. n : chief[path[i]] = chief[path[1]] /\ m_rank[path[i]] <= m_rank[path[n]]
    BY <1>1, <2>1 DEF IInv, Climbing
  <2>3. \A i \in 1 .. n : m_rank[path[i]] < m_rank[up]
    BY <1>1, <1>3, <2>1, <2>2
  <2>4. \A i \in 1 .. n + 1 : chief[path'[i]] = chief[path'[1]]
    BY <1>1, <1>2, <1>3, <2>2
  <2>5. \A i, j \in 1 .. n + 1 : i < j => m_rank[path'[i]] < m_rank[path'[j]]
    <3> SUFFICES ASSUME NEW i \in 1 .. n + 1, NEW j \in 1 .. n + 1, i < j
                 PROVE  m_rank[path'[i]] < m_rank[path'[j]]
      OBVIOUS
    <3>1. CASE j = n + 1
      BY <1>1, <1>2, <2>3, <3>1
    <3>2. CASE j \in 1 .. n
      BY <1>1, <1>2, <3>2 DEF IInv, Climbing
    <3> QED  BY <1>1, <3>1, <3>2
  <2> QED  BY <1>1, <1>2, <2>4, <2>5 DEF Climbing
<1>7. Calling'
  <2>1. path'[1] = path[1]
    BY <1>1, <1>2
  <2>2. Visited' = Visited
    BY <1>1, <1>2, <2>1 DEF Visited, Known
  <2> QED  BY <1>1, <1>2, <2>1, <2>2 DEF IInv, Calling, Under, Known
<1>8. UNCHANGED <<chief, call, answer>>
  BY <1>1
<1> QED  BY <1>4, <1>5, <1>6, <1>7, <1>8 DEF IInv, AbstractStep

LEMMA AtRootStep == ASSUME IInv, AtRoot PROVE IInv' /\ AbstractStep
<1> DEFINE n == Len(path)
<1>1. /\ path \in Seq(Known) /\ path # << >> /\ root' = path[n] /\ root' \in Known
      /\ UNCHANGED <<m_parent, m_rank, m_set_size, chief, call, path, found, todo, the_sets, answer>>
      /\ n \in Nat \ {0} /\ DOMAIN path = 1 .. n /\ IsRoot(path[n])
  BY DEF AtRoot, forest, locals, Top, IInv, TypeOK, IsRoot
<1>2. TypeOK'
  BY <1>1 DEF IInv, TypeOK, Known
<1>3. Forest'
  BY <1>1, ForestKept DEF IInv, forest
<1>4. Climbing'
  <2>1. root' = chief[path[1]]
    BY <1>1 DEF IInv, Climbing, Forest, SetsExact, ParentsInside
  <2>2. ASSUME NEW i \in 1 .. n, i # n  PROVE m_rank[path[i]] < m_rank[path[n]]
    <3> HIDE DEF n
    <3>1. n \in Nat /\ DOMAIN path = 1 .. n
      BY <1>1
    <3>2. i < n /\ n \in 1 .. n
      BY <2>2, <3>1
    <3> QED  BY <3>1, <3>2 DEF IInv, Climbing
  <2> QED  BY <1>1, <2>1, <2>2 DEF IInv, Climbing
<1>5. Calling'
  BY <1>1 DEF IInv, Calling, Under, Visited, Known
<1> QED  BY <1>1, <1>2, <1>3, <1>4, <1>5 DEF IInv, AbstractStep

LEMMA CompressStep == ASSUME IInv, Compress PROVE IInv' /\ AbstractStep
<1> DEFINE n == Len(path) - 1
           x == path[n]
<1>1. /\ path \in Seq(Known) /\ root # Nothing /\ root \in Known /\ n \in Nat \ {0}
      /\ DOMAIN path = 1 .. n + 1 /\ x \in Known
      /\ path' = SubSeq(path, 1, n)
      /\ UNCHANGED <<m_rank, m_set_size, chief, call, root, found, todo, the_sets, answer>>
  <2>1. path \in Seq(Known) /\ root \in Known \cup {Nothing}
    BY DEF IInv, TypeOK
  <2>2. /\ root # Nothing /\ Len(path) > 1 /\ path' = SubSeq(path, 1, n)
        /\ UNCHANGED <<m_rank, m_set_size, chief, call, root, found, todo, the_sets, answer>>
    BY DEF Compress, Below, locals
  <2>3. n \in Nat \ {0} /\ DOMAIN path = 1 .. n + 1 /\ n \in 1 .. n + 1
    BY <2>1, <2>2
  <2>4. x \in Known
    BY <2>1, <2>3
  <2> QED  BY <2>1, <2>2, <2>3, <2>4
<1>2. /\ path' \in Seq(Known) /\ path' # << >> /\ DOMAIN path' = 1 .. n
      /\ \A i \in 1 .. n : path'[i] = path[i] /\ path[i] \in Known
  <2>1. \A i \in 1 .. n : path[i] \in Known
    BY <1>1
  <2>2. /\ path' \in Seq(Known) /\ Len(path') = n
        /\ \A i \in 1 .. n : path'[i] = path[i]
    <3> HIDE DEF n
    <3>1. /\ 1 \in Int /\ n \in Int /\ 1 <= n /\ n - 1 + 1 = n /\ \A i \in 1 .. n : 1 + i - 1 = i
      BY <1>1
    <3>2. /\ SubSeq(path, 1, n) \in Seq(Known)
          /\ Len(SubSeq(path, 1, n)) = (IF 1 <= n THEN n - 1 + 1 ELSE 0)
          /\ \A i \in 1 .. n - 1 + 1 : SubSeq(path, 1, n)[i] = path[1 + i - 1]
      BY ONLY <2>1, <3>1, SubSeqProperties
    <3> QED  BY <1>1, <3>1, <3>2
  <2> HIDE DEF n
  <2>3. n \in Nat \ {0}
    BY <1>1
  <2> QED  BY <2>1, <2>2, <2>3
<1>3. m_parent' = [m_parent EXCEPT ![x] = root]
  <2>1. Below[Len(Below)] = x
    BY <1>1, <1>2 DEF Below
  <2> QED  BY <2>1 DEF Compress
<1>4. /\ root = chief[x] /\ (x = root \/ m_rank[x] < m_rank[root])
  BY <1>1 DEF IInv, Climbing
<1>5. m_parent' \in [Known -> Known] /\ m_parent'[x] = root
      /\ \A y \in Known : y # x => m_parent'[y] = m_parent[y]
  BY <1>1, <1>3 DEF IInv, TypeOK
<1>6. TypeOK'
  BY <1>1, <1>2, <1>5 DEF IInv, TypeOK, Known
<1> HIDE DEF x
<1>7. Forest'
  <2>1. Known' = Known /\ chief[root] = root
    BY <1>1, <1>4 DEF IInv, Forest, SetsExact, Named, Known
  <2>2. ParentsInside'
    BY <1>1, <1>4, <1>5, <2>1 DEF IInv, Forest, SetsExact, ParentsInside, IsRoot
  <2>3. RanksGrow'
    BY <1>1, <1>4, <1>5, <2>1 DEF IInv, Forest, SetsExact, RanksGrow, IsRoot
  <2>4. RootSizes' /\ RanksBySize'
    <3>1. \A y \in Known : IsRoot(y)' => IsRoot(y)
      BY <1>1, <2>1, <2>2 DEF IInv, Forest, SetsExact, ParentsInside
    <3>2. RootSizes'
      BY <1>1, <2>1, <3>1 DEF IInv, Forest, SetsExact, RootSizes, Sets!SetNamed
    <3>3. RanksBySize'
      BY <1>1, <2>1, <3>1 DEF IInv, Forest, SetsExact, RanksBySize
    <3> QED  BY <3>2, <3>3
  <2>5. Named'
    BY <1>1, <2>1 DEF IInv, Forest, SetsExact, Named
  <2> QED  BY <2>2, <2>3, <2>4, <2>5 DEF Forest, SetsExact
<1>8. Climbing'
  BY <1>1, <1>2 DEF IInv, Climbing
<1>9. Calling'
  <2>1. path'[1] = path[1] /\ path # << >>
    BY <1>1, <1>2
  <2>2. Visited' = Visited
    BY <1>1, <1>2, <2>1 DEF Visited, Known
  <2> QED  BY <1>1, <1>2, <2>1, <2>2 DEF IInv, Calling, Under, Known
<1> QED  BY <1>1, <1>6, <1>7, <1>8, <1>9 DEF IInv, AbstractStep
-----------------------------------------------------------------------------
(* find's callers                                                          *)

\* The last return of find.
LEMMA FoundFacts ==
    ASSUME IInv, Found
    PROVE  path \in Seq(Known) /\ path # << >> /\ path[1] \in Known
           /\ root = chief[path[1]] /\ root \in Known /\ chief[root] = root
BY DEF Found, IInv, TypeOK, Climbing, Forest, SetsExact, Named

LEMMA FindReturnsStep == ASSUME IInv, FindReturns PROVE IInv' /\ AbstractStep
<1>1. /\ Found /\ call # Nothing /\ call.op = "find" /\ answer' = root /\ call' = Nothing
      /\ path' = << >> /\ root' = Nothing
      /\ UNCHANGED <<m_parent, m_rank, m_set_size, chief, found, todo, the_sets>>
  BY FoundFacts DEF FindReturns, forest, locals, IInv, Calling
<1>2. root = chief[call.a]
  BY <1>1, FoundFacts DEF IInv, Calling, Under
<1>3. TypeOK'
  BY <1>1 DEF IInv, TypeOK, Known
<1>4. Forest'
  BY <1>1, ForestKept DEF IInv, forest
<1>5. Climbing' /\ Calling'
  BY <1>1 DEF Climbing, Calling, Under
<1>6. Sets!Return
  BY <1>1, <1>2 DEF Sets!Return
<1> QED  BY <1>3, <1>4, <1>5, <1>6 DEF IInv, AbstractStep, Sets!Next

LEMMA RootFoundStep == ASSUME IInv, RootFound PROVE IInv' /\ AbstractStep
<1>1. /\ Found /\ call # Nothing /\ call.op = "setunion" /\ found' = Append(found, root)
      /\ path' = (IF found = << >> THEN <<call.b>> ELSE << >>) /\ root' = Nothing
      /\ UNCHANGED <<m_parent, m_rank, m_set_size, chief, call, todo, the_sets, answer>>
      /\ call.b \in Known
  BY FoundFacts DEF RootFound, forest, IInv, Calling, Sets!Legal
<1>2. /\ path \in Seq(Known) /\ path # << >> /\ path[1] \in Known /\ root \in Known
      /\ root = chief[path[1]] /\ found \in Seq(Known)
  BY <1>1, FoundFacts DEF IInv, TypeOK
<1>3. TypeOK'
  <2>1. path' \in Seq(Known) /\ found' \in Seq(Known)
    BY <1>1, <1>2
  <2> QED  BY <1>1, <2>1 DEF IInv, TypeOK, Known
<1>4. Forest'
  BY <1>1, ForestKept DEF IInv, forest
<1>5. Climbing'
  BY <1>1 DEF Climbing
<1>6. Calling'
  <2>1. CASE found = << >>
    <3>1. path[1] = call.a /\ found' = <<root>> /\ path' = <<call.b>>
      BY <1>1, <1>2, <2>1 DEF IInv, Calling, Under
    <3> QED  BY <1>1, <1>2, <3>1 DEF IInv, Calling, Under, Known
  <2>2. CASE found # << >>
    <3>1. /\ Len(found) = 1 /\ path[1] = call.b /\ found[1] = chief[call.a]
      BY <1>1, <1>2, <2>2 DEF IInv, Calling, Under
    <3>2. Len(found') = Len(found) + 1 /\ found'[1] = found[1] /\ found'[Len(found) + 1] = root
      <4>1. 1 \in 1 .. Len(found)
        BY <3>1
      <4>2. found' = Append(found, root) /\ found \in Seq(Known) /\ root \in Known
        BY <1>1, <1>2
      <4> QED  BY ONLY <4>1, <4>2, AppendProperties
    <3>3. Len(found') = 2 /\ found'[1] = chief[call.a] /\ found'[2] = chief[call.b]
      BY <1>2, <3>1, <3>2
    <3> QED  BY <1>1, <1>2, <2>2, <3>3 DEF IInv, Calling, Under, Known
  <2> QED  BY <2>1, <2>2
<1> QED  BY <1>1, <1>3, <1>4, <1>5, <1>6 DEF IInv, AbstractStep

\* The tree of one root goes under another root.
LEMMA LinkFacts ==
    ASSUME IInv, NEW child \in Known, NEW parent \in Known, child # parent,
           IsRoot(child), IsRoot(parent), LinkUnder(child, parent),
           m_rank' \in [Known -> Nat], m_rank'[child] = m_rank[child],
           m_rank[child] < m_rank'[parent],
           \/ m_rank'[parent] = m_rank[parent]
           \/ m_rank[child] = m_rank[parent] /\ m_rank'[parent] = m_rank[parent] + 1,
           \A x \in Known : x # parent => m_rank'[x] = m_rank[x]
    PROVE  /\ Known' = Known
           /\ chief' \in [Known -> Known] /\ m_parent' \in [Known -> Known]
           /\ m_set_size' \in [Known -> Nat]
           /\ Forest'
<1>1. /\ chief \in [Known -> Known] /\ m_parent \in [Known -> Known]
      /\ m_rank \in [Known -> Nat] /\ m_set_size \in [Known -> Nat]
      /\ IsFiniteSet(Known)
  BY ObjectsAssumption, FS_Subset DEF IInv, TypeOK
<1>2. chief[child] = child /\ chief[parent] = parent
  BY DEF IInv, Forest, SetsExact, ParentsInside
<1>3. /\ Known' = Known /\ chief' \in [Known -> Known]
      /\ \A x \in Known : chief'[x] = IF chief[x] \in {child, parent} THEN parent ELSE chief[x]
  BY <1>1 DEF LinkUnder, Sets!Joined, Known
<1>4. /\ m_parent' \in [Known -> Known] /\ m_parent'[child] = parent
      /\ \A x \in Known : x # child => m_parent'[x] = m_parent[x]
  BY <1>1 DEF LinkUnder
<1>5. /\ m_set_size' \in [Known -> Nat]
      /\ m_set_size'[parent] = m_set_size[parent] + m_set_size[child]
      /\ \A x \in Known : x # parent => m_set_size'[x] = m_set_size[x]
  BY <1>1 DEF LinkUnder
<1>6. ParentsInside'
  <2> SUFFICES ASSUME NEW x \in Known
               PROVE  chief'[m_parent'[x]] = chief'[x] /\ (m_parent'[x] = x <=> chief'[x] = x)
    BY <1>3 DEF ParentsInside, IsRoot
  <2>1. chief[m_parent[x]] = chief[x] /\ (m_parent[x] = x <=> chief[x] = x) /\ m_parent[x] \in Known
    BY <1>1 DEF IInv, Forest, SetsExact, ParentsInside, IsRoot
  <2>2. CASE x = child
    BY <1>2, <1>3, <1>4, <2>2
  <2>3. CASE x # child
    BY <1>2, <1>3, <1>4, <2>1, <2>3
  <2> QED  BY <2>2, <2>3
<1>7. RanksGrow'
  <2> SUFFICES ASSUME NEW x \in Known, m_parent'[x] # x
               PROVE  m_rank'[x] < m_rank'[m_parent'[x]]
    BY <1>3 DEF RanksGrow, IsRoot
  <2>1. CASE x = child
    BY <1>4, <2>1
  <2>2. CASE x # child
    <3>1. /\ m_parent'[x] = m_parent[x] /\ m_parent[x] \in Known /\ m_parent[x] # x
          /\ m_rank[x] < m_rank[m_parent[x]]
      BY <1>1, <1>4, <2>2 DEF IInv, Forest, SetsExact, RanksGrow, IsRoot
    <3>2. x # parent
      BY <3>1 DEF IsRoot
    <3>3. m_rank[m_parent[x]] <= m_rank'[m_parent[x]]
      BY <1>1, <3>1
    <3> QED  BY <1>1, <3>1, <3>2, <3>3
  <2> QED  BY <2>1, <2>2
<1>8. RootSizes'
  <2> SUFFICES ASSUME NEW r \in Known, m_parent'[r] = r
               PROVE  m_set_size'[r] = Cardinality({x \in Known : chief'[x] = r})
    BY <1>3 DEF RootSizes, IsRoot, Sets!SetNamed, Known
  <2>1. r # child /\ m_parent[r] = r
    BY <1>4
  <2>2. \A q \in {r, child} : m_set_size[q] = Cardinality({x \in Known : chief[x] = q})
    <3>1. \A q \in Known : IsRoot(q) => m_set_size[q] = Cardinality({x \in Known : chief[x] = q})
      BY DEF IInv, Forest, SetsExact, RootSizes, Sets!SetNamed, Known
    <3>2. IsRoot(r)
      BY <2>1 DEF IsRoot
    <3> QED  BY <3>1, <3>2
  <2>3. CASE r # parent
    <3>1. {x \in Known : chief'[x] = r} = {x \in Known : chief[x] = r}
      BY <1>3, <2>1, <2>3
    <3> QED  BY <1>5, <2>2, <2>3, <3>1
  <2>4. CASE r = parent
    <3> DEFINE S == {x \in Known : chief[x] = parent}
               T == {x \in Known : chief[x] = child}
    <3>1. {x \in Known : chief'[x] = r} = S \cup T /\ S \cap T = {}
      BY <1>3, <2>4
    <3>2. IsFiniteSet(S) /\ IsFiniteSet(T)
      BY <1>1, FS_Subset
    <3>3. Cardinality(S) = m_set_size[parent] /\ Cardinality(T) = m_set_size[child]
      BY <2>2, <2>4
    <3> HIDE DEF S, T
    <3>4. Cardinality(S \cup T) = Cardinality(S) + Cardinality(T) - Cardinality(S \cap T)
      BY <3>2, FS_Union
    <3>5. Cardinality(S \cap T) = 0
      BY <3>1, FS_EmptySet
    <3>6. m_set_size[parent] \in Nat /\ m_set_size[child] \in Nat
      BY <1>1
    <3>7. Cardinality(S \cup T) = m_set_size[parent] + m_set_size[child]
      BY <3>3, <3>4, <3>5, <3>6
    <3>8. m_set_size'[r] = m_set_size[parent] + m_set_size[child]
      BY <1>5, <2>4
    <3> QED  BY <3>1, <3>7, <3>8
  <2> QED  BY <2>3, <2>4
<1>9. Named'
  <2>1. \A x \in Known : chief[x] \in Known /\ chief[chief[x]] = chief[x]
    BY <1>1 DEF IInv, Forest, SetsExact, Named
  <2>2. \A x \in Known : chief'[chief'[x]] = chief'[x]
    BY <1>2, <1>3, <2>1
  <2> QED  BY <1>3, <2>2 DEF Named
<1>10. RanksBySize'
  <2> SUFFICES ASSUME NEW r \in Known, m_parent'[r] = r
               PROVE  TwoTo[m_rank'[r]] <= m_set_size'[r]
    BY <1>3 DEF RanksBySize, IsRoot
  <2>1. r # child /\ m_parent[r] = r
    BY <1>4
  <2>2. \A q \in {r, child} : TwoTo[m_rank[q]] <= m_set_size[q]
    BY <2>1 DEF IInv, Forest, SetsExact, RanksBySize, IsRoot
  <2>3. CASE r # parent
    BY <1>5, <2>2, <2>3
  <2>4. CASE r = parent
    <3>1. PICK k \in Nat, p \in Nat, c \in Nat :
             k = m_rank[parent] /\ p = m_set_size[parent] /\ c = m_set_size[child]
      BY <1>1
    <3>2. TwoTo[k] \in Nat /\ TwoTo[k + 1] = 2 * TwoTo[k]
      BY TwoToIs
    <3>3. TwoTo[k] <= p /\ m_set_size'[r] = p + c
      BY <1>5, <2>2, <2>4, <3>1
    <3>4. CASE m_rank'[parent] = m_rank[parent]
      BY <2>4, <3>1, <3>2, <3>3, <3>4
    <3>5. CASE m_rank[child] = m_rank[parent] /\ m_rank'[parent] = m_rank[parent] + 1
      <4>1. TwoTo[k] <= c
        BY <2>2, <3>1, <3>5
      <4> QED  BY <2>4, <3>1, <3>2, <3>3, <3>5, <4>1
    <3> QED  BY <3>4, <3>5
  <2> QED  BY <2>3, <2>4
<1> QED  BY <1>3, <1>4, <1>5, <1>6, <1>7, <1>8, <1>9, <1>10 DEF Forest, SetsExact

LEMMA UnionStep == ASSUME IInv, Union PROVE IInv' /\ AbstractStep
<1>a. /\ call # Nothing /\ call.op = "setunion" /\ Len(found) = 2 /\ call' = Nothing
      /\ found' = << >> /\ UNCHANGED <<path, root, todo, the_sets, answer>>
  BY DEF Union, search
<1>b. found[1] \in Known /\ found[2] \in Known
  <2>1. found \in Seq(Known)
    BY DEF IInv, TypeOK
  <2> QED  BY <1>a, <2>1
<1>0. PICK a \in Known, b \in Known : a = A_root /\ b = B_root
  BY <1>b DEF A_root, B_root
<1>1. /\ call # Nothing /\ call.op = "setunion" /\ call' = Nothing
      /\ call.a \in Known /\ call.b \in Known
      /\ path = << >> /\ root = Nothing /\ UNCHANGED <<path, root, todo, the_sets, answer>>
      /\ found' = << >>
      /\ a = chief[call.a] /\ b = chief[call.b]
  <2>1. call.a \in Known /\ call.b \in Known
    BY <1>a DEF IInv, Calling, Sets!Legal
  <2>2. path = << >> /\ found[1] = chief[call.a] /\ found[2] = chief[call.b]
    <3>1. found # << >> /\ Len(found) # 1
      BY <1>a
    <3> QED  BY <1>a, <3>1 DEF IInv, Calling, Under
  <2>3. root = Nothing
    BY <2>2 DEF IInv, Climbing
  <2> QED  BY <1>0, <1>a, <2>1, <2>2, <2>3 DEF A_root, B_root
<1>2. /\ chief[a] = a /\ chief[b] = b /\ IsRoot(a) /\ IsRoot(b)
      /\ chief \in [Known -> Known] /\ m_rank \in [Known -> Nat]
      /\ m_rank[a] \in Nat /\ m_rank[b] \in Nat
  BY <1>1 DEF IInv, TypeOK, Forest, SetsExact, Named, ParentsInside
<1>3. Climbing' /\ Calling'
  BY <1>1 DEF Climbing, Calling, Under
<1>4. ASSUME Known' = Known, Forest', chief' \in [Known -> Known], m_parent' \in [Known -> Known],
             m_set_size' \in [Known -> Nat], m_rank' \in [Known -> Nat],
             NEW top \in {a, b}, chief' = Sets!Joined(chief, a, b, top)
      PROVE  IInv' /\ AbstractStep
  <2>1. TypeOK'
    BY <1>1, <1>4 DEF IInv, TypeOK
  <2>2. Sets!Return
    BY <1>1, <1>4 DEF Sets!Return
  <2> QED  BY <1>3, <1>4, <2>1, <2>2 DEF IInv, AbstractStep, Sets!Next
<1>5. CASE a = b
  <2>1. UNCHANGED <<m_parent, m_rank, m_set_size, chief>>
    BY <1>0, <1>5 DEF Union, forest
  <2>2. chief' = Sets!Joined(chief, a, b, a)
    BY <1>2, <1>5, <2>1 DEF Sets!Joined
  <2>3. Forest'
    BY <2>1, ForestKept DEF IInv, forest
  <2> QED  BY <1>4, <2>1, <2>2, <2>3 DEF IInv, TypeOK, Known
<1>6. CASE m_rank[a] < m_rank[b]
  <2>1. LinkUnder(a, b) /\ m_rank' = m_rank /\ a # b
    BY <1>0, <1>2, <1>6 DEF Union
  <2>2. /\ Known' = Known /\ chief' \in [Known -> Known] /\ m_parent' \in [Known -> Known]
        /\ m_set_size' \in [Known -> Nat] /\ Forest'
    BY <1>2, <1>6, <2>1, LinkFacts
  <2>3. chief' = Sets!Joined(chief, a, b, b)
    BY <2>1 DEF LinkUnder
  <2> QED  BY <1>2, <1>4, <2>1, <2>2, <2>3
<1>7. CASE a # b /\ m_rank[b] <= m_rank[a]
  <2>1. /\ LinkUnder(b, a)
        /\ m_rank' = IF m_rank[a] = m_rank[b] THEN [m_rank EXCEPT ![a] = @ + 1] ELSE m_rank
    BY <1>0, <1>2, <1>7 DEF Union, RankedUp
  <2>2. /\ m_rank' \in [Known -> Nat] /\ m_rank'[b] = m_rank[b]
        /\ m_rank[b] < m_rank'[a]
        /\ \/ m_rank'[a] = m_rank[a]
           \/ m_rank[b] = m_rank[a] /\ m_rank'[a] = m_rank[a] + 1
        /\ \A x \in Known : x # a => m_rank'[x] = m_rank[x]
    BY <1>2, <1>7, <2>1
  <2>3. /\ Known' = Known /\ chief' \in [Known -> Known] /\ m_parent' \in [Known -> Known]
        /\ m_set_size' \in [Known -> Nat] /\ Forest'
    BY <1>2, <1>7, <2>1, <2>2, LinkFacts
  <2>4. chief' = Sets!Joined(chief, a, b, a)
    <3>1. {a, b} = {b, a}
      OBVIOUS
    <3> QED  BY <2>1, <3>1 DEF LinkUnder, Sets!Joined
  <2> QED  BY <1>4, <2>2, <2>3, <2>4
<1> QED  BY <1>2, <1>5, <1>6, <1>7
-----------------------------------------------------------------------------
(* get_sets                                                                *)

LEMMA VisitStep == ASSUME IInv, NEW x \in todo, Visit(x) PROVE IInv' /\ AbstractStep
<1>1. /\ call # Nothing /\ call.op = "get_sets" /\ path = << >> /\ path' = <<x>>
      /\ todo' = todo \ {x} /\ x \in Known /\ root = Nothing /\ root' = Nothing
      /\ UNCHANGED <<m_parent, m_rank, m_set_size, chief, call, found, the_sets, answer>>
  BY DEF Visit, forest, IInv, TypeOK, Climbing
<1>2. TypeOK'
  <2>1. path' \in Seq(Known)
    BY <1>1
  <2> QED  BY <1>1, <2>1 DEF IInv, TypeOK, Known
<1>3. Forest'
  BY <1>1, ForestKept DEF IInv, forest
<1>4. Climbing'
  BY <1>1 DEF Climbing
<1>5. Calling'
  <2>1. Visited' = Visited
    BY <1>1 DEF Visited, Known
  <2> QED  BY <1>1, <2>1 DEF IInv, Calling, Under, Known
<1> QED  BY <1>1, <1>2, <1>3, <1>4, <1>5 DEF IInv, AbstractStep

LEMMA GatherStep == ASSUME IInv, Gather PROVE IInv' /\ AbstractStep
<1>0. PICK x \in Known : x = path[1] /\ root = chief[x] /\ path # << >>
  BY FoundFacts DEF Gather
<1>1. /\ call # Nothing /\ call.op = "get_sets" /\ path' = << >> /\ root' = Nothing
      /\ the_sets' = With(the_sets, chief[x],
                          {x} \cup (IF chief[x] \in DOMAIN the_sets THEN the_sets[chief[x]] ELSE {}))
      /\ UNCHANGED <<m_parent, m_rank, m_set_size, chief, call, found, todo, answer>>
      /\ x \notin todo
      /\ the_sets = [r \in {chief[y] : y \in Visited} |-> {y \in Visited : chief[y] = r}]
  BY <1>0, FoundFacts DEF Gather, forest, IInv, Calling, Under
<1>2. Visited' = Visited \cup {x} /\ Visited' \subseteq Known
  BY <1>0, <1>1 DEF Visited, Known
<1>3. the_sets' = [r \in {chief[y] : y \in Visited'} |-> {y \in Visited' : chief[y] = r}]
  <2>1. DOMAIN the_sets = {chief[y] : y \in Visited}
    BY <1>1
  <2>2. {chief[y] : y \in Visited'} = DOMAIN the_sets \cup {chief[x]}
    BY <1>2, <2>1
  <2>3. ASSUME NEW r \in DOMAIN the_sets, r # chief[x]
        PROVE  the_sets[r] = {y \in Visited' : chief[y] = r}
    BY <1>1, <1>2, <2>3
  <2>4. {x} \cup (IF chief[x] \in DOMAIN the_sets THEN the_sets[chief[x]] ELSE {})
          = {y \in Visited' : chief[y] = chief[x]}
    BY <1>1, <1>2, <2>1
  <2> QED  BY <1>1, <2>2, <2>3, <2>4 DEF With
<1>4. TypeOK'
  <2>1. chief \in [Known -> Known]
    BY DEF IInv, TypeOK
  <2>2. DOMAIN the_sets' \subseteq Known /\ the_sets' \in [DOMAIN the_sets' -> SUBSET Known]
    BY <1>2, <1>3, <2>1
  <2>3. Known' = Known /\ path' \in Seq(Known)
    BY <1>1 DEF Known
  <2> QED  BY <1>1, <2>2, <2>3 DEF IInv, TypeOK
<1>5. Forest'
  BY <1>1, ForestKept DEF IInv, forest
<1>6. Climbing'
  BY <1>1 DEF Climbing
<1>7. Calling'
  <2>1. the_sets' = [r \in {chief'[y] : y \in Visited'} |-> {y \in Visited' : chief'[y] = r}]
    <3>1. chief' = chief
      BY <1>1
    <3> QED  BY ONLY <1>3, <3>1, Zenon
  <2>2. Sets!Legal(call, Known)'
    BY <1>1 DEF IInv, Calling, Known
  <2> QED  BY <1>1, <2>1, <2>2 DEF Calling, Under
<1> QED  BY <1>1, <1>4, <1>5, <1>6, <1>7 DEF IInv, AbstractStep

LEMMA GetSetsReturnsStep == ASSUME IInv, GetSetsReturns PROVE IInv' /\ AbstractStep
<1>1. /\ call # Nothing /\ call.op = "get_sets" /\ call' = Nothing /\ answer' = the_sets
      /\ path = << >> /\ root = Nothing /\ todo = {}
      /\ UNCHANGED <<m_parent, m_rank, m_set_size, chief, path, root, found, todo, the_sets>>
  BY DEF GetSetsReturns, forest, search, locals, IInv, Climbing
<1>2. TypeOK'
  BY <1>1 DEF IInv, TypeOK, Known
<1>3. Forest'
  BY <1>1, ForestKept DEF IInv, forest
<1>4. Climbing' /\ Calling'
  BY <1>1 DEF Climbing, Calling, Under
<1>5. the_sets = Sets!AllSets(chief)
  <2>1. Visited = DOMAIN chief
    BY <1>1 DEF Visited, Known
  <2> QED  BY <1>1, <2>1 DEF IInv, Calling, Under, Sets!AllSets, Sets!SetNamed
<1>6. Sets!Return
  BY <1>1, <1>5 DEF Sets!Return
<1> QED  BY <1>2, <1>3, <1>4, <1>6 DEF IInv, AbstractStep, Sets!Next
-----------------------------------------------------------------------------
LEMMA InitIInv == Init => IInv
<1> SUFFICES ASSUME Init PROVE IInv
  OBVIOUS
<1>1. /\ m_parent = Empty /\ m_rank = Empty /\ m_set_size = Empty /\ chief = [x \in {} |-> Nothing]
      /\ path = << >> /\ root = Nothing /\ found = << >> /\ todo = {} /\ the_sets = Empty
      /\ call = Nothing
  BY DEF Init, Sets!Init
<1>2. Known = {}
  BY <1>1 DEF Known
<1>3. TypeOK
  BY <1>1, <1>2 DEF TypeOK, Empty
<1>4. Forest
  BY <1>2 DEF Forest, SetsExact, ParentsInside, RanksGrow, RootSizes, RanksBySize, Named
<1>5. Climbing /\ Calling
  BY <1>1 DEF Climbing, Calling, Under
<1> QED  BY <1>3, <1>4, <1>5 DEF IInv

LEMMA NextIInv == IInv /\ [Next]_vars => IInv' /\ AbstractStep
<1> SUFFICES ASSUME IInv, [Next]_vars PROVE IInv' /\ AbstractStep
  OBVIOUS
<1>1. CASE UNCHANGED vars
  <2>1. TypeOK'
    BY <1>1 DEF vars, IInv, TypeOK, Known
  <2>3. Climbing'
    BY <1>1 DEF vars, IInv, Climbing
  <2>4. Calling'
    <3>1. Visited' = Visited
      BY <1>1 DEF vars, Visited, Known
    <3> QED  BY <1>1, <3>1 DEF vars, IInv, Calling, Under, Known
  <2>2. Forest'
    BY <1>1, ForestKept DEF vars, IInv, forest
  <2> QED  BY <1>1, <2>1, <2>2, <2>3, <2>4 DEF IInv, AbstractStep, vars
<1>2. CASE \E c \in Sets!CallType : Start(c)
  BY <1>2, StartStep
<1>3. CASE Step
  <2>1. CASE MakeSet
    BY <2>1, MakeSetStep
  <2>2. CASE Descend
    BY <2>2, DescendStep
  <2>3. CASE AtRoot
    BY <2>3, AtRootStep
  <2>4. CASE Compress
    BY <2>4, CompressStep
  <2>5. CASE FindReturns
    BY <2>5, FindReturnsStep
  <2>6. CASE RootFound
    BY <2>6, RootFoundStep
  <2>7. CASE Union
    BY <2>7, UnionStep
  <2>8. CASE \E x \in todo : Visit(x)
    BY <2>8, VisitStep
  <2>9. CASE Gather
    BY <2>9, GatherStep
  <2>10. CASE GetSetsReturns
    BY <2>10, GetSetsReturnsStep
  <2> QED
    BY <1>3, <2>1, <2>2, <2>3, <2>4, <2>5, <2>6, <2>7, <2>8, <2>9, <2>10 DEF Step
<1> QED  BY <1>1, <1>2, <1>3 DEF Next

LEMMA IInvAlways == Spec => []IInv
<1>1. IInv /\ [Next]_vars => IInv'
  BY NextIInv
<1> QED  BY <1>1, InitIInv, PTL DEF Spec

\* Types, and that the three maps know the same objects.
THEOREM TypeCorrect == Spec => []TypeOK
<1>1. IInv => TypeOK
  BY DEF IInv
<1> QED  BY <1>1, IInvAlways, PTL

\* However find, setunion and get_sets follow each other: parents stay inside a
\* set, ranks grow towards the root, a root's size is that of its set, and its
\* rank is at most the logarithm of it.
THEOREM ForestCorrect == Spec => []SetsExact
<1>1. IInv => SetsExact
  BY DEF IInv, Forest
<1> QED  BY <1>1, IInvAlways, PTL

\* The class answers as a partition does: each call takes effect at one moment,
\* and what find, setunion and get_sets make of the trees is never seen.
THEOREM AnswersAsPartition == Spec => Sets!SafeSpec
<1>1. Init => Sets!Init
  BY DEF Init
<1>2. IInv /\ [Next]_vars => [Sets!Next]_Sets!partVars
  BY NextIInv DEF AbstractStep, Sets!partVars
<1> QED  BY <1>1, <1>2, IInvAlways, PTL DEF Spec, Sets!SafeSpec
=============================================================================
