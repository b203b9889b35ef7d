---------------------------- MODULE MerlinProofs ----------------------------
(***************************************************************************)
(* apply_merlin computes the right death times, for every set of objects,  *)
(* every graph of references and every assignment of last-seen times, and  *)
(* insert_death_records_into_trace puts its records where they belong, for *)
(* every trace in the order of its times.                                  *)
(***************************************************************************)
EXTENDS Merlin, FiniteSetTheorems, SequenceTheorems, TLAPS

(* The inductive invariant: the types, what a timestamp can be, and the    *)
(* invariant of the searches.                                              *)

\* A timestamp never sinks, and it is the last-seen time of some object that
\* reaches its bearer.
TimesOK ==
    \A o \in Objects : /\ seen[o] <= ts[o]
                       /\ \E a \in Objects : Reaches(a, o) /\ ts[o] = seen[a]

\* The sorted deque lists every object, latest first.
OrderOK ==
    pc \in {"verify", "dfs"} =>
        /\ DOMAIN order \subseteq Nat \ {0}
        /\ \A i \in DOMAIN order : order[i] \in Objects /\ 1 .. i \subseteq DOMAIN order
        /\ \A o \in Objects : \E i \in DOMAIN order : order[i] = o
        /\ \A i, j \in DOMAIN order : i < j => seen[order[i]] >= seen[order[j]]

\* During a search the root is out of the deque, it is expanded first, and
\* what has a label is out of the deque too.
RootOK ==
    pc = "dfs" /\ stack # << >> =>
        /\ cur \notin garbage
        /\ cur \notin labeled => Head(stack) = cur
        /\ labeled \cap garbage = {}

\* Before the searches nothing has happened to the timestamps.
EarlyOK ==
    pc \in {"sort", "verify"} => ts = seen /\ garbage = Objects /\ stack = << >>

\* An expanded object has its death time, and so have its references.
DeathsOK ==
    pc \in {"dfs", "insert", "done"} =>
        \A o \in Expanded : /\ death[o] = ts[o]
                            /\ \A k \in Edges(o) : end[o][k] = ts[o]

\* After the searches everything is expanded, and times grow along references.
DoneOK ==
    pc \in {"insert", "done"} =>
        /\ garbage = {} /\ stack = << >>
        /\ \A s \in Objects : \A t \in Targets(s) : ts[s] <= ts[t]

Item == [kind : {"record", "death"}, id : Nat, time : Nat]

MergeType == [list : Seq(Item),
              next : Nat, rec : Nat, prev : Nat, left : SUBSET Objects]

IInv ==
    /\ TypeOK /\ TimesOK /\ OrderOK /\ EarlyOK /\ RootOK
    /\ SearchInvariant /\ DeathsOK /\ DoneOK

------------------------------------------------------------------------------
(* Reachability.                                                           *)

LEMMA ReachesSelf == \A o \in Objects : Reaches(o, o)
BY DEF Reaches

LEMMA ReachesStep ==
    ASSUME NEW a \in Objects, NEW o \in Objects, NEW x \in Targets(o), Reaches(a, o)
    PROVE  Reaches(a, x)
BY DEF Reaches, Closed

LEMMA ReachesSame ==
    ASSUME graph' = graph, NEW a \in Objects, NEW o \in Objects
    PROVE  Reaches(a, o)' <=> Reaches(a, o)
<1>1. \A S \in SUBSET Objects : Closed(S)' <=> Closed(S)
  BY DEF Closed, Targets, Edges
<1> QED  BY <1>1 DEF Reaches

\* Times that grow along references grow along paths.
LEMMA ReachesGrows ==
    ASSUME ts \in [Objects -> Nat],
           \A s \in Objects : \A t \in Targets(s) : t \in Objects /\ ts[s] <= ts[t],
           NEW a \in Objects, NEW o \in Objects, Reaches(a, o)
    PROVE  ts[a] <= ts[o]
<1> DEFINE S == {x \in Objects : ts[a] <= ts[x]}
<1>1. a \in S /\ S \in SUBSET Objects
  OBVIOUS
<1>2. Closed(S)
  <2> SUFFICES ASSUME NEW s \in S, NEW t \in Targets(s) PROVE t \in S
    BY DEF Closed
  <2>1. ts[a] <= ts[s] /\ ts[s] <= ts[t] /\ t \in Objects
    OBVIOUS
  <2> QED  BY <2>1
<1>3. o \in S
  BY <1>1, <1>2 DEF Reaches
<1> QED  BY <1>3

------------------------------------------------------------------------------
(* The stack.                                                              *)

LEMMA TargetsType ==
    ASSUME graph \in [Objects -> Seq(Objects)], NEW o \in Objects
    PROVE  /\ Edges(o) = 1 .. Len(graph[o]) /\ Len(graph[o]) \in Nat
           /\ Targets(o) \subseteq Objects
BY DEF Edges, Targets

LEMMA PushedType ==
    ASSUME graph \in [Objects -> Seq(Objects)], NEW o \in Objects
    PROVE  /\ Pushed(o) \in Seq(Objects)
           /\ {Pushed(o)[k] : k \in DOMAIN Pushed(o)} = Targets(o)
<1> DEFINE n == Len(graph[o])
<1>1. n \in Nat /\ graph[o] \in Seq(Objects) /\ DOMAIN graph[o] = 1 .. n
  OBVIOUS
<1>2. Pushed(o) = [k \in 1 .. n |-> graph[o][n + 1 - k]]
  BY DEF Pushed
<1>3. \A k \in 1 .. n : n + 1 - k \in 1 .. n /\ n + 1 - (n + 1 - k) = k
  BY <1>1
<1>4. Pushed(o) \in Seq(Objects) /\ DOMAIN Pushed(o) = 1 .. n
  BY <1>1, <1>2, <1>3
<1> DEFINE pushed == {Pushed(o)[k] : k \in DOMAIN Pushed(o)}
<1>5. ASSUME NEW x \in pushed PROVE x \in Targets(o)
  <2>1. PICK k \in 1 .. n : x = graph[o][n + 1 - k]
    BY <1>2, <1>4
  <2> QED  BY <1>1, <1>3, <2>1 DEF Targets, Edges
<1>6. ASSUME NEW x \in Targets(o) PROVE x \in pushed
  <2>1. PICK k \in 1 .. n : x = graph[o][k]
    BY <1>1 DEF Targets, Edges
  <2>2. Pushed(o)[n + 1 - k] = x
    BY <1>2, <1>3, <2>1
  <2> QED  BY <1>3, <1>4, <2>2
<1> QED  BY <1>4, <1>5, <1>6

LEMMA PopStack ==
    ASSUME stack \in Seq(Objects), stack # << >>
    PROVE  /\ Head(stack) \in Objects /\ Head(stack) \in OnStack
           /\ Popped \in Seq(Objects)
           /\ OnStack = {Head(stack)} \cup {Popped[k] : k \in DOMAIN Popped}
<1>1. Len(stack) \in Nat /\ Len(stack) >= 1 /\ DOMAIN stack = 1 .. Len(stack)
  OBVIOUS
<1>2. Popped \in Seq(Objects) /\ Len(Popped) = Len(stack) - 1
  BY DEF Popped
<1>3. \A k \in 1 .. Len(Popped) : Popped[k] = stack[k + 1]
  BY <1>1, <1>2 DEF Popped
<1>4. DOMAIN Popped = 1 .. Len(Popped)
  BY <1>2
<1>5. Head(stack) = stack[1] /\ 1 \in DOMAIN stack
  BY <1>1
<1>6. OnStack \subseteq {Head(stack)} \cup {Popped[k] : k \in DOMAIN Popped}
  <2> SUFFICES ASSUME NEW k \in DOMAIN stack, k # 1
               PROVE  \E j \in DOMAIN Popped : stack[k] = Popped[j]
    BY <1>5 DEF OnStack
  <2>1. k - 1 \in DOMAIN Popped /\ Popped[k - 1] = stack[k]
    BY <1>1, <1>2, <1>3, <1>4
  <2> QED  BY <2>1
<1>7. {Popped[k] : k \in DOMAIN Popped} \subseteq OnStack
  BY <1>1, <1>2, <1>3, <1>4 DEF OnStack
<1>8. Head(stack) \in OnStack /\ Head(stack) \in Objects
  BY <1>1, <1>5 DEF OnStack
<1> QED  BY <1>2, <1>6, <1>7, <1>8

LEMMA ConcatStack ==
    ASSUME NEW p \in Seq(Objects), NEW q \in Seq(Objects)
    PROVE  {(p \o q)[k] : k \in DOMAIN (p \o q)} =
               {p[k] : k \in DOMAIN p} \cup {q[k] : k \in DOMAIN q}
<1>1. p \o q \in Seq(Objects) /\ Len(p \o q) = Len(p) + Len(q)
  OBVIOUS
<1>2. /\ DOMAIN p = 1 .. Len(p) /\ DOMAIN q = 1 .. Len(q)
      /\ DOMAIN (p \o q) = 1 .. Len(p) + Len(q)
      /\ Len(p) \in Nat /\ Len(q) \in Nat
  BY <1>1
<1>3. \A k \in 1 .. Len(p) + Len(q) :
        (p \o q)[k] = IF k <= Len(p) THEN p[k] ELSE q[k - Len(p)]
  OBVIOUS
<1>4. \A k \in 1 .. Len(q) : (p \o q)[Len(p) + k] = q[k] /\ Len(p) + k \in 1 .. Len(p) + Len(q)
  BY <1>2, <1>3
<1>5. \A k \in 1 .. Len(p) : (p \o q)[k] = p[k] /\ k \in 1 .. Len(p) + Len(q)
  BY <1>2, <1>3
<1>6. \A k \in 1 .. Len(p) + Len(q) :
        \/ k \in 1 .. Len(p) /\ (p \o q)[k] = p[k]
        \/ k - Len(p) \in 1 .. Len(q) /\ (p \o q)[k] = q[k - Len(p)]
  BY <1>2, <1>3
<1> DEFINE both == {(p \o q)[k] : k \in DOMAIN (p \o q)}
           of(s) == {s[k] : k \in DOMAIN s}
<1>7. both \subseteq of(p) \cup of(q)
  BY <1>2, <1>6
<1>8. of(p) \subseteq both
  BY <1>2, <1>5
<1>9. of(q) \subseteq both
  BY <1>2, <1>4
<1> QED  BY <1>7, <1>8, <1>9

\* What a sequence holds.
Held(p) == {p[k] : k \in DOMAIN p}

LEMMA HeldConcat ==
    \A p, q \in Seq(Objects) : p \o q \in Seq(Objects) /\ Held(p \o q) = Held(p) \cup Held(q)
<1> SUFFICES ASSUME NEW p \in Seq(Objects), NEW q \in Seq(Objects)
             PROVE  Held(p \o q) = Held(p) \cup Held(q)
  OBVIOUS
<1> QED  BY ConcatStack DEF Held

------------------------------------------------------------------------------
(* One lemma per action: the invariant survives it.                        *)

LEMMA InitIInv == Init => IInv
<1> SUFFICES ASSUME Init PROVE IInv
  OBVIOUS
<1> USE MerlinAssumption
<1>1. graph \in [Objects -> Seq(Objects)] /\ cur \in Objects
  BY DEF Init
<1>2. TypeOK
  <2>1. \A o \in Objects : end[o] \in [Edges(o) -> Times \cup {0}]
    BY DEF Init
  <2>3. stack \in Seq(Objects) /\ garbage \subseteq Objects /\ labeled \subseteq Objects
    BY DEF Init
  <2>4. ts \in [Objects -> Times] /\ seen \in [Objects -> Times]
        /\ death \in [Objects -> Times \cup {Never}]
    BY DEF Init
  <2>5. pc \in {"sort", "verify", "dfs", "insert", "done"} /\ reported \in BOOLEAN
    BY DEF Init
  <2>6. DOMAIN end = Objects
    BY DEF Init
  <2>7. merge \in MergeType
    BY DEF Init, MergeType
  <2> QED  BY <1>1, <2>1, <2>3, <2>4, <2>5, <2>6, <2>7 DEF TypeOK, MergeType, Item
<1>3. TimesOK
  <2>1. \A o \in Objects : ts[o] = seen[o] /\ seen[o] \in Nat
    BY DEF Init
  <2> QED  BY <2>1, ReachesSelf DEF TimesOK
<1> QED  BY <1>2, <1>3 DEF Init, IInv, OrderOK, EarlyOK, RootOK, SearchInvariant, DeathsOK, DoneOK

LEMMA SortIInv ==
    ASSUME IInv, Sort
    PROVE  IInv'
<1> USE MerlinAssumption
<1>1. Cardinality(Objects) \in Nat
  BY FS_CardinalityType
<1>2. ts = seen /\ garbage = Objects /\ stack = << >> /\ pc' = "verify"
  BY DEF IInv, EarlyOK, Sort
<1>3. TypeOK'
  BY DEF IInv, TypeOK, Sort, Edges
<1>4. TimesOK'
  BY <1>2, ReachesSame DEF IInv, TimesOK, Sort
<1>5. OrderOK'
  <2>1. order' \in [1 .. Cardinality(Objects) -> Objects]
    BY DEF Sort
  <2>2. \A i, j \in DOMAIN order' : i < j => seen[order'[i]] >= seen[order'[j]]
    BY <1>2 DEF Sort, LaterFirst
  <2> QED  BY <1>1, <2>1, <2>2 DEF Sort, OrderOK
<1> QED
  BY <1>2, <1>3, <1>4, <1>5
     DEF Sort, IInv, EarlyOK, RootOK, SearchInvariant, DeathsOK, DoneOK

LEMMA VerifyIInv ==
    ASSUME IInv, Verify
    PROVE  IInv'
<1> USE MerlinAssumption
<1>1. /\ pc' = "dfs" /\ pc = "verify" /\ ts' = ts /\ seen' = seen /\ stack' = stack
      /\ garbage' = garbage /\ graph' = graph /\ order' = order
      /\ ts = seen /\ garbage = Objects /\ stack = << >>
  BY DEF IInv, EarlyOK, Verify
<1>2. TypeOK'
  BY DEF IInv, TypeOK, Verify, Edges
<1>3. TimesOK'
  BY <1>1, ReachesSame DEF IInv, TimesOK
<1>4. OrderOK'
  BY <1>1 DEF IInv, OrderOK
<1>5. Expanded' = {}
  BY <1>1 DEF Expanded
<1>6. SearchInvariant' /\ DeathsOK'
  BY <1>1, <1>5 DEF SearchInvariant, DeathsOK
<1> QED  BY <1>1, <1>2, <1>3, <1>4, <1>6 DEF IInv, EarlyOK, RootOK, DoneOK

LEMMA PickRootIInv ==
    ASSUME IInv, PickRoot
    PROVE  IInv'
<1> USE MerlinAssumption
<1>1. /\ pc = "dfs" /\ stack = << >> /\ stack' = <<cur'>> /\ garbage' = garbage \ {cur'}
      /\ labeled' = {}
      /\ UNCHANGED <<pc, graph, seen, ts, death, end, order, reported, merge>>
  BY DEF PickRoot
<1>2. /\ TypeOK /\ OrderOK /\ SearchInvariant /\ DeathsOK
      /\ seen \in [Objects -> Nat] /\ ts \in [Objects -> Nat] /\ garbage \subseteq Objects
  BY DEF IInv, TypeOK
<1>3. PICK i \in DOMAIN order : /\ order[i] \in garbage /\ cur' = order[i]
                                /\ \A j \in 1 .. i - 1 : order[j] \notin garbage
  BY DEF PickRoot
<1>4. cur' \in garbage /\ cur' \in Objects
  BY <1>2, <1>3
<1>5. \A g \in garbage : seen[g] <= seen[cur']
  <2> SUFFICES ASSUME NEW g \in garbage PROVE seen[g] <= seen[cur']
    OBVIOUS
  <2>1. PICK j \in DOMAIN order : order[j] = g
    BY <1>1, <1>2 DEF OrderOK
  <2>2. i \in Nat /\ j \in Nat /\ 1 .. i \subseteq DOMAIN order /\ 1 .. j \subseteq DOMAIN order
    BY <1>1, <1>2, <1>3, <2>1 DEF OrderOK
  <2>3. j = i \/ i < j
    <3>1. j \notin 1 .. i - 1
      BY <1>3, <2>1
    <3>2. j >= 1
      BY <1>1, <1>2, <2>1 DEF OrderOK
    <3> QED  BY <2>2, <3>1, <3>2
  <2>4. CASE j = i
    BY <1>2, <1>3, <2>1, <2>4
  <2>5. CASE i < j
    BY <1>1, <1>2, <1>3, <2>1, <2>5 DEF OrderOK
  <2> QED  BY <2>3, <2>4, <2>5
<1>6. OnStack = {} /\ OnStack' = {cur'}
  BY <1>1 DEF OnStack
<1>7. Expanded = Objects \ garbage /\ Expanded' = Expanded
  BY <1>1, <1>2, <1>4 DEF Expanded
<1>8. \A g \in garbage : ts[g] = seen[g]
  BY <1>1, <1>2, <1>6 DEF SearchInvariant
<1>9. SearchInvariant'
  <2>1. \A s \in Expanded : \A t \in Targets(s) : ts[s] <= ts[t] /\ t \in Expanded
    BY <1>1, <1>2, <1>6 DEF SearchInvariant
  <2>2. \A s \in Expanded, g \in garbage : ts[g] <= ts[s]
    BY <1>1, <1>2 DEF SearchInvariant
  <2>3. \A g \in garbage : ts[g] <= ts[cur']
    BY <1>4, <1>5, <1>8
  <2>4. \A s : Targets(s)' = Targets(s)
    BY <1>1 DEF Targets, Edges
  <2>5. ts[cur'] <= ts[cur'] /\ ts' = ts /\ seen' = seen
    BY <1>1, <1>2, <1>4
  <2> QED
    BY <1>1, <1>4, <1>6, <1>7, <1>8, <2>1, <2>2, <2>3, <2>4, <2>5 DEF SearchInvariant
<1>10. DeathsOK'
  BY <1>1, <1>2, <1>7 DEF DeathsOK, Edges
<1>11. TypeOK'
  <2>1. cur' \in Objects /\ stack' \in Seq(Objects) /\ garbage' \subseteq Objects
        /\ labeled' \subseteq Objects
    BY <1>1, <1>2, <1>4
  <2> QED  BY <1>1, <1>2, <2>1 DEF TypeOK, Edges
<1>12. TimesOK'
  BY <1>1, ReachesSame DEF IInv, TimesOK
<1>13. RootOK'
  BY <1>1 DEF RootOK
<1>14. OrderOK' /\ EarlyOK' /\ DoneOK'
  BY <1>1, <1>2 DEF OrderOK, EarlyOK, DoneOK
<1> QED  BY <1>9, <1>10, <1>11, <1>12, <1>13, <1>14 DEF IInv

\* What both kinds of pop have in common: o is the top, rest the others.
LEMMA Top ==
    ASSUME IInv, pc = "dfs", stack # << >>
    PROVE  LET o == Head(stack)
               rest == {Popped[k] : k \in DOMAIN Popped}
           IN  /\ o \in Objects /\ o \in OnStack /\ Popped \in Seq(Objects)
               /\ OnStack = {o} \cup rest
               /\ cur \in Expanded \cup {o}
               /\ o \in Expanded \/ ts[o] = ts[cur]
               /\ o \in labeled => o \in Expanded /\ Expanded = Objects \ garbage
<1> DEFINE o == Head(stack)
<1>1. TypeOK /\ RootOK /\ SearchInvariant
  BY DEF IInv
<1>2. stack \in Seq(Objects) /\ cur \in Objects /\ ts \in [Objects -> Nat]
      /\ garbage \subseteq Objects /\ labeled \subseteq Objects
  BY <1>1, MerlinAssumption DEF TypeOK
<1>3. /\ o \in Objects /\ o \in OnStack /\ Popped \in Seq(Objects)
      /\ OnStack = {o} \cup {Popped[k] : k \in DOMAIN Popped}
  BY <1>2, PopStack
<1>4. cur \notin garbage /\ (cur \notin labeled => o = cur) /\ labeled \cap garbage = {}
  BY <1>1 DEF RootOK
<1>5. Expanded = (Objects \ garbage) \ (IF cur \notin labeled THEN {cur} ELSE {})
  BY DEF Expanded
<1>6. cur \in Expanded \cup {o}
  BY <1>2, <1>4, <1>5
<1>7. o \in Expanded \/ ts[o] = ts[cur]
  <2>1. CASE o \in garbage
    <3>1. ts[o] <= ts[cur] /\ ts[cur] <= ts[o]
      BY <1>1, <1>3, <2>1 DEF SearchInvariant
    <3> QED  BY <1>2, <1>3, <3>1
  <2>2. CASE o \notin garbage
    BY <1>3, <1>4, <1>5, <2>2
  <2> QED  BY <2>1, <2>2
<1>8. o \in labeled => o \in Expanded /\ Expanded = Objects \ garbage
  BY <1>2, <1>3, <1>4, <1>5
<1> QED  BY <1>3, <1>6, <1>7, <1>8

LEMMA SkipIInv ==
    ASSUME IInv, Skip
    PROVE  IInv'
<1> DEFINE o == Head(stack)
           rest == {Popped[k] : k \in DOMAIN Popped}
<1>1. /\ pc = "dfs" /\ stack # << >> /\ o \in labeled
      /\ garbage' = garbage \ {o} /\ death' = [death EXCEPT ![o] = ts[o]]
      /\ stack' = Popped
      /\ UNCHANGED <<pc, graph, seen, ts, end, order, cur, labeled, reported, merge>>
  BY DEF Skip
<1>2. /\ TypeOK /\ RootOK /\ SearchInvariant /\ DeathsOK
      /\ ts \in [Objects -> Nat] /\ death \in [Objects -> Times \cup {Never}]
      /\ labeled \subseteq Objects /\ ts \in [Objects -> Times]
  BY MerlinAssumption DEF IInv, TypeOK
<1>3. /\ o \in Objects /\ Popped \in Seq(Objects) /\ OnStack = {o} \cup rest
      /\ o \in Expanded /\ Expanded = Objects \ garbage
  BY <1>1, Top
<1>4. OnStack' = rest
  BY <1>1 DEF OnStack
<1>5. garbage' = garbage
  BY <1>1, <1>3
<1>6. cur \in labeled \/ cur = o
  BY <1>1, <1>2 DEF RootOK
<1>7. cur \in labeled /\ Expanded' = Expanded
  BY <1>1, <1>3, <1>5, <1>6 DEF Expanded
<1>8. SearchInvariant'
  <2>1. \A s : Targets(s)' = Targets(s)
    BY <1>1 DEF Targets, Edges
  <2>2. \A s \in Expanded : \A t \in Targets(s) : ts[s] <= ts[t] /\ t \in Expanded \cup rest
    BY <1>1, <1>2, <1>3 DEF SearchInvariant
  <2>3. \A s \in Expanded, g \in garbage : ts[g] <= ts[s]
    BY <1>1, <1>2 DEF SearchInvariant
  <2>4. \A s \in Expanded \cup rest : ts[cur] <= ts[s]
    BY <1>1, <1>2, <1>3 DEF SearchInvariant
  <2>5. \A g \in garbage : ts[g] <= ts[cur]
    BY <1>1, <1>2 DEF SearchInvariant
  <2>6. \A g \in garbage \ rest : ts[g] = seen[g]
    BY <1>1, <1>2, <1>3 DEF SearchInvariant
  <2> QED
    BY <1>1, <1>4, <1>5, <1>7, <2>1, <2>2, <2>3, <2>4, <2>5, <2>6 DEF SearchInvariant
<1>9. DeathsOK'
  BY <1>1, <1>2, <1>3, <1>7 DEF DeathsOK, Edges
<1>10. TypeOK'
  BY <1>1, <1>2, <1>3, <1>5 DEF TypeOK, Edges
<1>11. TimesOK'
  BY <1>1, ReachesSame DEF IInv, TimesOK
<1>12. RootOK'
  BY <1>1, <1>2, <1>5, <1>7 DEF RootOK
<1>13. OrderOK' /\ EarlyOK' /\ DoneOK'
  BY <1>1 DEF IInv, OrderOK, EarlyOK, DoneOK
<1> QED  BY <1>8, <1>9, <1>10, <1>11, <1>12, <1>13 DEF IInv

LEMMA ExpandIInv ==
    ASSUME IInv, Expand
    PROVE  IInv'
<1> DEFINE o == Head(stack)
           rest == {Popped[k] : k \in DOMAIN Popped}
<1>1. /\ pc = "dfs" /\ stack # << >> /\ o \notin labeled
      /\ garbage' = garbage \ {o} /\ labeled' = labeled \cup {o}
      /\ end' = [end EXCEPT ![o] = EndTimes(o)]
      /\ ts' = [x \in Objects |-> NewTime(o, x)]
      /\ death' = [x \in Objects |-> IF x = o \/ NewTime(o, x) # ts[x]
                                     THEN ts[o] ELSE death[x]]
      /\ stack' = Pushed(o) \o Popped
      /\ UNCHANGED <<pc, graph, seen, order, cur, reported, merge>>
  BY DEF Expand
<1>2. /\ TypeOK /\ TimesOK /\ RootOK /\ SearchInvariant /\ DeathsOK
      /\ graph \in [Objects -> Seq(Objects)] /\ cur \in Objects
      /\ ts \in [Objects -> Times] /\ ts \in [Objects -> Nat]
      /\ seen \in [Objects -> Nat]
      /\ death \in [Objects -> Times \cup {Never}]
      /\ labeled \subseteq Objects /\ garbage \subseteq Objects
  BY MerlinAssumption DEF IInv, TypeOK
<1>3. /\ o \in Objects /\ o \in OnStack /\ Popped \in Seq(Objects)
      /\ OnStack = {o} \cup rest
      /\ cur \in Expanded \cup {o} /\ (o \in Expanded \/ ts[o] = ts[cur])
  BY <1>1, Top
<1>4. Targets(o) \subseteq Objects /\ \A s : Targets(s)' = Targets(s)
  BY <1>1, <1>2, <1>3, TargetsType DEF Targets, Edges
<1>5. stack' \in Seq(Objects) /\ OnStack' = Targets(o) \cup rest
  <2>1. Pushed(o) \in Seq(Objects) /\ {Pushed(o)[k] : k \in DOMAIN Pushed(o)} = Targets(o)
    BY <1>2, <1>3, PushedType
  <2>2. stack' \in Seq(Objects) /\ Held(stack') = Held(Pushed(o)) \cup Held(Popped)
    BY <1>1, <1>3, <2>1, HeldConcat
  <2> QED  BY <2>1, <2>2 DEF OnStack, Held
<1>6. cur \in labeled \/ o = cur
  BY <1>1, <1>2 DEF RootOK
<1>7. cur \notin garbage /\ labeled \cap garbage = {}
  BY <1>1, <1>2 DEF RootOK
<1>8. Expanded' = Expanded \cup {o}
  BY <1>1, <1>3, <1>6, <1>7 DEF Expanded
<1>9. /\ \A s \in Expanded : s \in Objects
      /\ \A s \in Expanded : \A t \in Targets(s) :
            ts[s] <= ts[t] /\ t \in Objects /\ t \in Expanded \cup OnStack
      /\ \A s \in Expanded, g \in garbage : ts[g] <= ts[s]
      /\ \A s \in Expanded \cup OnStack : ts[cur] <= ts[s]
      /\ \A g \in garbage : ts[g] <= ts[cur]
      /\ \A g \in garbage \ OnStack : ts[g] = seen[g]
  <2>1. \A s \in Expanded : s \in Objects
    BY DEF Expanded
  <2>2. \A s \in Expanded : \A t \in Targets(s) : t \in Objects
    BY <1>2, <2>1, TargetsType
  <2> QED  BY <1>1, <1>2, <2>1, <2>2 DEF SearchInvariant
\* Times change only upwards, to that of the root, and not where expanded.
<1>10. \A x \in Objects : /\ ts'[x] \in Times /\ ts'[x] \in Nat /\ ts[x] <= ts'[x]
                          /\ ts'[x] # ts[x] => x \in Targets(o) /\ ts'[x] = ts[o]
                          /\ x \in Targets(o) => ts[o] <= ts'[x]
  BY <1>1, <1>2, <1>3 DEF NewTime
<1>11. \A x \in Expanded \cup {o} : ts'[x] = ts[x]
  <2> SUFFICES ASSUME NEW x \in Expanded \cup {o}, x \in Targets(o), ts[x] < ts[o]
               PROVE  FALSE
    BY <1>1, <1>3, <1>9 DEF NewTime
  <2>1. x # o /\ x \in Expanded
    BY <1>2, <1>3
  <2>2. CASE o \in Expanded
    BY <1>2, <1>3, <1>9, <2>1, <2>2
  <2>3. CASE ts[o] = ts[cur]
    BY <1>2, <1>3, <1>9, <2>1, <2>3
  <2> QED  BY <1>3, <2>2, <2>3
<1>12. \A g \in garbage : g \in Objects /\ ts'[g] <= ts[cur]
  <2> SUFFICES ASSUME NEW g \in garbage, ts'[g] # ts[g] PROVE ts'[g] <= ts[cur]
    BY <1>2, <1>9
  <2>1. ts'[g] = ts[o] /\ g \in Targets(o) /\ ts[g] < ts[o] /\ g \in Objects
    BY <1>1, <1>2, <1>3, <1>10 DEF NewTime
  <2>2. CASE o \in Expanded
    BY <1>2, <1>3, <1>9, <2>1, <2>2
  <2>3. CASE ts[o] = ts[cur]
    BY <1>2, <1>3, <2>1, <2>3
  <2> QED  BY <1>3, <2>2, <2>3
<1>13. SearchInvariant'
  <2>1. \A s \in Expanded \cup {o} : \A t \in Targets(s) :
           ts'[s] <= ts'[t] /\ t \in (Expanded \cup {o}) \cup OnStack'
    <3> SUFFICES ASSUME NEW s \in Expanded \cup {o}, NEW t \in Targets(s)
                 PROVE  ts'[s] <= ts'[t] /\ t \in (Expanded \cup {o}) \cup OnStack'
      OBVIOUS
    <3>1. CASE s \in Expanded
      <4>1. ts[s] <= ts[t] /\ t \in Objects /\ t \in Expanded \cup OnStack /\ s \in Objects
        BY <1>9, <3>1
      <4>2. ts'[s] = ts[s]
        BY <1>11
      <4>3. ts[t] <= ts'[t] /\ ts'[t] \in Nat
        BY <1>10, <4>1
      <4>4. ts[s] \in Nat /\ ts[t] \in Nat
        BY <1>2, <4>1
      <4>5. ts'[s] <= ts'[t]
        BY <4>1, <4>2, <4>3, <4>4
      <4>6. t \in (Expanded \cup {o}) \cup OnStack'
        <5> HIDE DEF o, rest
        <5> QED  BY <1>3, <1>5, <4>1
      <4> QED  BY <4>5, <4>6
    <3>2. CASE s = o
      BY <1>3, <1>4, <1>5, <1>10, <1>11, <3>2
    <3> QED  BY <3>1, <3>2
  <2>2. \A s \in Expanded \cup {o} \cup OnStack' : ts[cur] <= ts'[s]
    <3>1. \A s \in Expanded \cup OnStack : ts[cur] <= ts[s]
      BY <1>9
    <3>2. ASSUME NEW s \in Targets(o) PROVE ts[cur] <= ts'[s]
      BY <1>2, <1>3, <1>4, <1>10, <3>1
    <3>3. ASSUME NEW s \in Expanded \cup OnStack PROVE s \in Objects
      BY <1>1, <1>2, <1>3, <1>9 DEF TypeOK, OnStack
    <3>4. ASSUME NEW s \in Expanded \cup OnStack PROVE ts[cur] <= ts'[s]
      BY <1>2, <1>10, <3>1, <3>3
    <3> QED  BY <1>3, <1>5, <3>2, <3>4
  <2>3. ts'[cur] = ts[cur]
    BY <1>3, <1>11
  <2>4. \A s \in Expanded \cup {o}, g \in garbage' : ts'[g] <= ts'[s]
    <3> SUFFICES ASSUME NEW s \in Expanded \cup {o}, NEW g \in garbage'
                 PROVE  ts'[g] <= ts'[s]
      OBVIOUS
    <3>1. g \in garbage /\ g \in Objects /\ ts'[g] <= ts[cur] /\ ts[cur] <= ts'[s]
      BY <1>1, <1>12, <2>2
    <3>2. s \in Objects /\ ts'[s] \in Nat /\ ts'[g] \in Nat /\ ts[cur] \in Nat
      BY <1>2, <1>3, <1>9, <1>10, <3>1
    <3> QED  BY <3>1, <3>2
  <2>5. \A g \in garbage' : ts'[g] <= ts'[cur']
    BY <1>1, <1>12, <2>3
  <2>6. \A g \in garbage' \ OnStack' : ts'[g] = seen'[g]
    BY <1>1, <1>2, <1>3, <1>5, <1>9, <1>10
  <2> QED
    BY <1>1, <1>4, <1>8, <2>1, <2>2, <2>3, <2>4, <2>5, <2>6 DEF SearchInvariant
<1>14. DeathsOK'
  <2> SUFFICES ASSUME NEW s \in Expanded \cup {o}
               PROVE  death'[s] = ts'[s] /\ \A k \in Edges(s) : end'[s][k] = ts'[s]
    BY <1>1, <1>8 DEF DeathsOK, Edges
  <2>1. s \in Objects /\ NewTime(o, s) = ts[s] /\ ts'[s] = ts[s]
    BY <1>1, <1>3, <1>9, <1>11
  <2>2. CASE s = o
    <3>1. death'[o] = ts[o]
      BY <1>1, <1>3
    <3>2. end'[o] = EndTimes(o)
      BY <1>1, <1>2, <1>3 DEF TypeOK
    <3>3. \A k \in Edges(o) : EndTimes(o)[k] = ts[o]
      BY DEF EndTimes
    <3> QED  BY <2>1, <2>2, <3>1, <3>2, <3>3
  <2>3. CASE s # o
    BY <1>1, <1>2, <2>1, <2>3 DEF TypeOK, DeathsOK
  <2> QED  BY <2>2, <2>3
<1>15. TypeOK'
  <2>1. EndTimes(o) \in [Edges(o) -> Times \cup {0}]
    BY <1>2, <1>3 DEF EndTimes
  <2>2. \A x \in Objects : end'[x] \in [Edges(x) -> Times \cup {0}]
    BY <1>1, <1>2, <2>1 DEF TypeOK
  <2>3. ts' \in [Objects -> Times] /\ death' \in [Objects -> Times \cup {Never}]
    BY <1>1, <1>2, <1>3, <1>10
  <2> QED  BY <1>1, <1>2, <1>3, <1>5, <2>2, <2>3 DEF TypeOK, Edges
<1>16. TimesOK'
  <2> SUFFICES ASSUME NEW x \in Objects
               PROVE  seen[x] <= ts'[x] /\ \E a \in Objects : Reaches(a, x) /\ ts'[x] = seen[a]
    BY <1>1, ReachesSame DEF TimesOK
  <2>1. seen[x] <= ts[x]
    BY <1>2 DEF TimesOK
  <2>2. CASE ts'[x] = ts[x]
    BY <1>2, <2>1, <2>2 DEF TimesOK
  <2>3. CASE ts'[x] # ts[x]
    <3>1. x \in Targets(o) /\ ts'[x] = ts[o] /\ ts[x] <= ts'[x] /\ ts'[x] \in Nat
      BY <1>10, <2>3
    <3>2. PICK a \in Objects : Reaches(a, o) /\ ts[o] = seen[a]
      BY <1>2, <1>3 DEF TimesOK
    <3>3. Reaches(a, x)
      BY <1>3, <3>1, <3>2, ReachesStep
    <3> QED  BY <1>2, <2>1, <3>1, <3>2, <3>3
  <2> QED  BY <2>2, <2>3
<1>17. RootOK'
  BY <1>1, <1>6, <1>7 DEF RootOK
<1>18. OrderOK' /\ EarlyOK' /\ DoneOK'
  BY <1>1 DEF IInv, OrderOK, EarlyOK, DoneOK
<1> QED  BY <1>13, <1>14, <1>15, <1>16, <1>17, <1>18 DEF IInv

LEMMA FinishIInv ==
    ASSUME IInv, Finish
    PROVE  IInv'
<1>1. /\ pc = "dfs" /\ pc' = "insert" /\ stack = << >> /\ garbage = {}
      /\ UNCHANGED <<graph, seen, ts, death, end, order, garbage, cur, stack, labeled,
                     reported, merge>>
  BY DEF Finish
<1>2. Expanded = Objects /\ OnStack = {} /\ Expanded' = Objects
  BY <1>1 DEF Expanded, OnStack
<1>3. \A s \in Objects : \A t \in Targets(s) : ts[s] <= ts[t]
  BY <1>1, <1>2 DEF IInv, SearchInvariant
<1>4. DoneOK'
  BY <1>1, <1>3 DEF DoneOK, Targets, Edges
<1>5. DeathsOK'
  BY <1>1, <1>2 DEF IInv, DeathsOK, Edges
<1>6. TypeOK'
  BY <1>1 DEF IInv, TypeOK, Edges
<1>7. TimesOK'
  BY <1>1, ReachesSame DEF IInv, TimesOK
<1> QED
  BY <1>1, <1>4, <1>5, <1>6, <1>7 DEF IInv, OrderOK, EarlyOK, RootOK, SearchInvariant

\* The rest leaves the result of the searches alone.
LEMMA InsertIInv ==
    ASSUME IInv, UNCHANGED searched, merge' \in MergeType,
           pc = "insert", pc' \in {"insert", "done"}
    PROVE  IInv'
<1>1. UNCHANGED <<graph, seen, ts, death, end, order, garbage, cur, stack, labeled, reported>>
  BY DEF searched
<1>2. Expanded' = Expanded /\ OnStack' = OnStack
  BY <1>1 DEF Expanded, OnStack
<1>3. TypeOK'
  BY <1>1 DEF IInv, TypeOK, Edges, MergeType, Item
<1>4. TimesOK'
  BY <1>1, ReachesSame DEF IInv, TimesOK
<1>5. DeathsOK' /\ DoneOK'
  BY <1>1, <1>2 DEF IInv, DeathsOK, DoneOK, Targets, Edges
<1> QED
  BY <1>1, <1>3, <1>4, <1>5 DEF IInv, OrderOK, EarlyOK, RootOK, SearchInvariant

LEMMA AppendItem ==
    ASSUME merge \in MergeType, NEW item \in Item
    PROVE  Append(merge.list, item) \in Seq(Item)
BY DEF MergeType

LEMMA NextIInv ==
    ASSUME IInv, [Next]_vars
    PROVE  IInv'
<1>1. CASE UNCHANGED vars
  <2>1. TimesOK'
    BY <1>1, ReachesSame DEF vars, IInv, TimesOK
  <2>2. TypeOK' /\ OrderOK'
    BY <1>1 DEF vars, IInv, TypeOK, OrderOK, Edges
  <2>3. EarlyOK' /\ RootOK' /\ DoneOK' /\ DeathsOK'
    BY <1>1 DEF vars, IInv, EarlyOK, RootOK, DeathsOK, DoneOK, Expanded, OnStack, Targets, Edges
  <2>4. SearchInvariant'
    BY <1>1 DEF vars, IInv, SearchInvariant, Expanded, OnStack, Targets, Edges
  <2> QED  BY <2>1, <2>2, <2>3, <2>4 DEF IInv
<1>2. merge \in MergeType
  BY DEF IInv, TypeOK, MergeType, Item
<1>3. ASSUME NEW o \in merge.left, KeepRecord(o) PROVE IInv'
  <2>1. /\ merge.next \in Nat /\ Trace[merge.next] \in Nat
        /\ merge' = [merge EXCEPT !.list = Append(@, RecordAt(merge.next)), !.next = @ + 1,
                                 !.prev = merge.rec, !.rec = Trace[merge.next]]
    BY <1>2, <1>3, MerlinAssumption DEF KeepRecord, MergeType
  <2>2. RecordAt(merge.next) \in Item
    BY <2>1 DEF RecordAt, Item
  <2>3. merge' \in MergeType
    <3>1. Append(merge.list, RecordAt(merge.next)) \in Seq(Item) /\ merge.next + 1 \in Nat
      BY <1>2, <2>1, <2>2, AppendItem
    <3>2. merge' = [merge EXCEPT !.list = Append(merge.list, RecordAt(merge.next)),
                                 !.next = merge.next + 1,
                                 !.prev = merge.rec, !.rec = Trace[merge.next]]
      BY <2>1
    <3> QED  BY <1>2, <2>1, <3>1, <3>2 DEF MergeType
  <2> QED  BY <1>3, <2>3, InsertIInv DEF KeepRecord
<1>4. ASSUME NEW o \in merge.left, AddDeath(o) PROVE IInv'
  <2>1. o \in Nat /\ merge.rec \in Nat /\ merge.prev \in Nat
    BY <1>2, MerlinAssumption DEF MergeType
  <2>2. Death(o, merge.rec) \in Item /\ Death(o, merge.prev) \in Item
    BY <2>1 DEF Death, Item
  <2>3. merge' \in MergeType
    <3>1. CASE merge.next \in DOMAIN Trace
      <4>1. Trace[merge.next] \in Nat
        BY <3>1, MerlinAssumption
      <4>2. merge' = [merge EXCEPT !.list = Append(@, Death(o, merge.rec)), !.left = @ \ {o},
                                   !.prev = merge.rec, !.rec = Trace[merge.next]]
        BY <1>4, <3>1 DEF AddDeath
      <4> QED  BY <1>2, <2>1, <2>2, <4>1, <4>2, AppendItem DEF MergeType
    <3>2. CASE merge.next \notin DOMAIN Trace
      <4>1. merge' = [merge EXCEPT !.list = Append(@, Death(o, merge.prev)), !.left = @ \ {o}]
        BY <1>4, <3>2 DEF AddDeath
      <4> QED  BY <1>2, <2>1, <2>2, <4>1, AppendItem DEF MergeType
    <3> QED  BY <3>1, <3>2
  <2> QED  BY <1>4, <2>3, InsertIInv DEF AddDeath
<1>5. CASE InsertEnd
  BY <1>2, <1>5, InsertIInv DEF InsertEnd
<1> QED
  BY <1>1, <1>3, <1>4, <1>5, SortIInv, VerifyIInv, PickRootIInv, ExpandIInv, SkipIInv, FinishIInv
     DEF Next, Done

LEMMA Inductive == Spec => []IInv
<1> QED  BY InitIInv, NextIInv, PTL DEF Spec

------------------------------------------------------------------------------
(* The theorems.                                                           *)

\* Every timestamp, death time and end time is one that the trace gave.
THEOREM TypeCorrect == Spec => []TypeOK
<1> QED  BY Inductive, PTL DEF IInv

\* The invariant of the depth-first searches.
THEOREM SearchCorrect == Spec => []SearchInvariant
<1> QED  BY Inductive, PTL DEF IInv

\* Each object's death time is the latest last-seen time of the objects that
\* reach it, and the references it holds end with it.
THEOREM DeathTimesCorrect == Spec => []DeathTimesRight
<1>1. IInv => DeathTimesRight
  <2> SUFFICES ASSUME IInv, pc \in {"insert", "done"}, NEW o \in Objects
               PROVE  /\ \E a \in Objects : Reaches(a, o) /\ death[o] = seen[a]
                      /\ \A a \in Objects : Reaches(a, o) => seen[a] <= death[o]
                      /\ \A k \in Edges(o) : end[o][k] = death[o]
    BY DEF DeathTimesRight
  <2>1. /\ graph \in [Objects -> Seq(Objects)]
        /\ ts \in [Objects -> Nat] /\ seen \in [Objects -> Nat]
    BY MerlinAssumption DEF IInv, TypeOK
  <2>2. death[o] = ts[o] /\ \A k \in Edges(o) : end[o][k] = ts[o]
    BY DEF IInv, DeathsOK, DoneOK, Expanded
  <2>3. \A s \in Objects : \A t \in Targets(s) : t \in Objects /\ ts[s] <= ts[t]
    BY <2>1, TargetsType DEF IInv, DoneOK
  <2>4. ASSUME NEW a \in Objects, Reaches(a, o) PROVE seen[a] <= ts[o]
    <3>1. ts[a] <= ts[o]
      BY <2>1, <2>3, <2>4, ReachesGrows
    <3>2. seen[a] <= ts[a]
      BY DEF IInv, TimesOK
    <3> QED  BY <2>1, <3>1, <3>2
  <2> QED  BY <2>2, <2>4 DEF IInv, TimesOK
<1> QED  BY <1>1, Inductive, PTL

------------------------------------------------------------------------------
(* The list of insert_death_records_into_trace.                            *)

IsRecord(p, i) == merge.list[p].kind = "record" /\ merge.list[p].id = i
IsDeath(p, o) == merge.list[p].kind = "death" /\ merge.list[p].id = o

\* The list holds the records that have been passed, each once and in their
\* order, ...
RecordsOK ==
    /\ merge.next \in 1 .. Len(Trace) + 1
    /\ \A i \in 1 .. merge.next - 1 : \E p \in DOMAIN merge.list : IsRecord(p, i)
    /\ \A p \in DOMAIN merge.list :
          merge.list[p].kind = "record" => merge.list[p].id \in 1 .. merge.next - 1
    /\ \A p, q \in DOMAIN merge.list :
          /\ merge.list[p].kind = "record" /\ merge.list[q].kind = "record"
          /\ p < q
          => merge.list[p].id < merge.list[q].id

\* ... and one death record of each object that is not to come, ...
DeathRecordsOK ==
    /\ \A o \in Objects \ merge.left : \E p \in DOMAIN merge.list : IsDeath(p, o)
    /\ \A p \in DOMAIN merge.list :
          merge.list[p].kind = "death" => merge.list[p].id \in Objects \ merge.left
    /\ \A p, q \in DOMAIN merge.list, o \in Objects :
          IsDeath(p, o) /\ IsDeath(q, o) => p = q

\* ... which stands behind every record that is not after the object's time.
DeathsBehind ==
    \A o \in Objects, p \in DOMAIN merge.list : IsDeath(p, o) =>
        \A i \in DOMAIN Trace : Trace[i] <= ts[o] =>
            \E q \in DOMAIN merge.list : IsRecord(q, i) /\ q < p

\* Nothing of this happens before the searches are over, and all of it has
\* happened at the end.
MergeOK ==
    /\ pc \in {"sort", "verify", "dfs"} => merge.list = << >>
    /\ pc = "done" => merge.left = {}
    /\ RecordsOK /\ DeathRecordsOK /\ DeathsBehind

LEMMA InitMergeOK == Init => MergeOK
<1> SUFFICES ASSUME Init PROVE MergeOK
  OBVIOUS
<1>1. /\ merge.list = << >> /\ merge.next = 1 /\ merge.left = Objects /\ pc = "sort"
      /\ DOMAIN merge.list = {}
  BY DEF Init
<1>2. Len(Trace) \in Nat
  BY MerlinAssumption
<1> QED  BY <1>1, <1>2 DEF MergeOK, RecordsOK, DeathRecordsOK, DeathsBehind

\* What a step appends to the list.
LEMMA AppendedItem ==
    ASSUME merge \in MergeType, NEW item \in Item, merge'.list = Append(merge.list, item)
    PROVE  LET n == Len(merge.list) IN
           /\ n \in Nat /\ DOMAIN merge.list = 1 .. n /\ DOMAIN merge'.list = 1 .. n + 1
           /\ \A p \in 1 .. n : merge'.list[p] = merge.list[p]
           /\ merge'.list[n + 1] = item
BY DEF MergeType

LEMMA KeepMergeOK ==
    ASSUME merge \in MergeType, merge' \in MergeType, MergeOK, NEW o \in merge.left,
           KeepRecord(o)
    PROVE  MergeOK'
<1> DEFINE n == Len(merge.list)
<1>1. /\ pc = "insert" /\ pc' = "insert" /\ merge.next \in DOMAIN Trace /\ ts' = ts
      /\ merge' = [merge EXCEPT !.list = Append(@, RecordAt(merge.next)), !.next = @ + 1,
                               !.prev = merge.rec, !.rec = Trace[merge.next]]
  BY DEF KeepRecord, searched
<1>2. merge.next \in Nat /\ Trace[merge.next] \in Nat /\ merge.next <= Len(Trace)
      /\ Len(Trace) \in Nat
  BY <1>1, MerlinAssumption DEF MergeType
<1>3. RecordAt(merge.next) \in Item
  BY <1>2 DEF RecordAt, Item
<1>4. /\ merge'.list = Append(merge.list, RecordAt(merge.next))
      /\ merge'.next = merge.next + 1 /\ merge'.left = merge.left
  BY <1>1 DEF MergeType
<1>5. /\ n \in Nat /\ DOMAIN merge.list = 1 .. n /\ DOMAIN merge'.list = 1 .. n + 1
      /\ \A p \in 1 .. n : merge'.list[p] = merge.list[p]
      /\ merge'.list[n + 1] = RecordAt(merge.next)
  BY <1>3, <1>4, AppendedItem
<1>6. /\ merge'.list[n + 1].kind = "record" /\ merge'.list[n + 1].id = merge.next
      /\ merge'.list[n + 1].kind # "death"
      /\ n + 1 \in DOMAIN merge'.list
      /\ \A p \in DOMAIN merge'.list : p = n + 1 \/ p \in DOMAIN merge.list
      /\ \A p \in DOMAIN merge.list : p \in DOMAIN merge'.list /\ p \in Nat /\ p < n + 1
  BY <1>5 DEF RecordAt
<1>7. RecordsOK /\ DeathRecordsOK /\ DeathsBehind
  BY DEF MergeOK
<1> HIDE DEF n
<1>8. RecordsOK'
  <2>1. merge'.next \in 1 .. Len(Trace) + 1
    BY <1>2, <1>4
  <2>2. ASSUME NEW i \in 1 .. merge'.next - 1
        PROVE  \E p \in DOMAIN merge'.list : IsRecord(p, i)'
    <3>1. i = merge.next \/ i \in 1 .. merge.next - 1
      BY <1>2, <1>4
    <3>2. CASE i = merge.next
      BY <1>6, <3>2 DEF IsRecord
    <3>3. CASE i \in 1 .. merge.next - 1
      <4>1. PICK p \in DOMAIN merge.list : IsRecord(p, i)
        BY <1>7, <3>3 DEF RecordsOK
      <4> QED  BY <1>5, <1>6, <4>1 DEF IsRecord
    <3> QED  BY <3>1, <3>2, <3>3
  <2>3. ASSUME NEW p \in DOMAIN merge'.list, merge'.list[p].kind = "record"
        PROVE  merge'.list[p].id \in 1 .. merge'.next - 1
    <3>1. CASE p = n + 1
      <4>1. merge.next \in 1 .. merge.next + 1 - 1
        BY <1>2, <1>7 DEF RecordsOK
      <4> QED  BY <1>4, <1>6, <3>1, <4>1
    <3>2. CASE p \in DOMAIN merge.list
      <4>1. merge.list[p].id \in 1 .. merge.next - 1
        BY <1>5, <1>7, <2>3, <3>2 DEF RecordsOK
      <4> QED  BY <1>2, <1>4, <1>5, <3>2, <4>1
    <3> QED  BY <1>6, <3>1, <3>2
  <2>4. ASSUME NEW p \in DOMAIN merge'.list, NEW q \in DOMAIN merge'.list, p < q,
               merge'.list[p].kind = "record", merge'.list[q].kind = "record"
        PROVE  merge'.list[p].id < merge'.list[q].id
    <3>1. p \in DOMAIN merge.list
      BY <1>5, <2>4
    <3>2. merge.list[p].id \in 1 .. merge.next - 1
      BY <1>5, <1>7, <2>4, <3>1 DEF RecordsOK
    <3>3. CASE q = n + 1
      BY <1>2, <1>5, <1>6, <3>1, <3>2, <3>3
    <3>4. CASE q \in DOMAIN merge.list
      BY <1>5, <1>7, <2>4, <3>1, <3>4 DEF RecordsOK
    <3> QED  BY <1>6, <3>3, <3>4
  <2> QED  BY <2>1, <2>2, <2>3, <2>4 DEF RecordsOK
<1>9. \A p \in DOMAIN merge'.list : \A x : IsDeath(p, x)' => p \in DOMAIN merge.list /\ IsDeath(p, x)
  BY <1>5, <1>6 DEF IsDeath
<1>10. \A p \in DOMAIN merge.list : \A x : IsDeath(p, x) => IsDeath(p, x)'
  BY <1>5 DEF IsDeath
<1>11. DeathRecordsOK'
  <2>1. \A x \in Objects \ merge'.left : \E p \in DOMAIN merge'.list : IsDeath(p, x)'
    BY <1>4, <1>6, <1>7, <1>10 DEF DeathRecordsOK
  <2>2. \A p \in DOMAIN merge'.list :
          merge'.list[p].kind = "death" => merge'.list[p].id \in Objects \ merge'.left
    BY <1>4, <1>5, <1>6, <1>7 DEF DeathRecordsOK
  <2>3. \A p, q \in DOMAIN merge'.list, x \in Objects :
          IsDeath(p, x)' /\ IsDeath(q, x)' => p = q
    BY <1>7, <1>9 DEF DeathRecordsOK
  <2> QED  BY <2>1, <2>2, <2>3 DEF DeathRecordsOK
<1>12. DeathsBehind'
  <2> SUFFICES ASSUME NEW x \in Objects, NEW p \in DOMAIN merge'.list, IsDeath(p, x)',
                      NEW i \in DOMAIN Trace, Trace[i] <= ts[x]
               PROVE  \E q \in DOMAIN merge'.list : IsRecord(q, i)' /\ q < p
    BY <1>1 DEF DeathsBehind
  <2>1. PICK q \in DOMAIN merge.list : IsRecord(q, i) /\ q < p
    BY <1>7, <1>9 DEF DeathsBehind
  <2> QED  BY <1>5, <1>6, <2>1 DEF IsRecord
<1> QED  BY <1>1, <1>8, <1>11, <1>12 DEF MergeOK

LEMMA AddMergeOK ==
    ASSUME merge \in MergeType, merge' \in MergeType, MergeOK, ts \in [Objects -> Nat],
           NEW o \in merge.left, AddDeath(o)
    PROVE  MergeOK'
<1> DEFINE n == Len(merge.list)
<1>1. pc = "insert" /\ pc' = "insert" /\ ts' = ts
  BY DEF AddDeath, searched
<1>2. o \in Objects /\ o \in Nat
  BY MerlinAssumption DEF MergeType
<1>3. PICK time \in Nat : /\ merge'.list = Append(merge.list, Death(o, time))
                          /\ merge'.next = merge.next /\ merge'.left = merge.left \ {o}
  <2>1. merge.rec \in Nat /\ merge.prev \in Nat
    BY DEF MergeType
  <2>2. CASE merge.next \in DOMAIN Trace
    <3>1. merge' = [merge EXCEPT !.list = Append(@, Death(o, merge.rec)), !.left = @ \ {o},
                                 !.prev = merge.rec, !.rec = Trace[merge.next]]
      BY <2>2 DEF AddDeath
    <3> QED  BY <2>1, <3>1 DEF MergeType
  <2>3. CASE merge.next \notin DOMAIN Trace
    <3>1. merge' = [merge EXCEPT !.list = Append(@, Death(o, merge.prev)), !.left = @ \ {o}]
      BY <2>3 DEF AddDeath
    <3> QED  BY <2>1, <3>1 DEF MergeType
  <2> QED  BY <2>2, <2>3
<1>4. Death(o, time) \in Item
  BY <1>2, <1>3 DEF Death, Item
<1>5. /\ n \in Nat /\ DOMAIN merge.list = 1 .. n /\ DOMAIN merge'.list = 1 .. n + 1
      /\ \A p \in 1 .. n : merge'.list[p] = merge.list[p]
      /\ merge'.list[n + 1] = Death(o, time)
  BY <1>3, <1>4, AppendedItem
<1>6. /\ merge'.list[n + 1].kind = "death" /\ merge'.list[n + 1].id = o
      /\ merge'.list[n + 1].kind # "record"
      /\ n + 1 \in DOMAIN merge'.list
      /\ \A p \in DOMAIN merge'.list : p = n + 1 \/ p \in DOMAIN merge.list
      /\ \A p \in DOMAIN merge.list : p \in DOMAIN merge'.list /\ p \in Nat /\ p < n + 1
  BY <1>5 DEF Death
<1>7. RecordsOK /\ DeathRecordsOK /\ DeathsBehind
  BY DEF MergeOK
<1> HIDE DEF n
<1>8. /\ \A p \in DOMAIN merge'.list : \A i : IsRecord(p, i)' => p \in DOMAIN merge.list /\ IsRecord(p, i)
      /\ \A p \in DOMAIN merge.list : \A i : IsRecord(p, i) => IsRecord(p, i)'
  BY <1>5, <1>6 DEF IsRecord
<1>9. RecordsOK'
  <2>1. merge'.next \in 1 .. Len(Trace) + 1
    BY <1>3, <1>7 DEF RecordsOK
  <2>2. \A i \in 1 .. merge'.next - 1 : \E p \in DOMAIN merge'.list : IsRecord(p, i)'
    BY <1>3, <1>6, <1>7, <1>8 DEF RecordsOK
  <2>3. \A p \in DOMAIN merge'.list :
          merge'.list[p].kind = "record" => merge'.list[p].id \in 1 .. merge'.next - 1
    BY <1>3, <1>5, <1>6, <1>7 DEF RecordsOK
  <2>4. ASSUME NEW p \in DOMAIN merge'.list, NEW q \in DOMAIN merge'.list, p < q,
               merge'.list[p].kind = "record", merge'.list[q].kind = "record"
        PROVE  merge'.list[p].id < merge'.list[q].id
    <3>1. p \in DOMAIN merge.list /\ q \in DOMAIN merge.list
      BY <1>6, <2>4
    <3> QED  BY <1>5, <1>7, <2>4, <3>1 DEF RecordsOK
  <2> QED  BY <2>1, <2>2, <2>3, <2>4 DEF RecordsOK
<1>10. \A p \in DOMAIN merge'.list, x \in Objects : IsDeath(p, x)' =>
          \/ p = n + 1 /\ x = o
          \/ p \in DOMAIN merge.list /\ IsDeath(p, x) /\ x # o
  <2> SUFFICES ASSUME NEW p \in DOMAIN merge'.list, NEW x \in Objects, IsDeath(p, x)', p # n + 1
               PROVE  p \in DOMAIN merge.list /\ IsDeath(p, x) /\ x # o
    BY <1>6 DEF IsDeath
  <2>1. p \in DOMAIN merge.list /\ IsDeath(p, x)
    BY <1>5, <1>6 DEF IsDeath
  <2> QED  BY <1>7, <2>1 DEF DeathRecordsOK, IsDeath
<1>11. \A p \in DOMAIN merge.list : \A x : IsDeath(p, x) => IsDeath(p, x)'
  BY <1>5 DEF IsDeath
<1>12. DeathRecordsOK'
  <2>1. ASSUME NEW x \in Objects \ merge'.left
        PROVE  \E p \in DOMAIN merge'.list : IsDeath(p, x)'
    <3>1. CASE x = o
      BY <1>6, <3>1 DEF IsDeath
    <3>2. CASE x # o
      <4>1. PICK p \in DOMAIN merge.list : IsDeath(p, x)
        BY <1>3, <1>7, <3>2 DEF DeathRecordsOK
      <4> QED  BY <1>6, <1>11, <4>1
    <3> QED  BY <3>1, <3>2
  <2>2. ASSUME NEW p \in DOMAIN merge'.list, merge'.list[p].kind = "death"
        PROVE  merge'.list[p].id \in Objects \ merge'.left
    <3>1. CASE p = n + 1
      BY <1>2, <1>3, <1>6, <3>1
    <3>2. CASE p # n + 1
      BY <1>3, <1>5, <1>6, <1>7, <2>2, <3>2 DEF DeathRecordsOK
    <3> QED  BY <3>1, <3>2
  <2>3. \A p, q \in DOMAIN merge'.list, x \in Objects :
          IsDeath(p, x)' /\ IsDeath(q, x)' => p = q
    BY <1>7, <1>10 DEF DeathRecordsOK
  <2> QED  BY <2>1, <2>2, <2>3 DEF DeathRecordsOK
\* The object's turn comes when all records that are not after it are passed.
<1>13. ASSUME NEW i \in DOMAIN Trace, Trace[i] <= ts[o] PROVE i \in 1 .. merge.next - 1
  <2>1. DOMAIN Trace = 1 .. Len(Trace) /\ Len(Trace) \in Nat /\ Trace[i] \in Nat /\ i \in Nat
    BY MerlinAssumption
  <2>2. merge.next \in 1 .. Len(Trace) + 1 /\ merge.next \in Nat
    BY <1>7, <2>1 DEF RecordsOK
  <2>3. CASE merge.next \in DOMAIN Trace
    <3>1. Trace[merge.next] > ts[o] /\ Trace[merge.next] \in Nat /\ ts[o] \in Nat
      BY <1>2, <2>3, MerlinAssumption DEF AddDeath, After
    <3>2. ~(merge.next <= i)
      BY <1>13, <2>1, <2>3, <3>1, TraceInOrder
    <3> QED  BY <2>1, <2>2, <3>2
  <2>4. CASE merge.next \notin DOMAIN Trace
    BY <2>1, <2>2, <2>4
  <2> QED  BY <2>3, <2>4
<1>14. DeathsBehind'
  <2> SUFFICES ASSUME NEW x \in Objects, NEW p \in DOMAIN merge'.list, IsDeath(p, x)',
                      NEW i \in DOMAIN Trace, Trace[i] <= ts[x]
               PROVE  \E q \in DOMAIN merge'.list : IsRecord(q, i)' /\ q < p
    BY <1>1 DEF DeathsBehind
  <2>1. PICK q \in DOMAIN merge.list : IsRecord(q, i) /\ q < p
    <3>1. CASE p = n + 1 /\ x = o
      <4>1. PICK q \in DOMAIN merge.list : IsRecord(q, i)
        BY <1>7, <1>13, <3>1 DEF RecordsOK
      <4> QED  BY <1>6, <3>1, <4>1
    <3>2. CASE p \in DOMAIN merge.list /\ IsDeath(p, x)
      BY <1>7, <3>2 DEF DeathsBehind
    <3> QED  BY <1>10, <3>1, <3>2
  <2> QED  BY <1>6, <1>8, <2>1
<1> QED  BY <1>1, <1>9, <1>12, <1>14 DEF MergeOK

LEMMA NextMergeOK ==
    ASSUME IInv, IInv', MergeOK, [Next]_vars
    PROVE  MergeOK'
<1>1. merge \in MergeType /\ merge' \in MergeType
  BY DEF IInv, TypeOK, MergeType, Item
<1>2. ts \in [Objects -> Nat]
  BY MerlinAssumption DEF IInv, TypeOK
<1>3. ASSUME merge' = merge, ts' = ts \/ merge.list = << >>,
             pc' \in {"sort", "verify", "dfs"} => pc \in {"sort", "verify", "dfs"},
             pc' = "done" => merge.left = {}
      PROVE  MergeOK'
  <2>1. /\ \A p, i : IsRecord(p, i)' <=> IsRecord(p, i)
        /\ \A p, o : IsDeath(p, o)' <=> IsDeath(p, o)
    BY <1>3 DEF IsRecord, IsDeath
  <2>2. RecordsOK' /\ DeathRecordsOK'
    BY <1>3, <2>1 DEF MergeOK, RecordsOK, DeathRecordsOK
  <2>3. DeathsBehind'
    <3>1. CASE ts' = ts
      BY <1>3, <2>1, <3>1 DEF MergeOK, DeathsBehind
    <3>2. CASE merge.list = << >>
      <4>1. DOMAIN merge'.list = {}
        BY <1>3, <3>2
      <4> QED  BY <4>1 DEF DeathsBehind
    <3> QED  BY <1>3, <3>1, <3>2
  <2> QED  BY <1>3, <2>2, <2>3 DEF MergeOK
<1>4. ASSUME NEW o \in merge.left, KeepRecord(o) \/ AddDeath(o) PROVE MergeOK'
  BY <1>1, <1>2, <1>4, KeepMergeOK, AddMergeOK
<1>5. CASE Sort \/ Verify \/ PickRoot \/ Skip \/ Finish
  BY <1>3, <1>5 DEF Sort, Verify, PickRoot, Skip, Finish
<1>6. CASE Expand
  BY <1>3, <1>6 DEF Expand, MergeOK
<1>7. CASE InsertEnd
  BY <1>3, <1>7 DEF InsertEnd, searched
<1>8. CASE UNCHANGED vars
  BY <1>3, <1>8 DEF vars, MergeOK
<1> QED
  BY <1>4, <1>5, <1>6, <1>7, <1>8 DEF Next, Done

\* Every death record stands behind all records that are not after the death of
\* its object, and of the records that were placed, those up to the greatest
\* last-seen time, none is lost or doubled.  The records after it are left out.
THEOREM DeathsAlwaysPlaced == Spec => []DeathsPlaced
<1>1. IInv /\ MergeOK => DeathsPlaced
  <2> SUFFICES ASSUME IInv, MergeOK, pc = "done" PROVE DeathsPlaced
    BY DEF DeathsPlaced
  <2> DEFINE Place(kind, id) == {p \in DOMAIN merge.list : /\ merge.list[p].kind = kind
                                                           /\ merge.list[p].id = id}
  <2>1. /\ \A p, i : p \in Place("record", i) <=> p \in DOMAIN merge.list /\ IsRecord(p, i)
        /\ \A p, o : p \in Place("death", o) <=> p \in DOMAIN merge.list /\ IsDeath(p, o)
    BY DEF IsRecord, IsDeath
  <2>2. merge \in MergeType
    BY DEF IInv, TypeOK, MergeType, Item
  <2>3. /\ RecordsOK /\ DeathRecordsOK /\ DeathsBehind /\ merge.left = {}
        /\ \A p \in DOMAIN merge.list : p \in Nat /\ merge.list[p].id \in Nat
    <3>1. merge.list \in Seq(Item)
      BY <2>2 DEF MergeType
    <3>2. \A p \in DOMAIN merge.list : p \in Nat /\ merge.list[p] \in Item
      BY <3>1
    <3> QED  BY <3>2 DEF MergeOK, Item
  <2>4. \A o \in Objects : death[o] = ts[o]
    BY DEF IInv, DeathsOK, DoneOK, Expanded
  <2> HIDE DEF Place
  <2>5. ASSUME NEW i \in 1 .. merge.next - 1
        PROVE  \E p \in DOMAIN merge.list : Place("record", i) = {p}
    <3>1. PICK p \in DOMAIN merge.list : IsRecord(p, i)
      BY <2>3 DEF RecordsOK
    <3>2. ASSUME NEW q \in Place("record", i) PROVE q = p
      <4>1. q \in DOMAIN merge.list /\ IsRecord(q, i)
        BY <2>1
      <4>2. ~(p < q) /\ ~(q < p)
        BY <2>3, <3>1, <4>1 DEF RecordsOK, IsRecord
      <4> QED  BY <2>3, <3>1, <4>1, <4>2
    <3> QED  BY <2>1, <3>1, <3>2
  <2>6. ASSUME NEW i \in 1 .. merge.next - 1, NEW j \in 1 .. merge.next - 1, i < j,
               NEW p \in Place("record", i), NEW q \in Place("record", j)
        PROVE  p < q
    <3>1. /\ p \in DOMAIN merge.list /\ IsRecord(p, i) /\ p \in Nat
          /\ q \in DOMAIN merge.list /\ IsRecord(q, j) /\ q \in Nat
      BY <2>1, <2>3
    <3>2. p # q
      BY <2>6, <3>1 DEF IsRecord
    <3>3. ~(q < p)
      <4>1. SUFFICES ASSUME q < p PROVE FALSE
        OBVIOUS
      <4>2. j < i
        BY <2>3, <3>1, <4>1 DEF RecordsOK, IsRecord
      <4>3. i \in Nat /\ j \in Nat
        BY <2>3 DEF RecordsOK
      <4> QED  BY <2>6, <4>2, <4>3
    <3> QED  BY <3>1, <3>2, <3>3
  <2>7. ASSUME NEW o \in Objects
        PROVE  \E p \in DOMAIN merge.list :
                  /\ Place("death", o) = {p}
                  /\ \A i \in DOMAIN Trace : Trace[i] <= death[o] =>
                        \E q \in Place("record", i) : q < p
    <3>1. PICK p \in DOMAIN merge.list : IsDeath(p, o)
      BY <2>3 DEF DeathRecordsOK
    <3>2. Place("death", o) = {p}
      BY <2>1, <2>3, <3>1 DEF DeathRecordsOK
    <3>3. \A i \in DOMAIN Trace : Trace[i] <= death[o] => \E q \in Place("record", i) : q < p
      BY <2>1, <2>3, <2>4, <3>1 DEF DeathsBehind
    <3> QED  BY <3>2, <3>3
  <2> USE DEF Place
  <2> QED  BY <2>5, <2>6, <2>7 DEF DeathsPlaced
<1> QED
  BY <1>1, InitMergeOK, NextMergeOK, Inductive, PTL DEF Spec
=============================================================================
