---------------------------- MODULE DisjointSets ----------------------------
(***************************************************************************)
(* The union/find structure of the overlap analysis (class DisjointSets,   *)
(* analyze.cpp): a forest in m_parent, linked by rank, whose paths find    *)
(* compresses on its way back.  It is called as analyze2 calls it: objects *)
(* are made sets before anything is asked of them.  (The loop in analyze2  *)
(* is under #if 0; the class is compiled.)                                 *)
(*                                                                         *)
(* find's recursion is `path', the arguments of the calls that have not    *)
(* returned, and one call or one return of it is a step.  get_sets visits  *)
(* the objects in the order of their addresses: any order here.            *)
(***************************************************************************)
EXTENDS Integers, Sequences, FiniteSets

CONSTANTS Objects,
          Nothing       \* no call, no answer, no root yet

VARIABLES
    m_parent, m_rank, m_set_size,
    call,       \* the call of a public method that is under way
    path,
    root,       \* what find is returning with
    found,      \* A_root and B_root of setunion, as far as they are known
    todo,       \* objects get_sets has not come to
    the_sets,   \* what it has gathered
    answer,
    chief       \* history: the root of the tree each object is in

vars == <<m_parent, m_rank, m_set_size, call, path, root, found, todo, the_sets, answer, chief>>

forest == <<m_parent, m_rank, m_set_size, chief>>
search == <<path, root>>
locals == <<found, todo, the_sets>>

Sets == INSTANCE Partition

ASSUME ObjectsAssumption == IsFiniteSet(Objects) /\ Nothing \notin Objects \cup Sets!CallType

Empty == [x \in {} |-> Nothing]

Init ==
    /\ m_parent = Empty /\ m_rank = Empty /\ m_set_size = Empty
    /\ path = << >> /\ root = Nothing
    /\ found = << >> /\ todo = {} /\ the_sets = Empty
    /\ Sets!Init

Start(c) ==
    /\ call = Nothing
    /\ Sets!Legal(c, DOMAIN m_parent)
    /\ call' = c
    /\ path' = IF c.op \in {"find", "setunion"} THEN <<c.a>> ELSE << >>
    /\ todo' = IF c.op = "get_sets" THEN DOMAIN m_set_size ELSE {}
    /\ found' = << >> /\ the_sets' = Empty /\ answer' = Nothing
    /\ UNCHANGED <<forest, root>>

\* map[key] = value
With(map, key, value) ==
    [x \in DOMAIN map \cup {key} |-> IF x = key THEN value ELSE map[x]]

\* Mutant: no entry in m_set_size.
NoSize(x) == m_set_size

SizeOne(x) == With(m_set_size, x, 1)

MakeSet ==
    LET x == call.a IN
    /\ call # Nothing /\ call.op = "make_set"
    /\ IF x \in DOMAIN m_parent THEN UNCHANGED forest
       ELSE /\ m_parent' = With(m_parent, x, x)
            /\ m_rank' = With(m_rank, x, 0)
            /\ m_set_size' = SizeOne(x)
            /\ chief' = With(chief, x, x)
    /\ call' = Nothing
    /\ UNCHANGED <<search, locals, answer>>

------------------------------------------------------------------------------
(* find                                                                    *)

Top == path[Len(path)]
Below == SubSeq(path, 1, Len(path) - 1)

\* Object* root = find(p);
Descend ==
    /\ path # << >> /\ root = Nothing
    /\ m_parent[Top] # Top
    /\ path' = Append(path, m_parent[Top])
    /\ UNCHANGED <<forest, call, root, locals, answer>>

\* p == x
AtRoot ==
    /\ path # << >> /\ root = Nothing
    /\ m_parent[Top] = Top
    /\ root' = Top
    /\ UNCHANGED <<forest, call, path, locals, answer>>

\* m_parent[x] = root; return root;
Compress ==
    /\ root # Nothing /\ Len(path) > 1
    /\ path' = Below
    /\ m_parent' = [m_parent EXCEPT ![Below[Len(Below)]] = root]
    /\ UNCHANGED <<m_rank, m_set_size, chief, call, root, locals, answer>>

Found == root # Nothing /\ Len(path) = 1

------------------------------------------------------------------------------
FindReturns ==
    /\ Found /\ call.op = "find"
    /\ answer' = root
    /\ call' = Nothing
    /\ path' = << >> /\ root' = Nothing
    /\ UNCHANGED <<forest, locals>>

\* A_root = find(A); B_root = find(B);
RootFound ==
    /\ Found /\ call.op = "setunion"
    /\ found' = Append(found, root)
    /\ path' = IF found = << >> THEN <<call.b>> ELSE << >>
    /\ root' = Nothing
    /\ UNCHANGED <<forest, call, todo, the_sets, answer>>

\* Mutant: the object itself is linked, not its root.
FirstItself == call.a

A_root == found[1]
B_root == found[2]

\* Mutant: the rank stays.
RanksKept(r) == m_rank

\* m_rank[A_root]++;
RankedUp(r) == [m_rank EXCEPT ![r] = @ + 1]

LinkUnder(child, parent) ==
    /\ m_parent' = [m_parent EXCEPT ![child] = parent]
    /\ m_set_size' = [m_set_size EXCEPT ![parent] = @ + m_set_size[child]]
    /\ chief' = Sets!Joined(chief, child, parent, parent)

Union ==
    /\ call # Nothing /\ call.op = "setunion" /\ Len(found) = 2
    /\ \/ A_root = B_root /\ UNCHANGED forest
       \/ /\ A_root # B_root
          /\ IF m_rank[A_root] < m_rank[B_root] THEN LinkUnder(A_root, B_root)
                                                ELSE LinkUnder(B_root, A_root)
          /\ m_rank' = IF m_rank[A_root] = m_rank[B_root] THEN RankedUp(A_root) ELSE m_rank
    /\ call' = Nothing
    /\ found' = << >>
    /\ UNCHANGED <<search, todo, the_sets, answer>>

Visit(x) ==
    /\ call # Nothing /\ call.op = "get_sets" /\ path = << >>
    /\ x \in todo
    /\ path' = <<x>>
    /\ todo' = todo \ {x}
    /\ UNCHANGED <<forest, call, root, found, the_sets, answer>>

\* the_sets[root].insert(obj);
Gather ==
    /\ Found /\ call.op = "get_sets"
    /\ the_sets' = With(the_sets, root,
                        {path[1]} \cup (IF root \in DOMAIN the_sets THEN the_sets[root] ELSE {}))
    /\ path' = << >> /\ root' = Nothing
    /\ UNCHANGED <<forest, call, found, todo, answer>>

GetSetsReturns ==
    /\ call # Nothing /\ call.op = "get_sets" /\ path = << >> /\ todo = {}
    /\ answer' = the_sets
    /\ call' = Nothing
    /\ UNCHANGED <<forest, search, locals>>

Step ==
    \/ MakeSet
    \/ Descend \/ AtRoot \/ Compress
    \/ FindReturns \/ RootFound \/ Union
    \/ (\E x \in todo : Visit(x)) \/ Gather \/ GetSetsReturns

Next == (\E c \in Sets!CallType : Start(c)) \/ Step

\* The program is sequential: a call that is under way goes on.
Spec == Init /\ [][Next]_vars /\ WF_vars(Step)

------------------------------------------------------------------------------
Known == DOMAIN chief

\* Types; the three maps know the same objects.
TypeOK ==
    /\ Known \subseteq Objects
    /\ chief \in [Known -> Known] /\ m_parent \in [Known -> Known]
    /\ m_rank \in [Known -> Nat] /\ m_set_size \in [Known -> Nat]
    /\ call \in Sets!CallType \cup {Nothing}
    /\ path \in Seq(Known) /\ root \in Known \cup {Nothing}
    /\ found \in Seq(Known) /\ todo \subseteq Known
    /\ DOMAIN the_sets \subseteq Known
    /\ the_sets \in [DOMAIN the_sets -> SUBSET Known]

IsRoot(x) == m_parent[x] = x

\* m_parent never leaves a set, half way through a compression included.
ParentsInside == \A x \in Known : chief[m_parent[x]] = chief[x] /\ (IsRoot(x) <=> chief[x] = x)

\* Ranks grow towards the root, so that find ends.
RanksGrow == \A x \in Known : ~IsRoot(x) => m_rank[x] < m_rank[m_parent[x]]

\* The size kept for a root is the number of objects in its set.
RootSizes ==
    \A r \in Known : IsRoot(r) => m_set_size[r] = Cardinality(Sets!SetNamed(chief, r))

\* 2^n
TwoTo[n \in Nat] == IF n = 0 THEN 1 ELSE 2 * TwoTo[n - 1]

\* A set of n objects has a root of rank log n at most.
RanksBySize == \A r \in Known : IsRoot(r) => TwoTo[m_rank[r]] <= m_set_size[r]

\* The forest is a partition in which paths stay short, which the ranks are
\* there for.
SetsExact == ParentsInside /\ RanksGrow /\ RootSizes /\ RanksBySize

\* The forest answers as a partition does, and every call returns.
ImplementsPartition == Sets!Spec
=============================================================================
