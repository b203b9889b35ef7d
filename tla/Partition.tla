------------------------------ MODULE Partition ------------------------------
(***************************************************************************)
(* What DisjointSets (analyze.cpp) promises its caller: a partition of the *)
(* objects it was told of, each set named by one of its members.  A call   *)
(* changes the partition or answers from it, at one moment, and every call *)
(* returns.  The trees, the ranks and their compression are absent here.   *)
(***************************************************************************)
EXTENDS FiniteSets

CONSTANTS Objects,
          Nothing     \* no call, no answer

VARIABLES chief,      \* of each known object: the name of its set
          call,       \* the call under way
          answer      \* what the last one returned

partVars == <<chief, call, answer>>

Known == DOMAIN chief

Operations == {"make_set", "find", "setunion", "get_sets"}

\* setunion and find are called with known objects only (analyze2).
Legal(c, known) == c.op = "make_set" \/ {c.a, c.b} \subseteq known

CallType == [op : Operations, a : Objects, b : Objects]

Init == chief = [x \in {} |-> Nothing] /\ call = Nothing /\ answer = Nothing

Call(c) ==
    /\ call = Nothing
    /\ Legal(c, Known)
    /\ call' = c
    /\ answer' = Nothing
    /\ UNCHANGED chief

\* The partition with one more object, a set of its own if it is not known.
Made(f, x) ==
    IF x \in DOMAIN f THEN f ELSE [y \in DOMAIN f \cup {x} |-> IF y = x THEN x ELSE f[y]]

\* The partition in which the sets named r and s are one, named by top.
Joined(f, r, s, top) == [x \in DOMAIN f |-> IF f[x] \in {r, s} THEN top ELSE f[x]]

SetNamed(f, r) == {x \in DOMAIN f : f[x] = r}

AllSets(f) == [r \in {f[x] : x \in DOMAIN f} |-> SetNamed(f, r)]

Return ==
    /\ call # Nothing
    /\ call' = Nothing
    /\ \/ call.op = "make_set" /\ chief' = Made(chief, call.a) /\ UNCHANGED answer
       \/ /\ call.op = "setunion"
          /\ \E top \in {chief[call.a], chief[call.b]} :
                chief' = Joined(chief, chief[call.a], chief[call.b], top)
          /\ UNCHANGED answer
       \/ call.op = "find" /\ answer' = chief[call.a] /\ UNCHANGED chief
       \/ call.op = "get_sets" /\ answer' = AllSets(chief) /\ UNCHANGED chief

Next == (\E c \in CallType : Call(c)) \/ Return

SafeSpec == Init /\ [][Next]_partVars

Spec == SafeSpec /\ WF_partVars(Return)
=============================================================================
