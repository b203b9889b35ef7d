------------------------------- MODULE Merlin -------------------------------
(***************************************************************************)
(* apply_merlin (simulator.cpp): the death time of every object, from the  *)
(* time each was last seen in the trace and the graph of references that   *)
(* is left when the trace ends.  An object is alive as long as something   *)
(* that reaches it is, so its death time is the latest last-seen time of   *)
(* the objects that reach it.                                              *)
(*                                                                         *)
(* The program sorts all objects, latest first, and runs one depth-first   *)
(* search from each that is still in the deque `garbage'.  The deque is    *)
(* never reordered, so it is a set here, ordered by the sequence `order'.  *)
(* One iteration of an inner loop (one object popped) is one step.         *)
(*                                                                         *)
(* Then insert_death_records_into_trace copies the records of the trace    *)
(* into a list and puts a death record for every object between them.      *)
(***************************************************************************)
EXTENDS Naturals, Sequences, FiniteSets

CONSTANTS Objects,     \* the objects of the heap, by their ids
          Graphs,      \* graphs of references: the targets of each object's
                       \* edges, in the order of m_fields
          Times,       \* last-seen timestamps
          Never,       \* m_deathTime of an object nobody gave one (UINT_MAX)
          Trace        \* the times of the records of the trace, in order

ASSUME MerlinAssumption ==
    /\ Objects # {} /\ IsFiniteSet(Objects) /\ Objects \subseteq Nat
    /\ Graphs \subseteq [Objects -> Seq(Objects)]
    /\ Times \subseteq Nat
    /\ Never \in Nat
    /\ Trace \in Seq(Nat)

\* The trace that the simulator has read is in the order of its times (TraceReader).
ASSUME TraceInOrder ==
    \A i, j \in DOMAIN Trace : i <= j => Trace[i] <= Trace[j]

VARIABLES
    pc,
    graph,
    seen,       \* history: the timestamps when apply_merlin starts
    ts,         \* m_last_timestamp
    death,      \* m_deathTime
    end,        \* m_endTime of each edge
    order,      \* the deque as it was sorted
    garbage,    \* what is left of it
    cur,        \* the root of the search under way
    stack,      \* mystack, top first
    labeled,
    reported,   \* verify_garbage_order has printed an ERROR
    merge       \* insert_death_records_into_trace: list: tlist, next: where reciter
                \* is, rec and prev: rec_timestamp and prev_timestamp, left: the
                \* objects to come

vars == <<pc, graph, seen, ts, death, end, order, garbage, cur, stack, labeled,
          reported, merge>>

Edges(o) == DOMAIN graph[o]

Targets(o) == {graph[o][k] : k \in Edges(o)}

Init ==
    /\ pc = "sort"
    /\ graph \in Graphs
    /\ seen \in [Objects -> Times]
    /\ ts = seen
    /\ death = [o \in Objects |-> Never]
    /\ end = [o \in Objects |-> [k \in Edges(o) |-> 0]]
    /\ order = << >>
    /\ garbage = Objects
    /\ cur = CHOOSE o \in Objects : TRUE
    /\ stack = << >>
    /\ labeled = {}
    /\ reported = FALSE
    /\ merge = [list |-> << >>, next |-> 1, rec |-> 0, prev |-> 0, left |-> Objects]

\* Mutant: the comparison the other way round.
EarlierFirst(a, b) == ts[a] <= ts[b]

\* a may stand before b in the sorted deque; std::sort promises nothing of
\* objects with equal timestamps.
LaterFirst(a, b) == ts[a] >= ts[b]

Sort ==
    /\ pc = "sort"
    /\ order' \in [1 .. Cardinality(Objects) -> Objects]
    /\ \A o \in Objects : \E i \in DOMAIN order' : order'[i] = o
    /\ \A i, j \in DOMAIN order' : i < j => LaterFirst(order'[i], order'[j])
    /\ pc' = "verify"
    /\ UNCHANGED <<graph, seen, ts, death, end, garbage, cur, stack, labeled, reported,
                   merge>>

\* verify_garbage_order: an ERROR for every step down; it returns true anyway.
Verify ==
    /\ pc = "verify"
    /\ reported' = \E i \in DOMAIN order : /\ i + 1 \in DOMAIN order
                                           /\ ts[order[i + 1]] < ts[order[i]]
    /\ pc' = "dfs"
    /\ UNCHANGED <<graph, seen, ts, death, end, order, garbage, cur, stack, labeled, merge>>

\* The front of the deque starts the next search.
PickRoot ==
    /\ pc = "dfs"
    /\ stack = << >>
    /\ \E i \in DOMAIN order :
          /\ order[i] \in garbage
          /\ \A j \in 1 .. i - 1 : order[j] \notin garbage
          /\ cur' = order[i]
    /\ garbage' = garbage \ {cur'}
    /\ stack' = <<cur'>>
    /\ labeled' = {}
    /\ UNCHANGED <<pc, graph, seen, ts, death, end, order, reported, merge>>

\* Mutant: a target dies one tick after the object that refers to it.
NewTimeAfter(o, x) == IF x \in Targets(o) /\ ts[x] < ts[o] THEN ts[o] + 1 ELSE ts[x]

\* Mutant: an object on the stack pulls its own time down to its parent's.
NewTimeAlways(o, x) == IF x \in Targets(o) THEN ts[o] ELSE ts[x]

\* if (tstamp_max > tstmp) mytgt->setLastTimestamp(tstamp_max);
NewTime(o, x) == IF x \in Targets(o) /\ ts[x] < ts[o] THEN ts[o] ELSE ts[x]

\* mystack.push_front for every edge, in order.
Pushed(o) ==
    LET n == Len(graph[o]) IN [k \in 1 .. n |-> graph[o][n + 1 - k]]

\* Mutant: the top of the stack is read and not taken off.
PoppedNever == stack

Popped == Tail(stack)

EndTimes(o) == [k \in Edges(o) |-> ts[o]]

\* The top of the stack, met for the first time in this search.
Expand ==
    LET o == Head(stack) IN
    /\ pc = "dfs"
    /\ stack # << >>
    /\ o \notin labeled
    /\ garbage' = garbage \ {o}
    /\ labeled' = labeled \cup {o}
    /\ end' = [end EXCEPT ![o] = EndTimes(o)]
    /\ ts' = [x \in Objects |-> NewTime(o, x)]
    /\ death' = [x \in Objects |-> IF x = o \/ NewTime(o, x) # ts[x] THEN ts[o] ELSE death[x]]
    /\ stack' = Pushed(o) \o Popped
    /\ UNCHANGED <<pc, graph, seen, order, cur, reported, merge>>

\* The top of the stack, met before.
Skip ==
    LET o == Head(stack) IN
    /\ pc = "dfs"
    /\ stack # << >>
    /\ o \in labeled
    /\ garbage' = garbage \ {o}
    /\ death' = [death EXCEPT ![o] = ts[o]]
    /\ stack' = Popped
    /\ UNCHANGED <<pc, graph, seen, ts, end, order, cur, labeled, reported,
                   merge>>

Finish ==
    /\ pc = "dfs"
    /\ stack = << >>
    /\ garbage = {}
    /\ pc' = "insert"
    /\ UNCHANGED <<graph, seen, ts, death, end, order, garbage, cur, stack, labeled,
                   reported, merge>>

------------------------------------------------------------------------------
(* insert_death_records_into_trace: objects in the order of their ids.     *)

searched == <<graph, seen, ts, death, end, order, garbage, cur, stack, labeled, reported>>

RecordAt(i) == [kind |-> "record", id |-> i, time |-> Trace[i]]
Death(o, time) == [kind |-> "death", id |-> o, time |-> time]

IsFirst(o) == \A x \in merge.left : o <= x

\* Mutant: >= for >.
NotBefore(time, o) == time >= ts[o]

\* rec_timestamp > ettime
After(time, o) == time > ts[o]

\* A record that is not after the object's time goes first.
KeepRecord(o) ==
    /\ pc = "insert"
    /\ IsFirst(o)
    /\ merge.next \in DOMAIN Trace
    /\ ~After(Trace[merge.next], o)
    /\ merge' = [merge EXCEPT !.list = Append(@, RecordAt(merge.next)), !.next = @ + 1,
                             !.prev = merge.rec, !.rec = Trace[merge.next]]
    /\ UNCHANGED <<pc, searched>>

\* The next record is after it, or there is none.
AddDeath(o) ==
    /\ pc = "insert"
    /\ IsFirst(o)
    /\ IF merge.next \in DOMAIN Trace
       THEN /\ After(Trace[merge.next], o)
            /\ merge' = [merge EXCEPT !.list = Append(@, Death(o, merge.rec)), !.left = @ \ {o},
                                     !.prev = merge.rec, !.rec = Trace[merge.next]]
       ELSE merge' = [merge EXCEPT !.list = Append(@, Death(o, merge.prev)), !.left = @ \ {o}]
    /\ UNCHANGED <<pc, searched>>

InsertEnd ==
    /\ pc = "insert"
    /\ merge.left = {}
    /\ pc' = "done"
    /\ UNCHANGED <<searched, merge>>

Done == pc = "done" /\ UNCHANGED vars

Next ==
    \/ Sort \/ Verify \/ PickRoot \/ Expand \/ Skip \/ Finish
    \/ \E o \in merge.left : KeepRecord(o) \/ AddDeath(o)
    \/ InsertEnd \/ Done

\* The simulator is sequential: it goes on as long as it can.
Spec == Init /\ [][Next]_vars /\ WF_vars(Next)

------------------------------------------------------------------------------
OnStack == {stack[k] : k \in DOMAIN stack}

\* Types; no time is made up, each is some object's last-seen time.
TypeOK ==
    /\ pc \in {"sort", "verify", "dfs", "insert", "done"}
    /\ graph \in [Objects -> Seq(Objects)]
    /\ seen \in [Objects -> Times] /\ ts \in [Objects -> Times]
    /\ death \in [Objects -> Times \cup {Never}]
    /\ DOMAIN end = Objects
    /\ \A o \in Objects : end[o] \in [Edges(o) -> Times \cup {0}]
    /\ garbage \subseteq Objects /\ labeled \subseteq Objects
    /\ cur \in Objects
    /\ stack \in Seq(Objects)
    /\ reported \in BOOLEAN
    /\ merge \in [list : Seq([kind : {"record", "death"}, id : Nat, time : Nat]),
                 next : Nat, rec : Nat, prev : Nat, left : SUBSET Objects]

\* a reaches o: every set that holds a and is closed under references holds o.
Closed(S) == \A o \in S : Targets(o) \subseteq S

Reaches(a, o) == \A S \in SUBSET Objects : a \in S /\ Closed(S) => o \in S

\* The result: an object dies at the latest time at which an object that
\* reaches it was last seen, and its references end when it dies.
DeathTimesRight ==
    pc \in {"insert", "done"} =>
        \A o \in Objects :
            /\ \E a \in Objects : Reaches(a, o) /\ death[o] = seen[a]
            /\ \A a \in Objects : Reaches(a, o) => seen[a] <= death[o]
            /\ \A k \in Edges(o) : end[o][k] = death[o]

\* Objects that a search has expanded.
Expanded == (Objects \ garbage) \ (IF stack # << >> /\ cur \notin labeled THEN {cur} ELSE {})

\* Why latest first works: while a search runs, what has been expanded died no
\* earlier than its root and what is still in the deque no later, and a
\* reference that leaves an expanded object leads to one that dies no earlier
\* and that has been expanded too or waits on the stack.
SearchInvariant ==
    pc = "dfs" =>
        /\ \A s \in Expanded : \A t \in Targets(s) :
              ts[s] <= ts[t] /\ t \in Expanded \cup OnStack
        /\ \A s \in Expanded, g \in garbage : ts[g] <= ts[s]
        /\ stack # << >> =>
              /\ \A s \in Expanded \cup OnStack : ts[cur] <= ts[s]
              /\ \A g \in garbage : ts[g] <= ts[cur]
        /\ \A g \in garbage \ OnStack : ts[g] = seen[g]

\* The searches end, whatever cycles the references form.
Terminates == <>(pc = "done")

\* The list keeps the records that were placed, those up to the greatest last-seen
\* time, in their order, without repeating one, and has one death record of each
\* object, behind all records that are not after its death.
DeathsPlaced ==
    pc = "done" =>
        LET n == merge.next - 1
            Place(kind, id) == {p \in DOMAIN merge.list : /\ merge.list[p].kind = kind
                                                         /\ merge.list[p].id = id}
        IN
        /\ \A i \in 1 .. n : \E p \in DOMAIN merge.list : Place("record", i) = {p}
        /\ \A i, j \in 1 .. n : i < j =>
              \A p \in Place("record", i), q \in Place("record", j) : p < q
        /\ \A o \in Objects : \E p \in DOMAIN merge.list :
              /\ Place("death", o) = {p}
              /\ \A i \in DOMAIN Trace : Trace[i] <= death[o] =>
                    \E q \in Place("record", i) : q < p
=============================================================================
