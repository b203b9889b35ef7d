----------------------------- MODULE TraceReader -----------------------------
(***************************************************************************)
(* The simulator's read loop (read_trace_file_part1, simulator.cpp) with   *)
(* the heap it fills (HeapState::allocate, getObject, make_edge and        *)
(* Object::updateField, heap.cpp) and the clock and the threads of         *)
(* ExecState (execution.hpp).                                              *)
(*                                                                         *)
(* A step reads one line of the trace file.  The lines are not fixed in    *)
(* advance: each step takes any line the file may hold next.  An object id *)
(* may come to stand for several Objects one after the other (a stub made  *)
(* for an event that came before the allocation event, a second allocation *)
(* event), so objects are numbered as they are made and m_objects maps an  *)
(* id to the latest.                                                       *)
(*                                                                         *)
(* A failed assert ends the process: only which one failed is kept.        *)
(* Names, types, sites, methods and lengths are not looked at by the loop  *)
(* and left out, and so is m_maxLiveSize, which equals m_liveSize as long  *)
(* as nothing dies.  The methods' clocks (m_meth_time, m_methexit_time)    *)
(* stay 0: the loop calls neither ExecState::Call nor Return.              *)
(***************************************************************************)
EXTENDS Naturals, Sequences, FiniteSets

CONSTANTS Ids,       \* object ids of the trace; 0 stands for no object
          FieldIds,
          ThreadIds,
          Sizes,
          Word,      \* values of an unsigned int: 2^32
          MaxTrace   \* bound: records in a trace

ASSUME ReaderAssumption ==
    /\ Ids \subseteq Nat \ {0}
    /\ Sizes \subseteq Nat
    /\ Word \in Nat /\ MaxTrace \in Nat /\ MaxTrace < Word

NoEdge == 0          \* m_fields has no such key
Stub   == 4          \* the size of an object without an allocation event

VARIABLES
    status,     \* reading, done, or the assertion that failed
    trace,      \* the records read, with the times given to them
    uptime,     \* m_uptime
    threads,    \* keys of m_threads
    execAlloc,  \* m_alloc_time of ExecState
    heap,       \* made: the Objects, objects: m_objects, liveSize: m_liveSize,
                \* alloc: m_alloc_time of HeapState
    noAlloc     \* keys of no_alloc_map

vars == <<status, trace, uptime, threads, execAlloc, heap, noAlloc>>

Init ==
    /\ status = "reading"
    /\ trace = << >>
    /\ uptime = 0
    /\ threads = {}
    /\ execAlloc = 0
    /\ heap = [made |-> << >>, objects |-> [id \in {} |-> 0], liveSize |-> 0, alloc |-> 0]
    /\ noAlloc = {}

\* Mutant: m_uptime is left out of the sum.
NowUpMethods == 0

\* Exec.NowUp()
NowUp == uptime

\* Mutant: the methods' clock is counted too.
NextUpTwice == (uptime + 2) % Word

\* Exec.NowUp() after Exec.IncUpdateTime()
NextUp == (uptime + 1) % Word

\* type is the case that made the record: a WitnessRecord's own m_record_type
\* is 'U', which nothing reads.
Record(type, id, target, time) ==
    [type |-> type, id |-> id, target |-> target, time |-> time]

\* kind: the type of the record it was made for; m_newFlag says if that is A or N.
Object(id, size, kind, time) ==
    [id |-> id, size |-> size, kind |-> kind, createTime |-> time,
     lastTimestamp |-> 0, fields |-> [f \in FieldIds |-> NoEdge]]

InHeap(h, id) == id \in DOMAIN h.objects

\* Mutant: insert() for operator[]: an id keeps the first object it stood for.
KeepFirst(h, obj) ==
    [made |-> Append(h.made, obj),
     objects |-> [id \in DOMAIN h.objects \cup {obj.id} |->
                    IF InHeap(h, id) THEN h.objects[id] ELSE Len(h.made) + 1],
     liveSize |-> h.liveSize + obj.size,
     alloc |-> (h.alloc + obj.size) % Word]

\* Heap.allocate
Allocate(h, obj) ==
    [made |-> Append(h.made, obj),
     objects |-> [id \in DOMAIN h.objects \cup {obj.id} |->
                    IF id = obj.id THEN Len(h.made) + 1 ELSE h.objects[id]],
     liveSize |-> h.liveSize + obj.size,
     alloc |-> (h.alloc + obj.size) % Word]

\* Mutant: a stub is made though the object is known.
FindAgain(h, id, kind, time) == Allocate(h, Object(id, Stub, kind, time))

\* Heap.getObject, and Heap.allocate for an object no event has spoken of yet.
Find(h, id, kind, time) ==
    IF InHeap(h, id) THEN h ELSE Allocate(h, Object(id, Stub, kind, time))

\* obj->setLastTimestamp
Seen(h, id, time) == [h EXCEPT !.made[h.objects[id]].lastTimestamp = time]

\* Mutant: only the source is stamped.
StampSource(h, id, target, time) == Seen(h, id, time)

\* The two objects of an update.
Stamp(h, id, target, time) == Seen(Seen(h, target, time), id, time)

\* obj->updateField, where the field has an edge to another object than target.
Update(h, id, field, target) ==
    LET old == h.made[h.objects[id]].fields[field] IN
    IF old # NoEdge /\ h.made[old].id # target
    THEN [h EXCEPT !.made[h.objects[id]].fields[field] = h.objects[target]]
    ELSE h

------------------------------------------------------------------------------
Reading == status = "reading" /\ Len(trace) < MaxTrace

\* numTokens, obj != NULL (at E, at W), target != NULL, false at a DUPE.
Assertions == {"numTokens", "exitObject", "witnessObject", "targetObject", "duplicate"}

Fail(assertion) ==
    /\ status' = assertion
    /\ UNCHANGED <<trace, uptime, threads, execAlloc, heap, noAlloc>>

\* M <method> <object> <thread>
MethodEntry(id, thread) ==
    /\ Reading
    /\ uptime' = NextUp
    /\ trace' = Append(trace, Record("M", id, 0, NextUp))
    /\ threads' = threads \cup {thread}
    /\ heap' = IF id = 0 THEN heap ELSE Seen(Find(heap, id, "M", NextUp), id, NextUp)
    /\ UNCHANGED <<status, execAlloc, noAlloc>>

\* E <method> <thread>.  The loop's object_id is not read from the line nor
\* set: stale is whatever the build makes of it.
MethodExit(stale) ==
    /\ Reading
    /\ IF stale = 0 \/ InHeap(heap, stale)
       THEN /\ trace' = Append(trace, Record("E", 0, 0, NowUp))
            /\ UNCHANGED <<status, uptime, threads, execAlloc, heap, noAlloc>>
       ELSE Fail("exitObject")

\* A/N <object> <size> <type> <site> <length> <thread> [<dims>]
Allocation(type, id, size, thread) ==
    /\ Reading
    /\ trace' = Append(trace, Record(type, id, 0, NowUp))
    /\ threads' = threads \cup {thread}
    /\ execAlloc' = heap.alloc
    /\ IF id = 0 THEN UNCHANGED <<heap, uptime>>
       ELSE /\ heap' = Seen(Allocate(heap, Object(id, size, type, NowUp)), id, NowUp)
            /\ uptime' = NextUp
    /\ UNCHANGED <<status, noAlloc>>

\* U <object> <target> <field> <thread>
FieldUpdate(id, target, field, thread) ==
    LET new == {i \in {id, target} : ~InHeap(heap, i)}
        found == Find(Find(heap, id, "U", NextUp), target, "U", NextUp)
    IN
    /\ Reading
    /\ IF target = 0 THEN Fail("targetObject")
       ELSE IF new \cap noAlloc # {} THEN Fail("duplicate")
       ELSE /\ uptime' = NextUp
            /\ trace' = Append(trace, Record("U", id, target, NextUp))
            /\ threads' = IF new = {} THEN threads ELSE threads \cup {thread}
            /\ heap' = Update(Stamp(found, id, target, NextUp), id, field, target)
            /\ noAlloc' = noAlloc \cup new
            /\ UNCHANGED <<status, execAlloc>>

\* W <object> <class> <timestamp>
Witness(id) ==
    /\ Reading
    /\ IF InHeap(heap, id)
       THEN /\ trace' = Append(trace, Record("W", id, 0, NowUp))
            /\ heap' = Seen(heap, id, NowUp)
            /\ UNCHANGED <<status, uptime, threads, execAlloc, noAlloc>>
       ELSE Fail("witnessObject")

\* Any of M, E, A, N, U with another number of tokens than it should have.
BadLine == Reading /\ Fail("numTokens")

\* The tokenizer has found the end of the file, or a blank line.
IsDone ==
    /\ status = "reading"
    /\ status' = "done"
    /\ UNCHANGED <<trace, uptime, threads, execAlloc, heap, noAlloc>>

Ended == status # "reading" /\ UNCHANGED vars

\* A line of an unknown kind only prints an error: it is a stuttering step.
Next ==
    \/ \E id \in Ids \cup {0}, thread \in ThreadIds : MethodEntry(id, thread)
    \/ \E stale \in Ids \cup {0} : MethodExit(stale)
    \/ \E type \in {"A", "N"}, id \in Ids \cup {0}, size \in Sizes, thread \in ThreadIds :
          Allocation(type, id, size, thread)
    \/ \E id, target \in Ids \cup {0}, field \in FieldIds, thread \in ThreadIds :
          FieldUpdate(id, target, field, thread)
    \/ \E id \in Ids \cup {0} : Witness(id)
    \/ BadLine
    \/ IsDone
    \/ Ended

Spec == Init /\ [][Next]_vars

------------------------------------------------------------------------------
ObjectType == [id : Ids \cup {0}, size : Sizes \cup {Stub}, kind : {"M", "U", "A", "N"},
               createTime : Nat, lastTimestamp : Nat,
               fields : [FieldIds -> Nat]]

RecordType == [type : {"M", "E", "A", "N", "U", "W"}, id : Ids \cup {0},
               target : Ids \cup {0}, time : Nat]

\* A heap whose m_objects has the keys S.
HeapType(S) == [made : Seq(ObjectType), objects : [S -> Nat], liveSize : Nat, alloc : Nat]

HeapOK(h) ==
    /\ DOMAIN h.objects \subseteq Ids \cup {0}
    /\ h \in HeapType(DOMAIN h.objects)
    /\ \A id \in DOMAIN h.objects : /\ h.objects[id] \in DOMAIN h.made
                                   /\ h.made[h.objects[id]].id = id

\* Types; m_objects maps an id to an object with that id.
TypeOK ==
    /\ status \in {"reading", "done"} \cup Assertions
    /\ trace \in Seq(RecordType)
    /\ uptime \in 0 .. Len(trace)
    /\ threads \subseteq ThreadIds
    /\ execAlloc \in Nat
    /\ HeapOK(heap)
    /\ noAlloc \subseteq Ids \cup {0}

\* verify_trace finds no error: no record has an earlier time than the one
\* before it, though times are read before or after the clock moves on.
TraceVerified ==
    \A i \in DOMAIN trace : i + 1 \in DOMAIN trace => trace[i].time <= trace[i + 1].time

\* assert(false) behind "duplicate" is out of reach: an object in
\* no_alloc_map never leaves the heap.
NoDupe == status # "duplicate"

\* The object a record speaks of; a call with no receiver speaks of none, an
\* update with no source speaks of object 0.
SpeaksOf(r) ==
    CASE r.type = "E" -> {}
      [] r.type = "U" -> {r.id, r.target}
      [] r.type = "W" -> {r.id}
      [] OTHER -> {r.id} \ {0}

\* What Merlin starts from: the timestamp of an object in the heap is the time
\* of the last record that speaks of it, whoever is source, target, receiver.
LastSeen ==
    \A i \in DOMAIN trace : \A id \in SpeaksOf(trace[i]) :
        (\A j \in i + 1 .. Len(trace) : id \notin SpeaksOf(trace[j]))
            => /\ InHeap(heap, id)
               /\ heap.made[heap.objects[id]].lastTimestamp = trace[i].time

IsAllocation(r) == r.type \in {"A", "N"}

\* One object per allocation event, and one more for an id that another event
\* speaks of before any allocation event does.
OneObjectPerAllocation ==
    \A id \in Ids :
        LET spoken == {i \in DOMAIN trace : id \in SpeaksOf(trace[i])}
            allocated == {i \in spoken : IsAllocation(trace[i])}
            early == \E i \in spoken : /\ ~IsAllocation(trace[i])
                                       /\ \A j \in spoken : i <= j
        IN  Cardinality({k \in DOMAIN heap.made : heap.made[k].id = id})
              = Cardinality(allocated) + (IF early THEN 1 ELSE 0)

\* Objects that an id stood for one after the other have lifetimes that do not
\* overlap, and no lifetime ends before it begins.
LifetimesApart ==
    \A k \in DOMAIN heap.made :
        /\ heap.made[k].createTime <= heap.made[k].lastTimestamp
        /\ \A l \in k + 1 .. Len(heap.made) :
              heap.made[l].id = heap.made[k].id
                => heap.made[k].lastTimestamp <= heap.made[l].createTime

\* The loop makes no edge: it does so only for a field that has one already.
NoReferences ==
    \A k \in DOMAIN heap.made : \A f \in FieldIds : heap.made[k].fields[f] = NoEdge

\* "Look up objects and perform update": after an update the source refers to
\* the target.
UpdatePerformed ==
    trace # << >> /\ trace[Len(trace)].type = "U" =>
        LET r == trace[Len(trace)] IN
        \E f \in FieldIds : heap.made[heap.objects[r.id]].fields[f] = heap.objects[r.target]

\* assert(obj != NULL) at an exit event holds.
ExitAsserted == status # "exitObject"
==============================================================================
