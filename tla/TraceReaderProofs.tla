-------------------------- MODULE TraceReaderProofs --------------------------
(***************************************************************************)
(* The read loop of the simulator, for every set of object ids, fields,    *)
(* threads and sizes, and every trace of fewer than Word records.          *)
(***************************************************************************)
EXTENDS TraceReader, SequenceTheorems, FiniteSetTheorems, TLAPS

(* The inductive invariant.                                                *)

NoRefs(h) == \A k \in DOMAIN h.made : \A f \in FieldIds : h.made[k].fields[f] = NoEdge

Good(h) == HeapOK(h) /\ NoRefs(h)

\* No record is later than the clock.
TimesPast == \A i \in DOMAIN trace : trace[i].time <= uptime

\* Whatever is in no_alloc_map is in the heap, so it is never met again as new.
NoAllocInHeap == noAlloc \subseteq DOMAIN heap.objects

IInv == TypeOK /\ NoRefs(heap) /\ TimesPast /\ TraceVerified /\ NoAllocInHeap /\ NoDupe

------------------------------------------------------------------------------
(* The operations on the heap.                                             *)

LEMMA ObjectOK ==
    ASSUME NEW id \in Ids \cup {0}, NEW size \in Sizes \cup {Stub}, NEW kind \in {"M", "U", "A", "N"},
           NEW time \in Nat
    PROVE  /\ Object(id, size, kind, time) \in ObjectType
           /\ Object(id, size, kind, time).id = id
           /\ \A f \in FieldIds : Object(id, size, kind, time).fields[f] = NoEdge
BY DEF Object, ObjectType, NoEdge

LEMMA AllocateGood ==
    ASSUME NEW h, Good(h), NEW obj \in ObjectType,
           \A f \in FieldIds : obj.fields[f] = NoEdge
    PROVE  /\ Good(Allocate(h, obj))
           /\ DOMAIN Allocate(h, obj).objects = DOMAIN h.objects \cup {obj.id}
<1> DEFINE g == Allocate(h, obj)
           n == Len(h.made)
<1>1. /\ h \in HeapType(DOMAIN h.objects) /\ h.made \in Seq(ObjectType) /\ n \in Nat
      /\ DOMAIN h.objects \subseteq Ids \cup {0}
      /\ \A id \in DOMAIN h.objects : /\ h.objects[id] \in 1 .. n
                                      /\ h.made[h.objects[id]].id = id
      /\ h.liveSize \in Nat /\ h.alloc \in Nat
  BY DEF Good, HeapOK, HeapType
<1>2. g.made = Append(h.made, obj)
      /\ g.objects = [id \in DOMAIN h.objects \cup {obj.id} |->
                        IF id = obj.id THEN n + 1 ELSE h.objects[id]]
      /\ g.liveSize = h.liveSize + obj.size
      /\ g.alloc = (h.alloc + obj.size) % Word
      /\ g = [made |-> g.made, objects |-> g.objects, liveSize |-> g.liveSize,
              alloc |-> g.alloc]
  BY DEF Allocate
<1> HIDE DEF g
<1>3. /\ g.made \in Seq(ObjectType) /\ DOMAIN g.made = 1 .. n + 1
      /\ g.made[n + 1] = obj /\ \A k \in 1 .. n : g.made[k] = h.made[k]
  BY <1>1, <1>2
<1>4. obj.id \in Ids \cup {0} /\ obj.size \in Nat
  <2>1. obj.size \in Sizes \cup {Stub} /\ Stub \in Nat
    BY DEF ObjectType, Stub
  <2> QED  BY <2>1, ReaderAssumption DEF ObjectType
<1>5. g.liveSize \in Nat /\ g.alloc \in Nat
  BY <1>1, <1>2, <1>4, ReaderAssumption
<1>6. DOMAIN g.objects = DOMAIN h.objects \cup {obj.id}
  BY <1>2
<1>7. ASSUME NEW id \in DOMAIN g.objects
      PROVE  g.objects[id] \in 1 .. n + 1 /\ g.made[g.objects[id]].id = id
  <2>1. CASE id = obj.id
    BY <1>1, <1>2, <1>3, <2>1
  <2>2. CASE id # obj.id
    <3>1. id \in DOMAIN h.objects /\ g.objects[id] = h.objects[id]
      BY <1>2, <1>6, <2>2
    <3> QED  BY <1>1, <1>3, <3>1
  <2> QED  BY <2>1, <2>2
<1>8. g.objects \in [DOMAIN g.objects -> Nat]
  BY <1>1, <1>2, <1>7
<1>9. g \in HeapType(DOMAIN g.objects)
  BY <1>2, <1>3, <1>5, <1>8 DEF HeapType
<1>10. NoRefs(g)
  BY <1>1, <1>3 DEF Good, NoRefs
<1>11. DOMAIN g.objects \subseteq Ids \cup {0}
  BY <1>4, <1>6 DEF Good, HeapOK
<1> QED  BY <1>3, <1>6, <1>7, <1>9, <1>10, <1>11 DEF Good, HeapOK, g

LEMMA FindGood ==
    ASSUME NEW h, Good(h), NEW id \in Ids \cup {0}, NEW kind \in {"M", "U"},
           NEW time \in Nat
    PROVE  /\ Good(Find(h, id, kind, time))
           /\ DOMAIN Find(h, id, kind, time).objects = DOMAIN h.objects \cup {id}
<1>1. CASE InHeap(h, id)
  BY <1>1 DEF Find, InHeap
<1>2. CASE ~InHeap(h, id)
  <2> DEFINE obj == Object(id, Stub, kind, time)
  <2>1. kind \in {"M", "U", "A", "N"} /\ Stub \in Sizes \cup {Stub}
    OBVIOUS
  <2>2. obj \in ObjectType /\ obj.id = id /\ \A f \in FieldIds : obj.fields[f] = NoEdge
    BY <2>1, ObjectOK
  <2> HIDE DEF obj
  <2>3. Good(Allocate(h, obj)) /\ DOMAIN Allocate(h, obj).objects = DOMAIN h.objects \cup {id}
    BY <2>2, AllocateGood
  <2> QED  BY <1>2, <2>3 DEF Find, obj
<1> QED  BY <1>1, <1>2

LEMMA SeenGood ==
    ASSUME NEW h, Good(h), NEW id \in DOMAIN h.objects, NEW time \in Nat
    PROVE  Good(Seen(h, id, time)) /\ DOMAIN Seen(h, id, time).objects = DOMAIN h.objects
<1> DEFINE g == Seen(h, id, time)
           k == h.objects[id]
<1>1. /\ h \in HeapType(DOMAIN h.objects) /\ h.made \in Seq(ObjectType) /\ k \in DOMAIN h.made
      /\ \A i \in DOMAIN h.objects : /\ h.objects[i] \in DOMAIN h.made
                                     /\ h.made[h.objects[i]].id = i
  BY DEF Good, HeapOK, HeapType
<1>2. g = [h EXCEPT !.made = [h.made EXCEPT ![k] = [h.made[k] EXCEPT !.lastTimestamp = time]]]
  BY DEF Seen
<1>3. g.made = [h.made EXCEPT ![k] = [h.made[k] EXCEPT !.lastTimestamp = time]]
      /\ g.objects = h.objects
  BY <1>1, <1>2 DEF HeapType
<1>4. [h.made[k] EXCEPT !.lastTimestamp = time] \in ObjectType
  <2>1. h.made[k] \in ObjectType
    BY <1>1
  <2> QED  BY <2>1 DEF ObjectType
<1>5. g.made \in Seq(ObjectType) /\ DOMAIN g.made = DOMAIN h.made
  BY <1>1, <1>3, <1>4
<1>6. g \in HeapType(DOMAIN g.objects)
  BY <1>1, <1>2, <1>3, <1>5 DEF HeapType
<1>7. ASSUME NEW j \in DOMAIN h.made
      PROVE  g.made[j].id = h.made[j].id /\ g.made[j].fields = h.made[j].fields
  <2>1. h.made[j] \in ObjectType
    BY <1>1
  <2> QED  BY <1>1, <1>3, <2>1 DEF ObjectType
<1> HIDE DEF g
<1>8. NoRefs(g)
  BY <1>5, <1>7 DEF Good, NoRefs
<1>9. HeapOK(g)
  <2>1. DOMAIN g.objects \subseteq Ids \cup {0}
    BY <1>3 DEF Good, HeapOK
  <2> QED  BY <1>1, <1>3, <1>5, <1>6, <1>7, <2>1 DEF HeapOK
<1> QED  BY <1>3, <1>8, <1>9 DEF Good, g

\* No field has an edge, so no update makes one.
LEMMA UpdateGood ==
    ASSUME NEW h, Good(h), NEW id \in DOMAIN h.objects, NEW field \in FieldIds, NEW target
    PROVE  Update(h, id, field, target) = h
BY DEF Good, HeapOK, NoRefs, Update, NoEdge

------------------------------------------------------------------------------
LEMMA InitIInv == Init => IInv
<1> SUFFICES ASSUME Init PROVE IInv
  OBVIOUS
<1>1. heap.made = << >> /\ heap.objects = [id \in {} |-> 0] /\ DOMAIN heap.objects = {}
  BY DEF Init
<1>2. heap.objects \in [{} -> Nat]
  BY <1>1
<1>3. heap \in HeapType({})
  BY <1>2 DEF Init, HeapType
<1>4. HeapOK(heap) /\ NoRefs(heap)
  BY <1>1, <1>3 DEF HeapOK, NoRefs
<1> QED
  BY <1>1, <1>4 DEF Init, IInv, TypeOK, TimesPast, TraceVerified, NoAllocInHeap, NoDupe

\* While the loop reads, the clock has room for one more tick.
LEMMA ClockOK ==
    ASSUME IInv, Reading
    PROVE  /\ uptime \in Nat /\ NextUp = uptime + 1 /\ uptime + 1 <= Len(trace) + 1
           /\ Len(trace) \in Nat
BY ReaderAssumption DEF IInv, TypeOK, Reading, NextUp

\* A record that the clock's time is put on.
LEMMA RecordOK ==
    ASSUME IInv, NEW type \in {"M", "A", "N", "U", "W", "E"}, NEW id \in Ids \cup {0},
           NEW target \in Ids \cup {0}, uptime' \in Nat, NEW time \in Nat,
           uptime <= time, time <= uptime',
           uptime' <= Len(trace) + 1,
           trace' = Append(trace, Record(type, id, target, time))
    PROVE  /\ trace' \in Seq(RecordType)
           /\ uptime' \in 0 .. Len(trace')
           /\ TimesPast' /\ TraceVerified'
<1> DEFINE r == Record(type, id, target, time)
<1>1. trace \in Seq(RecordType) /\ uptime \in Nat
  BY DEF IInv, TypeOK
<1>2. r \in RecordType /\ r.time = time
  BY DEF Record, RecordType
<1> HIDE DEF r
<1>3. /\ trace' \in Seq(RecordType) /\ Len(trace') = Len(trace) + 1 /\ Len(trace) \in Nat
      /\ DOMAIN trace = 1 .. Len(trace) /\ DOMAIN trace' = 1 .. Len(trace) + 1
      /\ trace'[Len(trace) + 1] = r
      /\ \A i \in 1 .. Len(trace) : trace'[i] = trace[i]
  BY <1>1, <1>2 DEF r
<1>4. \A i \in DOMAIN trace : trace[i].time <= uptime /\ trace[i].time \in Nat
  <2> SUFFICES ASSUME NEW i \in DOMAIN trace
               PROVE  trace[i].time <= uptime /\ trace[i].time \in Nat
    OBVIOUS
  <2>1. trace[i] \in RecordType
    BY <1>1, <1>3
  <2> QED  BY <2>1 DEF IInv, TimesPast, RecordType
<1>5. TimesPast'
  BY <1>1, <1>2, <1>3, <1>4 DEF TimesPast
<1>6. TraceVerified'
  <2> SUFFICES ASSUME NEW i \in DOMAIN trace', i + 1 \in DOMAIN trace'
               PROVE  trace'[i].time <= trace'[i + 1].time
    BY DEF TraceVerified
  <2>1. i \in DOMAIN trace /\ i \in Nat
    BY <1>3
  <2>2. CASE i + 1 \in DOMAIN trace
    BY <1>3, <2>1, <2>2 DEF IInv, TraceVerified
  <2>3. CASE i = Len(trace)
    BY <1>1, <1>2, <1>3, <1>4, <2>1, <2>3
  <2> QED  BY <1>3, <2>1, <2>2, <2>3
<1> QED  BY <1>3, <1>5, <1>6

LEMMA FailIInv ==
    ASSUME IInv, NEW a, Fail(a),
           a \in Assertions \ {"duplicate"}
    PROVE  IInv'
BY DEF IInv, Fail, Assertions, TypeOK, NoRefs, TimesPast, TraceVerified, NoAllocInHeap, NoDupe

LEMMA MethodEntryIInv ==
    ASSUME IInv, NEW id \in Ids \cup {0}, NEW thread \in ThreadIds, MethodEntry(id, thread)
    PROVE  IInv'
<1>1. /\ Reading /\ uptime' = NextUp /\ trace' = Append(trace, Record("M", id, 0, NextUp))
      /\ threads' = threads \cup {thread}
      /\ heap' = IF id = 0 THEN heap ELSE Seen(Find(heap, id, "M", NextUp), id, NextUp)
      /\ UNCHANGED <<status, execAlloc, noAlloc>>
  BY DEF MethodEntry
<1>2. TypeOK /\ NoAllocInHeap /\ NoDupe /\ Good(heap)
  BY DEF IInv, TypeOK, Good
<1>3. NextUp = uptime + 1 /\ uptime \in Nat /\ NextUp \in Nat /\ NextUp <= Len(trace) + 1
  BY <1>1, ClockOK
<1>4. Good(heap') /\ DOMAIN heap.objects \subseteq DOMAIN heap'.objects
  <2>1. CASE id = 0
    BY <1>1, <1>2, <2>1
  <2>2. CASE id # 0
    <3> DEFINE found == Find(heap, id, "M", NextUp)
    <3>1. Good(found) /\ DOMAIN found.objects = DOMAIN heap.objects \cup {id}
      BY <1>2, <1>3, FindGood
    <3>2. heap' = Seen(found, id, NextUp)
      BY <1>1, <2>2
    <3> HIDE DEF found
    <3>4. id \in DOMAIN found.objects /\ NextUp \in Nat
      BY <1>3, <3>1
    <3>3. Good(Seen(found, id, NextUp))
          /\ DOMAIN Seen(found, id, NextUp).objects = DOMAIN found.objects
      BY ONLY <3>1, <3>4, SeenGood
    <3> QED  BY <3>1, <3>2, <3>3
  <2> QED  BY <2>1, <2>2
<1>5. /\ trace' \in Seq(RecordType)
      /\ uptime' \in 0 .. Len(trace') /\ TimesPast' /\ TraceVerified'
  <2>1. uptime' \in Nat /\ uptime <= NextUp /\ NextUp <= uptime' /\ uptime' <= Len(trace) + 1
    BY <1>1, <1>3
  <2>2. 0 \in Ids \cup {0} /\ "M" \in {"M", "A", "N", "U", "W", "E"}
    OBVIOUS
  <2> QED  BY <1>1, <1>3, <2>1, <2>2, RecordOK, Zenon
<1> QED  BY <1>1, <1>2, <1>4, <1>5 DEF IInv, TypeOK, Good, NoAllocInHeap, NoDupe

LEMMA MethodExitIInv ==
    ASSUME IInv, NEW stale \in Ids \cup {0}, MethodExit(stale)
    PROVE  IInv'
<1>1. CASE Fail("exitObject")
  BY <1>1, FailIInv DEF Assertions
<1>2. CASE ~Fail("exitObject")
  <2>1. /\ Reading /\ trace' = Append(trace, Record("E", 0, 0, NowUp))
        /\ UNCHANGED <<status, uptime, threads, execAlloc, heap, noAlloc>>
    BY <1>2 DEF MethodExit
  <2>2. uptime \in Nat /\ uptime <= Len(trace) + 1 /\ NowUp = uptime
    BY <2>1, ClockOK DEF NowUp
  <2>3. /\ trace' \in Seq(RecordType)
        /\ uptime' \in 0 .. Len(trace') /\ TimesPast' /\ TraceVerified'
    <3>1. /\ uptime' \in Nat /\ NowUp \in Nat /\ uptime <= NowUp /\ NowUp <= uptime'
          /\ uptime' <= Len(trace) + 1
      BY <2>1, <2>2
    <3>2. 0 \in Ids \cup {0} /\ "E" \in {"M", "A", "N", "U", "W", "E"}
      OBVIOUS
    <3> QED  BY <2>1, <3>1, <3>2, RecordOK, Zenon
  <2> QED  BY <2>1, <2>3 DEF IInv, TypeOK, NoRefs, NoAllocInHeap, NoDupe
<1> QED  BY <1>1, <1>2

LEMMA AllocationIInv ==
    ASSUME IInv, NEW type \in {"A", "N"}, NEW id \in Ids \cup {0}, NEW size \in Sizes,
           NEW thread \in ThreadIds, Allocation(type, id, size, thread)
    PROVE  IInv'
<1> DEFINE obj == Object(id, size, type, NowUp)
<1>1. /\ Reading /\ trace' = Append(trace, Record(type, id, 0, NowUp))
      /\ threads' = threads \cup {thread} /\ execAlloc' = heap.alloc
      /\ IF id = 0 THEN UNCHANGED <<heap, uptime>>
         ELSE heap' = Seen(Allocate(heap, obj), id, NowUp) /\ uptime' = NextUp
      /\ UNCHANGED <<status, noAlloc>>
  BY DEF Allocation
<1>2. TypeOK /\ NoAllocInHeap /\ NoDupe /\ Good(heap)
  BY DEF IInv, TypeOK, Good
<1>3. /\ NextUp = uptime + 1 /\ uptime \in Nat /\ NowUp = uptime /\ NowUp \in Nat
      /\ uptime + 1 <= Len(trace) + 1 /\ Len(trace) \in Nat
  BY <1>1, ClockOK DEF NowUp
<1>4. /\ obj \in ObjectType /\ obj.id = id /\ \A f \in FieldIds : obj.fields[f] = NoEdge
  BY <1>3, ObjectOK
<1> HIDE DEF obj
<1>5. Good(heap') /\ DOMAIN heap.objects \subseteq DOMAIN heap'.objects
  <2>1. CASE id = 0
    BY <1>1, <1>2, <2>1
  <2>2. CASE id # 0
    <3> DEFINE larger == Allocate(heap, obj)
    <3>1. Good(larger) /\ DOMAIN larger.objects = DOMAIN heap.objects \cup {id}
      BY <1>2, <1>4, AllocateGood
    <3>2. heap' = Seen(larger, id, NowUp)
      BY <1>1, <2>2
    <3> HIDE DEF larger
    <3>3. id \in DOMAIN larger.objects /\ NowUp \in Nat
      BY <1>3, <3>1
    <3>4. Good(Seen(larger, id, NowUp))
          /\ DOMAIN Seen(larger, id, NowUp).objects = DOMAIN larger.objects
      BY <3>1, <3>3, SeenGood
    <3> QED  BY <3>1, <3>2, <3>4
  <2> QED  BY <2>1, <2>2
<1>6. uptime' \in Nat /\ uptime <= uptime' /\ uptime' <= Len(trace) + 1
  BY <1>1, <1>3
<1>7. /\ trace' \in Seq(RecordType)
      /\ uptime' \in 0 .. Len(trace') /\ TimesPast' /\ TraceVerified'
  <2>1. uptime <= NowUp /\ NowUp <= uptime'
    BY <1>3, <1>6
  <2>2. 0 \in Ids \cup {0} /\ type \in {"M", "A", "N", "U", "W", "E"}
    OBVIOUS
  <2> QED  BY <1>1, <1>3, <1>6, <2>1, <2>2, RecordOK, Zenon
<1>8. execAlloc' \in Nat
  BY <1>1, <1>2 DEF Good, HeapOK, HeapType
<1> QED  BY <1>1, <1>2, <1>5, <1>7, <1>8 DEF IInv, TypeOK, Good, NoAllocInHeap, NoDupe

LEMMA FieldUpdateIInv ==
    ASSUME IInv, NEW id \in Ids \cup {0}, NEW target \in Ids \cup {0},
           NEW field \in FieldIds, NEW thread \in ThreadIds,
           FieldUpdate(id, target, field, thread)
    PROVE  IInv'
<1> DEFINE new == {i \in {id, target} : ~InHeap(heap, i)}
           found == Find(Find(heap, id, "U", NextUp), target, "U", NextUp)
           stamped == Stamp(found, id, target, NextUp)
<1>1. Reading /\ new \cap noAlloc = {}
  BY DEF FieldUpdate, InHeap, IInv, NoAllocInHeap
<1>2. CASE target = 0
  <2>1. Fail("targetObject")
    BY <1>2 DEF FieldUpdate
  <2> QED  BY <2>1, FailIInv DEF Assertions
<1>3. CASE target # 0
  <2>1. /\ uptime' = NextUp /\ trace' = Append(trace, Record("U", id, target, NextUp))
        /\ threads' = IF new = {} THEN threads ELSE threads \cup {thread}
        /\ heap' = Update(stamped, id, field, target)
        /\ noAlloc' = noAlloc \cup new
        /\ UNCHANGED <<status, execAlloc>>
    BY <1>1, <1>3 DEF FieldUpdate
  <2>2. TypeOK /\ NoAllocInHeap /\ NoDupe /\ Good(heap)
    BY DEF IInv, TypeOK, Good
  <2>3. NextUp = uptime + 1 /\ uptime \in Nat /\ NextUp \in Nat /\ NextUp <= Len(trace) + 1
    BY <1>1, ClockOK
  <2>4. Good(found) /\ DOMAIN found.objects = DOMAIN heap.objects \cup {id, target}
    <3> DEFINE first == Find(heap, id, "U", NextUp)
    <3>1. Good(first) /\ DOMAIN first.objects = DOMAIN heap.objects \cup {id}
      BY <2>2, <2>3, FindGood
    <3>2. found = Find(first, target, "U", NextUp)
      OBVIOUS
    <3> HIDE DEF first, found
    <3>3. Good(found) /\ DOMAIN found.objects = DOMAIN first.objects \cup {target}
      BY <2>3, <3>1, <3>2, FindGood
    <3> QED  BY <3>1, <3>3
  <2> HIDE DEF found
  <2>5. Good(stamped) /\ DOMAIN stamped.objects = DOMAIN found.objects
    <3> DEFINE half == Seen(found, target, NextUp)
    <3>3. target \in DOMAIN found.objects /\ id \in DOMAIN found.objects /\ NextUp \in Nat
      BY <2>3, <2>4
    <3>1. Good(half) /\ DOMAIN half.objects = DOMAIN found.objects
      BY ONLY <2>4, <3>3, SeenGood
    <3>2. stamped = Seen(half, id, NextUp)
      BY DEF Stamp
    <3> HIDE DEF half, stamped
    <3> QED  BY ONLY <3>1, <3>2, <3>3, SeenGood
  <2> HIDE DEF stamped
  <2>6. heap' = stamped
    BY <2>1, <2>4, <2>5, UpdateGood
  <2>7. noAlloc' \subseteq DOMAIN heap'.objects /\ noAlloc' \subseteq Ids \cup {0}
    BY <2>1, <2>2, <2>4, <2>5, <2>6 DEF NoAllocInHeap, TypeOK
  <2>8. /\ trace' \in Seq(RecordType)
        /\ uptime' \in 0 .. Len(trace') /\ TimesPast' /\ TraceVerified'
    <3>1. uptime' \in Nat /\ uptime <= NextUp /\ NextUp <= uptime' /\ uptime' <= Len(trace) + 1
      BY <2>1, <2>3
    <3>2. "U" \in {"M", "A", "N", "U", "W", "E"}
      OBVIOUS
    <3> QED  BY <2>1, <2>3, <3>1, <3>2, RecordOK, Zenon
  <2>9. threads' \subseteq ThreadIds
    BY <2>1, <2>2 DEF TypeOK
  <2> QED
    BY <2>1, <2>2, <2>5, <2>6, <2>7, <2>8, <2>9 DEF IInv, TypeOK, Good, NoAllocInHeap, NoDupe
<1> QED  BY <1>2, <1>3

LEMMA WitnessIInv ==
    ASSUME IInv, NEW id \in Ids \cup {0}, Witness(id)
    PROVE  IInv'
<1>1. CASE ~InHeap(heap, id)
  <2>1. Fail("witnessObject")
    BY <1>1 DEF Witness
  <2> QED  BY <2>1, FailIInv DEF Assertions
<1>2. CASE InHeap(heap, id)
  <2>1. /\ Reading /\ trace' = Append(trace, Record("W", id, 0, NowUp))
        /\ heap' = Seen(heap, id, NowUp)
        /\ UNCHANGED <<status, uptime, threads, execAlloc, noAlloc>>
    BY <1>2 DEF Witness
  <2>2. uptime \in Nat /\ uptime <= Len(trace) + 1 /\ NowUp = uptime
    BY <2>1, ClockOK DEF NowUp
  <2>3. /\ trace' \in Seq(RecordType)
        /\ uptime' \in 0 .. Len(trace') /\ TimesPast' /\ TraceVerified'
    <3>1. /\ uptime' \in Nat /\ NowUp \in Nat /\ uptime <= NowUp /\ NowUp <= uptime'
          /\ uptime' <= Len(trace) + 1
      BY <2>1, <2>2
    <3>2. 0 \in Ids \cup {0} /\ "W" \in {"M", "A", "N", "U", "W", "E"}
      OBVIOUS
    <3> QED  BY <2>1, <3>1, <3>2, RecordOK, Zenon
  <2>4. TypeOK /\ NoAllocInHeap /\ NoDupe /\ Good(heap)
    BY DEF IInv, TypeOK, Good
  <2>5. Good(heap') /\ DOMAIN heap'.objects = DOMAIN heap.objects
    BY <1>2, <2>1, <2>2, <2>4, SeenGood DEF InHeap
  <2> QED  BY <2>1, <2>3, <2>4, <2>5 DEF IInv, TypeOK, Good, NoAllocInHeap, NoDupe
<1> QED  BY <1>1, <1>2

LEMMA NextIInv ==
    ASSUME IInv, [Next]_vars
    PROVE  IInv'
<1>1. CASE BadLine
  BY <1>1, FailIInv DEF BadLine, Assertions
<1>2. CASE IsDone
  BY <1>2 DEF IsDone, IInv, TypeOK, NoRefs, TimesPast, TraceVerified, NoAllocInHeap, NoDupe
<1>3. CASE UNCHANGED vars
  BY <1>3 DEF vars, IInv, TypeOK, NoRefs, TimesPast, TraceVerified, NoAllocInHeap, NoDupe
<1> QED
  BY <1>1, <1>2, <1>3, MethodEntryIInv, MethodExitIInv, AllocationIInv, FieldUpdateIInv,
     WitnessIInv DEF Next, Ended

LEMMA Inductive == Spec => []IInv
<1> QED  BY InitIInv, NextIInv, PTL DEF Spec

------------------------------------------------------------------------------
(* Timestamps.                                                             *)

StampOf(h, id) == h.made[h.objects[id]].lastTimestamp

\* Every object of the heap g but those of S is in h too, with its timestamp.
Kept(g, h, S) ==
    \A id \in DOMAIN g.objects \ S : InHeap(h, id) /\ StampOf(h, id) = StampOf(g, id)

LEMMA AllocateKeeps ==
    ASSUME NEW h, Good(h), NEW obj
    PROVE  Kept(h, Allocate(h, obj), {obj.id})
<1> DEFINE g == Allocate(h, obj)
<1> SUFFICES ASSUME NEW id \in DOMAIN h.objects, id # obj.id
             PROVE  id \in DOMAIN g.objects /\ StampOf(g, id) = StampOf(h, id)
  BY DEF Kept, InHeap
<1>1. h.made \in Seq(ObjectType) /\ h.objects[id] \in DOMAIN h.made
  BY DEF Good, HeapOK, HeapType
<1>2. id \in DOMAIN g.objects /\ g.objects[id] = h.objects[id] /\ g.made = Append(h.made, obj)
  BY DEF Allocate
<1>3. h.objects[id] \in 1 .. Len(h.made) /\ Len(h.made) \in Nat
  BY <1>1
<1>4. Append(h.made, obj)[h.objects[id]] = h.made[h.objects[id]]
  BY <1>1, <1>3
<1> QED  BY <1>2, <1>4 DEF StampOf

LEMMA FindKeeps ==
    ASSUME NEW h, Good(h), NEW id \in Ids \cup {0}, NEW kind, NEW time
    PROVE  Kept(h, Find(h, id, kind, time), {})
<1>1. CASE InHeap(h, id)
  BY <1>1 DEF Find, Kept, InHeap
<1>2. CASE ~InHeap(h, id)
  <2> DEFINE obj == Object(id, Stub, kind, time)
  <2>1. obj.id = id
    BY DEF Object
  <2> HIDE DEF obj
  <2>2. Kept(h, Allocate(h, obj), {id})
    BY <2>1, AllocateKeeps
  <2>3. Find(h, id, kind, time) = Allocate(h, obj)
    BY <1>2 DEF Find, obj
  <2> QED  BY <1>2, <2>2, <2>3 DEF Kept, InHeap
<1> QED  BY <1>1, <1>2

LEMMA SeenKeeps ==
    ASSUME NEW h, Good(h), NEW id \in DOMAIN h.objects, NEW time
    PROVE  /\ Kept(h, Seen(h, id, time), {id})
           /\ StampOf(Seen(h, id, time), id) = time
<1> DEFINE g == Seen(h, id, time)
           k == h.objects[id]
<1>1. /\ h \in HeapType(DOMAIN h.objects) /\ h.made \in Seq(ObjectType) /\ k \in DOMAIN h.made
      /\ \A i \in DOMAIN h.objects : /\ h.objects[i] \in DOMAIN h.made
                                     /\ h.made[h.objects[i]].id = i
  BY DEF Good, HeapOK, HeapType
<1>2. g = [h EXCEPT !.made = [h.made EXCEPT ![k] = [h.made[k] EXCEPT !.lastTimestamp = time]]]
  BY DEF Seen
<1>3. g.made = [h.made EXCEPT ![k] = [h.made[k] EXCEPT !.lastTimestamp = time]]
      /\ g.objects = h.objects
  BY <1>1, <1>2 DEF HeapType
<1>4. g.made[k].lastTimestamp = time
  <2>1. h.made[k] \in ObjectType
    BY <1>1
  <2>2. g.made[k] = [h.made[k] EXCEPT !.lastTimestamp = time]
    BY <1>1, <1>3
  <2> QED  BY <2>1, <2>2 DEF ObjectType
<1>5. ASSUME NEW i \in DOMAIN h.objects, i # id
      PROVE  g.made[h.objects[i]] = h.made[h.objects[i]]
  <2>1. h.objects[i] # k /\ h.objects[i] \in DOMAIN h.made
    BY <1>1, <1>5
  <2> QED  BY <1>1, <1>3, <2>1
<1> HIDE DEF g
<1>6. Kept(h, g, {id})
  BY <1>3, <1>5 DEF Kept, InHeap, StampOf
<1>7. StampOf(g, id) = time
  BY <1>3, <1>4 DEF StampOf
<1> QED  BY <1>6, <1>7 DEF g

\* A step that appends r and stamps just what r speaks of keeps LastSeen.
LEMMA LastSeenStep ==
    ASSUME IInv, LastSeen, NEW r, trace' = Append(trace, r),
           Kept(heap, heap', SpeaksOf(r)),
           \A id \in SpeaksOf(r) : InHeap(heap', id) /\ StampOf(heap', id) = r.time
    PROVE  LastSeen'
<1> DEFINE n == Len(trace)
<1>1. trace \in Seq(RecordType) /\ n \in Nat
  BY DEF IInv, TypeOK
<1>2. /\ DOMAIN trace = 1 .. n /\ DOMAIN trace' = 1 .. n + 1 /\ Len(trace') = n + 1
      /\ trace'[n + 1] = r /\ \A i \in 1 .. n : trace'[i] = trace[i]
  BY <1>1
<1> SUFFICES ASSUME NEW i \in DOMAIN trace', NEW id \in SpeaksOf(trace'[i]),
                    \A j \in i + 1 .. Len(trace') : id \notin SpeaksOf(trace'[j])
             PROVE  InHeap(heap', id) /\ StampOf(heap', id) = trace'[i].time
  BY DEF LastSeen, StampOf, SpeaksOf, InHeap
<1>3. CASE i = n + 1
  BY <1>2, <1>3
<1>4. CASE i # n + 1
  <2>1. i \in 1 .. n /\ trace'[i] = trace[i]
    BY <1>1, <1>2, <1>4
  <2>2. id \notin SpeaksOf(r)
    BY <1>1, <1>2, <2>1
  <2>3. \A j \in i + 1 .. n : id \notin SpeaksOf(trace[j])
    BY <1>1, <1>2, <2>1
  <2>4. InHeap(heap, id) /\ StampOf(heap, id) = trace[i].time
    BY <1>2, <2>1, <2>3 DEF LastSeen, StampOf
  <2> QED  BY <2>1, <2>2, <2>4 DEF Kept, InHeap
<1> QED  BY <1>3, <1>4

LEMMA LastSeenEntry ==
    ASSUME IInv, LastSeen, NEW id \in Ids \cup {0}, NEW thread, MethodEntry(id, thread)
    PROVE  LastSeen'
<1> DEFINE r == Record("M", id, 0, NextUp)
           found == Find(heap, id, "M", NextUp)
<1>1. trace' = Append(trace, r) /\ heap' = IF id = 0 THEN heap ELSE Seen(found, id, NextUp)
  BY DEF MethodEntry
<1>2. r.time = NextUp /\ SpeaksOf(r) = {id} \ {0}
  BY DEF Record, SpeaksOf
<1>3. Good(heap) /\ NextUp \in Nat
  BY ClockOK DEF MethodEntry, IInv, TypeOK, Good
<1> HIDE DEF r
<1>4. CASE id = 0
  <2>1. SpeaksOf(r) = {} /\ heap' = heap
    BY <1>1, <1>2, <1>4
  <2>2. Kept(heap, heap', SpeaksOf(r))
    BY <2>1 DEF Kept, InHeap
  <2> QED  BY <1>1, <2>1, <2>2, LastSeenStep
<1>5. CASE id # 0
  <2>1. Good(found) /\ DOMAIN found.objects = DOMAIN heap.objects \cup {id}
    BY <1>3, FindGood
  <2>2. Kept(heap, found, {})
    BY <1>3, FindKeeps
  <2> HIDE DEF found
  <2> DEFINE seen == Seen(found, id, NextUp)
  <2>3. Kept(found, seen, {id}) /\ StampOf(seen, id) = NextUp
    BY <2>1, SeenKeeps
  <2>4. DOMAIN seen.objects = DOMAIN found.objects
    BY <1>3, <2>1, SeenGood
  <2>5. heap' = seen /\ SpeaksOf(r) = {id}
    BY <1>1, <1>2, <1>5
  <2> HIDE DEF seen
  <2>6. Kept(heap, heap', SpeaksOf(r))
    BY <2>2, <2>3, <2>5 DEF Kept, InHeap
  <2>7. \A i \in SpeaksOf(r) : InHeap(heap', i) /\ StampOf(heap', i) = r.time
    BY <1>2, <2>1, <2>3, <2>4, <2>5 DEF InHeap
  <2> QED  BY <1>1, <2>6, <2>7, LastSeenStep
<1> QED  BY <1>4, <1>5

LEMMA LastSeenAllocation ==
    ASSUME IInv, LastSeen, NEW type \in {"A", "N"}, NEW id \in Ids \cup {0},
           NEW size \in Sizes, NEW thread, Allocation(type, id, size, thread)
    PROVE  LastSeen'
<1> DEFINE r == Record(type, id, 0, NowUp)
           obj == Object(id, size, type, NowUp)
           larger == Allocate(heap, obj)
<1>1. trace' = Append(trace, r) /\ heap' = IF id = 0 THEN heap ELSE Seen(larger, id, NowUp)
  BY DEF Allocation
<1>2. r.time = NowUp /\ SpeaksOf(r) = {id} \ {0}
  BY DEF Record, SpeaksOf
<1>3. Good(heap) /\ NowUp \in Nat
  BY ClockOK DEF Allocation, IInv, TypeOK, Good, NowUp
<1>4. obj \in ObjectType /\ obj.id = id /\ \A f \in FieldIds : obj.fields[f] = NoEdge
  BY <1>3, ObjectOK
<1> HIDE DEF r, obj
<1>5. CASE id = 0
  <2>1. SpeaksOf(r) = {} /\ heap' = heap
    BY <1>1, <1>2, <1>5
  <2>2. Kept(heap, heap', SpeaksOf(r))
    BY <2>1 DEF Kept, InHeap
  <2> QED  BY <1>1, <2>1, <2>2, LastSeenStep
<1>6. CASE id # 0
  <2>1. Good(larger) /\ DOMAIN larger.objects = DOMAIN heap.objects \cup {id}
    BY <1>3, <1>4, AllocateGood
  <2>2. Kept(heap, larger, {id})
    BY <1>3, <1>4, AllocateKeeps
  <2> HIDE DEF larger
  <2> DEFINE seen == Seen(larger, id, NowUp)
  <2>3. Kept(larger, seen, {id}) /\ StampOf(seen, id) = NowUp
    BY <2>1, SeenKeeps
  <2>4. DOMAIN seen.objects = DOMAIN larger.objects
    BY <1>3, <2>1, SeenGood
  <2>5. heap' = seen /\ SpeaksOf(r) = {id}
    BY <1>1, <1>2, <1>6
  <2> HIDE DEF seen
  <2>6. Kept(heap, heap', SpeaksOf(r))
    BY <2>2, <2>3, <2>5 DEF Kept, InHeap
  <2>7. \A i \in SpeaksOf(r) : InHeap(heap', i) /\ StampOf(heap', i) = r.time
    BY <1>2, <2>1, <2>3, <2>4, <2>5 DEF InHeap
  <2> QED  BY <1>1, <2>6, <2>7, LastSeenStep
<1> QED  BY <1>5, <1>6

LEMMA LastSeenUpdate ==
    ASSUME IInv, LastSeen, NEW id \in Ids \cup {0}, NEW target \in Ids \cup {0},
           NEW field \in FieldIds, NEW thread,
           FieldUpdate(id, target, field, thread), trace' # trace
    PROVE  LastSeen'
<1> DEFINE r == Record("U", id, target, NextUp)
           first == Find(heap, id, "U", NextUp)
           found == Find(first, target, "U", NextUp)
           half == Seen(found, target, NextUp)
           stamped == Seen(half, id, NextUp)
<1>1. trace' = Append(trace, r) /\ heap' = Update(stamped, id, field, target)
  BY DEF FieldUpdate, Fail, Stamp
<1>2. r.time = NextUp /\ SpeaksOf(r) = {id, target}
  BY DEF Record, SpeaksOf
<1>3. Good(heap) /\ NextUp \in Nat
  BY ClockOK DEF FieldUpdate, IInv, TypeOK, Good
<1> HIDE DEF r
<1>4. Good(first) /\ DOMAIN first.objects = DOMAIN heap.objects \cup {id} /\ Kept(heap, first, {})
  BY <1>3, FindGood, FindKeeps
<1> HIDE DEF first
<1>5. /\ Good(found) /\ DOMAIN found.objects = DOMAIN first.objects \cup {target}
      /\ Kept(first, found, {})
  BY <1>3, <1>4, FindGood, FindKeeps
<1> HIDE DEF found
<1>6. /\ Good(half) /\ DOMAIN half.objects = DOMAIN found.objects
      /\ Kept(found, half, {target}) /\ StampOf(half, target) = NextUp
  <2>1. target \in DOMAIN found.objects
    BY <1>5
  <2>2. Good(half) /\ DOMAIN half.objects = DOMAIN found.objects
    BY <1>3, <1>5, <2>1, SeenGood
  <2>3. Kept(found, half, {target}) /\ StampOf(half, target) = NextUp
    BY <1>3, <1>5, <2>1, SeenKeeps
  <2> QED  BY <2>2, <2>3
<1> HIDE DEF half
<1>7. id \in DOMAIN half.objects /\ target \in DOMAIN half.objects
  BY <1>4, <1>5, <1>6
<1>8. /\ Good(stamped) /\ DOMAIN stamped.objects = DOMAIN half.objects
      /\ Kept(half, stamped, {id}) /\ StampOf(stamped, id) = NextUp
  <2>1. Good(stamped) /\ DOMAIN stamped.objects = DOMAIN half.objects
    BY <1>3, <1>6, <1>7, SeenGood
  <2>2. Kept(half, stamped, {id}) /\ StampOf(stamped, id) = NextUp
    BY <1>3, <1>6, <1>7, SeenKeeps
  <2> QED  BY <2>1, <2>2
<1> HIDE DEF stamped
<1>9. heap' = stamped
  BY <1>1, <1>7, <1>8, UpdateGood
<1>10. Kept(heap, heap', SpeaksOf(r))
  BY <1>2, <1>4, <1>5, <1>6, <1>8, <1>9 DEF Kept, InHeap
<1>11. StampOf(stamped, target) = NextUp
  BY <1>6, <1>7, <1>8 DEF Kept
<1>12. \A i \in SpeaksOf(r) : InHeap(heap', i) /\ StampOf(heap', i) = r.time
  BY <1>2, <1>7, <1>8, <1>9, <1>11 DEF InHeap
<1> QED  BY <1>1, <1>10, <1>12, LastSeenStep

LEMMA LastSeenWitness ==
    ASSUME IInv, LastSeen, NEW id \in Ids \cup {0}, Witness(id), trace' # trace
    PROVE  LastSeen'
<1> DEFINE r == Record("W", id, 0, NowUp)
<1>1. trace' = Append(trace, r) /\ heap' = Seen(heap, id, NowUp) /\ InHeap(heap, id)
  BY DEF Witness, Fail
<1>2. r.time = NowUp /\ SpeaksOf(r) = {id}
  BY DEF Record, SpeaksOf
<1>3. Good(heap) /\ NowUp \in Nat
  BY ClockOK DEF Witness, IInv, TypeOK, Good, NowUp
<1> HIDE DEF r
<1> DEFINE seen == Seen(heap, id, NowUp)
<1>4. id \in DOMAIN heap.objects
  BY <1>1 DEF InHeap
<1>5. Kept(heap, seen, {id}) /\ StampOf(seen, id) = NowUp
  BY <1>3, <1>4, SeenKeeps
<1>6. DOMAIN seen.objects = DOMAIN heap.objects
  BY <1>3, <1>4, SeenGood
<1>7. heap' = seen
  BY <1>1
<1> HIDE DEF seen
<1>8. Kept(heap, heap', SpeaksOf(r))
  BY <1>2, <1>5, <1>7
<1>9. \A i \in SpeaksOf(r) : InHeap(heap', i) /\ StampOf(heap', i) = r.time
  BY <1>2, <1>4, <1>5, <1>6, <1>7 DEF InHeap
<1> QED  BY <1>1, <1>8, <1>9, LastSeenStep

LEMMA LastSeenNext ==
    ASSUME IInv, LastSeen, [Next]_vars
    PROVE  LastSeen'
<1>1. CASE UNCHANGED <<trace, heap>>
  BY <1>1 DEF LastSeen, SpeaksOf, InHeap
<1>2. ASSUME NEW stale \in Ids \cup {0}, MethodExit(stale) PROVE LastSeen'
  <2>1. CASE UNCHANGED <<trace, heap>>
    BY <1>1, <2>1
  <2>2. CASE ~UNCHANGED <<trace, heap>>
    <3> DEFINE r == Record("E", 0, 0, NowUp)
    <3>1. trace' = Append(trace, r) /\ heap' = heap
      BY <1>2, <2>2 DEF MethodExit, Fail
    <3>2. SpeaksOf(r) = {}
      BY DEF Record, SpeaksOf
    <3> HIDE DEF r
    <3>3. Kept(heap, heap', SpeaksOf(r))
      BY <3>1, <3>2 DEF Kept, InHeap
    <3> QED  BY <3>1, <3>2, <3>3, LastSeenStep
  <2> QED  BY <2>1, <2>2
<1>3. ASSUME NEW id \in Ids \cup {0}, NEW target \in Ids \cup {0}, NEW field \in FieldIds,
             NEW thread, FieldUpdate(id, target, field, thread)
      PROVE  LastSeen'
  <2>1. CASE Fail("targetObject") \/ Fail("duplicate")
    BY <1>1, <2>1 DEF Fail
  <2>2. CASE ~(Fail("targetObject") \/ Fail("duplicate"))
    <3>1. trace' = Append(trace, Record("U", id, target, NextUp)) /\ trace \in Seq(RecordType)
      BY <1>3, <2>2 DEF FieldUpdate, IInv, TypeOK
    <3>2. trace' # trace
      <4>1. Len(trace') = Len(trace) + 1 /\ Len(trace) \in Nat
        BY <3>1
      <4> QED  BY <4>1
    <3> QED  BY <1>3, <3>2, LastSeenUpdate
  <2> QED  BY <2>1, <2>2
<1>4. ASSUME NEW id \in Ids \cup {0}, Witness(id) PROVE LastSeen'
  <2>1. CASE Fail("witnessObject")
    BY <1>1, <2>1 DEF Fail
  <2>2. CASE ~Fail("witnessObject")
    <3>1. trace' = Append(trace, Record("W", id, 0, NowUp)) /\ trace \in Seq(RecordType)
      BY <1>4, <2>2 DEF Witness, IInv, TypeOK
    <3>2. trace' # trace
      <4>1. Len(trace') = Len(trace) + 1 /\ Len(trace) \in Nat
        BY <3>1
      <4> QED  BY <4>1
    <3> QED  BY <1>4, <3>2, LastSeenWitness
  <2> QED  BY <2>1, <2>2
<1>5. CASE BadLine \/ IsDone \/ Ended \/ UNCHANGED vars
  BY <1>1, <1>5 DEF BadLine, Fail, IsDone, Ended, vars
<1> QED
  BY <1>2, <1>3, <1>4, <1>5, LastSeenEntry, LastSeenAllocation DEF Next

LEMMA LastSeenInit == Init => LastSeen
BY DEF Init, LastSeen

------------------------------------------------------------------------------
(* Lifetimes.                                                              *)

\* What Allocate and Seen do to the objects made so far.
LEMMA AllocateIs ==
    ASSUME NEW h, Good(h), NEW obj \in ObjectType
    PROVE  LET g == Allocate(h, obj)  n == Len(h.made) IN
           /\ n \in Nat /\ DOMAIN h.made = 1 .. n /\ Len(g.made) = n + 1 /\ DOMAIN g.made = 1 .. n + 1
           /\ g.made[n + 1] = obj /\ \A k \in 1 .. n : g.made[k] = h.made[k]
           /\ DOMAIN g.objects = DOMAIN h.objects \cup {obj.id}
           /\ g.objects[obj.id] = n + 1
           /\ \A id \in DOMAIN h.objects \ {obj.id} : g.objects[id] = h.objects[id]
<1>1. h.made \in Seq(ObjectType)
  BY DEF Good, HeapOK, HeapType
<1> QED  BY <1>1 DEF Allocate

LEMMA SeenIs ==
    ASSUME NEW h, Good(h), NEW id \in DOMAIN h.objects, NEW time
    PROVE  LET g == Seen(h, id, time)  i == h.objects[id] IN
           /\ i \in DOMAIN h.made /\ DOMAIN g.made = DOMAIN h.made /\ Len(g.made) = Len(h.made)
           /\ g.objects = h.objects
           /\ \A k \in DOMAIN h.made : k # i => g.made[k] = h.made[k]
           /\ g.made[i].lastTimestamp = time
           /\ \A k \in DOMAIN h.made : /\ g.made[k].id = h.made[k].id
                                       /\ g.made[k].createTime = h.made[k].createTime
<1> DEFINE g == Seen(h, id, time)
           i == h.objects[id]
<1>1. h \in HeapType(DOMAIN h.objects) /\ h.made \in Seq(ObjectType) /\ i \in DOMAIN h.made
  BY DEF Good, HeapOK, HeapType
<1>2. /\ g.made = [h.made EXCEPT ![i] = [h.made[i] EXCEPT !.lastTimestamp = time]]
      /\ g.objects = h.objects
  BY <1>1 DEF Seen, HeapType
<1>3. h.made[i] \in ObjectType
  BY <1>1
<1>4. DOMAIN g.made = DOMAIN h.made /\ Len(g.made) = Len(h.made)
  BY <1>1, <1>2
<1>5. \A k \in DOMAIN h.made : k # i => g.made[k] = h.made[k]
  BY <1>2
<1>6. g.made[i] = [h.made[i] EXCEPT !.lastTimestamp = time]
  BY <1>1, <1>2
<1>7. /\ g.made[i].lastTimestamp = time
      /\ g.made[i].id = h.made[i].id /\ g.made[i].createTime = h.made[i].createTime
  BY <1>3, <1>6 DEF ObjectType
<1> HIDE DEF g
<1>8. \A k \in DOMAIN h.made : /\ g.made[k].id = h.made[k].id
                               /\ g.made[k].createTime = h.made[k].createTime
  BY <1>5, <1>7
<1> QED  BY <1>1, <1>2, <1>4, <1>5, <1>7, <1>8 DEF g

\* Times up to now; m_objects has the latest object of every id; the objects
\* of an id follow one another; and a life that has not ended yet is the one
\* of the latest object of an id of N, which the same event is to stamp.
Lives(h, now, N) ==
    \A k \in DOMAIN h.made :
       /\ h.made[k].createTime <= now /\ h.made[k].lastTimestamp <= now
       /\ InHeap(h, h.made[k].id) /\ k <= h.objects[h.made[k].id]
       /\ \/ h.made[k].createTime <= h.made[k].lastTimestamp
          \/ h.made[k].id \in N /\ k = h.objects[h.made[k].id]
       /\ \A l \in k + 1 .. Len(h.made) :
             h.made[l].id = h.made[k].id => h.made[k].lastTimestamp <= h.made[l].createTime

LEMMA ObjectTimes ==
    ASSUME NEW h, Good(h), NEW k \in DOMAIN h.made
    PROVE  h.made[k].createTime \in Nat /\ h.made[k].lastTimestamp \in Nat /\ k \in Nat
<1>1. h.made \in Seq(ObjectType)
  BY DEF Good, HeapOK, HeapType
<1>2. h.made[k] \in ObjectType /\ k \in Nat
  BY <1>1
<1> QED  BY <1>2 DEF ObjectType

LEMMA AllocateLives ==
    ASSUME NEW h, Good(h), NEW N, NEW now \in Nat, Lives(h, now, N), NEW obj \in ObjectType,
           obj.createTime = now, obj.lastTimestamp = 0,
           obj.id \in N => ~InHeap(h, obj.id)
    PROVE  Lives(Allocate(h, obj), now, N \cup {obj.id})
<1> DEFINE g == Allocate(h, obj)
           n == Len(h.made)
<1>1. /\ n \in Nat /\ DOMAIN h.made = 1 .. n /\ Len(g.made) = n + 1 /\ DOMAIN g.made = 1 .. n + 1
      /\ g.made[n + 1] = obj /\ \A k \in 1 .. n : g.made[k] = h.made[k]
      /\ DOMAIN g.objects = DOMAIN h.objects \cup {obj.id}
      /\ g.objects[obj.id] = n + 1
      /\ \A id \in DOMAIN h.objects \ {obj.id} : g.objects[id] = h.objects[id]
  BY AllocateIs
<1> HIDE DEF g, n
<1>2. ASSUME NEW k \in 1 .. n
      PROVE  /\ g.made[k].createTime <= now /\ g.made[k].lastTimestamp <= now
             /\ InHeap(g, g.made[k].id) /\ k <= g.objects[g.made[k].id]
             /\ \/ g.made[k].createTime <= g.made[k].lastTimestamp
                \/ g.made[k].id \in N \cup {obj.id} /\ k = g.objects[g.made[k].id]
             /\ \A l \in k + 1 .. n + 1 :
                   g.made[l].id = g.made[k].id => g.made[k].lastTimestamp <= g.made[l].createTime
  <2>1. k \in DOMAIN h.made /\ g.made[k] = h.made[k] /\ k <= n /\ k \in Nat
    BY <1>1
  <2>2. /\ h.made[k].createTime <= now /\ h.made[k].lastTimestamp <= now
        /\ h.made[k].id \in DOMAIN h.objects /\ k <= h.objects[h.made[k].id]
        /\ \/ h.made[k].createTime <= h.made[k].lastTimestamp
           \/ h.made[k].id \in N /\ k = h.objects[h.made[k].id]
        /\ \A l \in k + 1 .. n :
              h.made[l].id = h.made[k].id => h.made[k].lastTimestamp <= h.made[l].createTime
    BY <2>1 DEF Lives, InHeap, n
  <2>3. InHeap(g, g.made[k].id) /\ k <= g.objects[g.made[k].id]
    BY <1>1, <2>1, <2>2 DEF InHeap
  <2>4. \/ g.made[k].createTime <= g.made[k].lastTimestamp
        \/ g.made[k].id \in N \cup {obj.id} /\ k = g.objects[g.made[k].id]
    <3>1. CASE g.made[k].createTime <= g.made[k].lastTimestamp
      BY <3>1
    <3>2. CASE h.made[k].id \in N /\ k = h.objects[h.made[k].id]
      <4>1. h.made[k].id # obj.id
        BY <2>2, <3>2 DEF InHeap
      <4> QED  BY <1>1, <2>1, <2>2, <3>2, <4>1
    <3> QED  BY <2>1, <2>2, <3>1, <3>2
  <2>5. ASSUME NEW l \in k + 1 .. n + 1, g.made[l].id = g.made[k].id
        PROVE  g.made[k].lastTimestamp <= g.made[l].createTime
    <3>1. CASE l = n + 1
      BY <1>1, <2>1, <2>2, <3>1
    <3>2. CASE l # n + 1
      <4>1. l \in k + 1 .. n /\ g.made[l] = h.made[l]
        BY <1>1, <2>1, <3>2
      <4> QED  BY <2>1, <2>2, <2>5, <4>1
    <3> QED  BY <3>1, <3>2
  <2> QED  BY <2>1, <2>2, <2>3, <2>4, <2>5
<1>3. ASSUME NEW k, k = n + 1
      PROVE  /\ g.made[k].createTime <= now /\ g.made[k].lastTimestamp <= now
             /\ InHeap(g, g.made[k].id) /\ k <= g.objects[g.made[k].id]
             /\ \/ g.made[k].createTime <= g.made[k].lastTimestamp
                \/ g.made[k].id \in N \cup {obj.id} /\ k = g.objects[g.made[k].id]
             /\ \A l \in k + 1 .. n + 1 :
                   g.made[l].id = g.made[k].id => g.made[k].lastTimestamp <= g.made[l].createTime
  BY <1>1, <1>3 DEF InHeap
<1>4. \A k \in 1 .. n + 1 : k \in 1 .. n \/ k = n + 1
  BY <1>1
<1>5. Lives(g, now, N \cup {obj.id})
  BY <1>1, <1>2, <1>3, <1>4 DEF Lives
<1> QED  BY <1>5 DEF g

LEMMA FindLives ==
    ASSUME NEW h, Good(h), NEW N, NEW now \in Nat, Lives(h, now, N),
           NEW id \in Ids \cup {0}, NEW kind \in {"M", "U"}
    PROVE  Lives(Find(h, id, kind, now), now, N \cup {id})
<1>1. CASE InHeap(h, id)
  BY <1>1 DEF Find, Lives
<1>2. CASE ~InHeap(h, id)
  <2> DEFINE obj == Object(id, Stub, kind, now)
  <2>1. obj \in ObjectType
    <3>1. kind \in {"M", "U", "A", "N"} /\ Stub \in Sizes \cup {Stub}
      OBVIOUS
    <3> QED  BY <3>1, ObjectOK
  <2>2. obj.id = id /\ obj.createTime = now /\ obj.lastTimestamp = 0
    BY DEF Object
  <2>3. Find(h, id, kind, now) = Allocate(h, obj)
    BY <1>2 DEF Find
  <2> HIDE DEF obj
  <2>4. Lives(Allocate(h, obj), now, N \cup {obj.id})
    BY <1>2, <2>1, <2>2, AllocateLives
  <2> QED  BY <2>2, <2>3, <2>4
<1> QED  BY <1>1, <1>2

LEMMA SeenLives ==
    ASSUME NEW h, Good(h), NEW N, NEW now \in Nat, Lives(h, now, N), NEW id \in DOMAIN h.objects
    PROVE  Lives(Seen(h, id, now), now, N \ {id})
<1> DEFINE g == Seen(h, id, now)
           i == h.objects[id]
<1>1. /\ i \in DOMAIN h.made /\ DOMAIN g.made = DOMAIN h.made /\ Len(g.made) = Len(h.made)
      /\ g.objects = h.objects
      /\ \A k \in DOMAIN h.made : k # i => g.made[k] = h.made[k]
      /\ g.made[i].lastTimestamp = now
      /\ \A k \in DOMAIN h.made : /\ g.made[k].id = h.made[k].id
                                  /\ g.made[k].createTime = h.made[k].createTime
  BY SeenIs
<1>2. h.made[i].id = id /\ h.made \in Seq(ObjectType)
  BY DEF Good, HeapOK, HeapType
<1> HIDE DEF g
<1>3. ASSUME NEW k \in DOMAIN h.made
      PROVE  /\ g.made[k].createTime <= now /\ g.made[k].lastTimestamp <= now
             /\ InHeap(g, g.made[k].id) /\ k <= g.objects[g.made[k].id]
             /\ \/ g.made[k].createTime <= g.made[k].lastTimestamp
                \/ g.made[k].id \in N \ {id} /\ k = g.objects[g.made[k].id]
             /\ \A l \in k + 1 .. Len(h.made) :
                   g.made[l].id = g.made[k].id => g.made[k].lastTimestamp <= g.made[l].createTime
  <2>1. /\ h.made[k].createTime <= now /\ h.made[k].lastTimestamp <= now
        /\ InHeap(h, h.made[k].id) /\ k <= h.objects[h.made[k].id]
        /\ \/ h.made[k].createTime <= h.made[k].lastTimestamp
           \/ h.made[k].id \in N /\ k = h.objects[h.made[k].id]
        /\ \A l \in k + 1 .. Len(h.made) :
              h.made[l].id = h.made[k].id => h.made[k].lastTimestamp <= h.made[l].createTime
    BY DEF Lives
  <2>2. \A l \in k + 1 .. Len(h.made) : l \in DOMAIN h.made /\ l > k /\ l \in Nat /\ k \in Nat
    BY <1>2
  <2>3. InHeap(g, g.made[k].id) /\ k <= g.objects[g.made[k].id]
    BY <1>1, <2>1 DEF InHeap
  <2>4. CASE k = i
    <3>1. h.made[k].id = id
      BY <1>2, <2>4
    <3>2. \A l \in k + 1 .. Len(h.made) : h.made[l].id # id
      <4> SUFFICES ASSUME NEW l \in k + 1 .. Len(h.made), h.made[l].id = id PROVE FALSE
        OBVIOUS
      <4>1. l \in DOMAIN h.made /\ l > k /\ l \in Nat /\ k \in Nat
        BY <2>2
      <4>2. l <= h.objects[id]
        BY <4>1 DEF Lives
      <4> QED  BY <2>4, <4>1, <4>2
    <3>3. \A l \in k + 1 .. Len(h.made) : g.made[l].id # g.made[k].id
      BY <1>1, <2>2, <3>1, <3>2
    <3>4. g.made[k].createTime <= now /\ g.made[k].lastTimestamp = now
      BY <1>1, <2>1, <2>4
    <3> QED  BY <2>3, <3>3, <3>4
  <2>5. CASE k # i
    <3>1. g.made[k] = h.made[k]
      BY <1>1, <2>5
    <3>2. h.made[k].id = id => k # h.objects[h.made[k].id]
      BY <2>5
    <3>3. \A l \in k + 1 .. Len(h.made) : /\ g.made[l].id = h.made[l].id
                                          /\ g.made[l].createTime = h.made[l].createTime
      BY <1>1, <2>2
    <3>4. \/ g.made[k].createTime <= g.made[k].lastTimestamp
          \/ g.made[k].id \in N \ {id} /\ k = g.objects[g.made[k].id]
      BY <1>1, <2>1, <3>1, <3>2
    <3> QED  BY <2>1, <2>3, <3>1, <3>3, <3>4
  <2> QED  BY <2>4, <2>5
<1>4. Lives(g, now, N \ {id})
  BY <1>1, <1>3 DEF Lives
<1> QED  BY <1>4 DEF g

LEMMA LivesLater ==
    ASSUME NEW h, Good(h), NEW now \in Nat, NEW later \in Nat, now <= later, Lives(h, now, {})
    PROVE  Lives(h, later, {})
<1> SUFFICES ASSUME NEW k \in DOMAIN h.made
             PROVE  /\ h.made[k].createTime <= later /\ h.made[k].lastTimestamp <= later
  BY DEF Lives
<1>1. h.made[k].createTime <= now /\ h.made[k].lastTimestamp <= now
  BY DEF Lives
<1> QED  BY <1>1, ObjectTimes

LEMMA LivesEntry ==
    ASSUME IInv, Lives(heap, uptime, {}), NEW id \in Ids \cup {0}, NEW thread,
           MethodEntry(id, thread)
    PROVE  Lives(heap', uptime', {})
<1>1. /\ uptime' = NextUp /\ heap' = IF id = 0 THEN heap ELSE Seen(Find(heap, id, "M", NextUp), id, NextUp)
      /\ Good(heap) /\ NextUp \in Nat /\ uptime \in Nat /\ uptime <= NextUp
  BY ClockOK DEF MethodEntry, IInv, TypeOK, Good
<1>2. Lives(heap, NextUp, {})
  BY <1>1, LivesLater
<1>3. CASE id # 0
  <2>1. PICK found : found = Find(heap, id, "M", NextUp)
    OBVIOUS
  <2>2. Good(found) /\ id \in DOMAIN found.objects
    BY <1>1, <2>1, FindGood
  <2>3. Lives(found, NextUp, {id})
    <3>1. Lives(found, NextUp, {} \cup {id})
      BY <1>1, <1>2, <2>1, FindLives
    <3> QED  BY <3>1
  <2>4. Lives(Seen(found, id, NextUp), NextUp, {id} \ {id})
    BY <1>1, <2>2, <2>3, SeenLives
  <2> QED  BY <1>1, <1>3, <2>1, <2>4
<1> QED  BY <1>1, <1>2, <1>3

LEMMA LivesAllocation ==
    ASSUME IInv, Lives(heap, uptime, {}), NEW type \in {"A", "N"}, NEW id \in Ids \cup {0},
           NEW size \in Sizes, NEW thread, Allocation(type, id, size, thread)
    PROVE  Lives(heap', uptime', {})
<1> DEFINE obj == Object(id, size, type, NowUp)
<1>1. /\ IF id = 0 THEN UNCHANGED <<heap, uptime>>
         ELSE heap' = Seen(Allocate(heap, obj), id, NowUp) /\ uptime' = NextUp
      /\ Good(heap) /\ NowUp = uptime /\ uptime \in Nat /\ NextUp = uptime + 1
  BY ClockOK DEF Allocation, IInv, TypeOK, Good, NowUp
<1>2. obj \in ObjectType /\ obj.id = id /\ \A f \in FieldIds : obj.fields[f] = NoEdge
  BY <1>1, ObjectOK
<1>3. obj.createTime = uptime /\ obj.lastTimestamp = 0
  BY <1>1 DEF Object
<1> HIDE DEF obj
<1>4. CASE id # 0
  <2>1. PICK larger : larger = Allocate(heap, obj)
    OBVIOUS
  <2>2. Good(larger) /\ id \in DOMAIN larger.objects
    BY <1>1, <1>2, <2>1, AllocateGood
  <2>3. Lives(larger, uptime, {id})
    <3>1. Lives(larger, uptime, {} \cup {obj.id})
      BY <1>1, <1>2, <1>3, <2>1, AllocateLives
    <3> QED  BY <1>2, <3>1
  <2>4. PICK seen : seen = Seen(larger, id, uptime)
    OBVIOUS
  <2>5. Good(seen) /\ Lives(seen, uptime, {})
    <3>1. Lives(seen, uptime, {id} \ {id})
      BY <1>1, <2>2, <2>3, <2>4, SeenLives
    <3>2. Good(seen)
      BY <1>1, <2>2, <2>4, SeenGood
    <3> QED  BY <3>1, <3>2
  <2>6. Lives(seen, uptime + 1, {})
    BY <1>1, <2>5, LivesLater
  <2> QED  BY <1>1, <1>4, <2>1, <2>4, <2>6
<1> QED  BY <1>1, <1>4

LEMMA LivesUpdate ==
    ASSUME IInv, Lives(heap, uptime, {}), NEW id \in Ids \cup {0}, NEW target \in Ids \cup {0},
           NEW field \in FieldIds, NEW thread, FieldUpdate(id, target, field, thread)
    PROVE  Lives(heap', uptime', {})
<1>1. CASE UNCHANGED <<heap, uptime>>
  BY <1>1
<1>2. CASE ~UNCHANGED <<heap, uptime>>
  <2> DEFINE first == Find(heap, id, "U", NextUp)
             found == Find(first, target, "U", NextUp)
             half == Seen(found, target, NextUp)
             stamped == Seen(half, id, NextUp)
  <2>1. uptime' = NextUp /\ heap' = Update(stamped, id, field, target)
    BY <1>2 DEF FieldUpdate, Fail, Stamp
  <2>2. Good(heap) /\ NextUp \in Nat /\ Lives(heap, NextUp, {})
    <3>1. Good(heap) /\ NextUp \in Nat /\ uptime \in Nat /\ uptime <= NextUp
      BY ClockOK DEF FieldUpdate, IInv, TypeOK, Good
    <3> QED  BY <3>1, LivesLater
  <2>3. /\ Good(first) /\ DOMAIN first.objects = DOMAIN heap.objects \cup {id}
        /\ Lives(first, NextUp, {} \cup {id})
    BY <2>2, FindGood, FindLives
  <2> HIDE DEF first
  <2>4. /\ Good(found) /\ DOMAIN found.objects = DOMAIN first.objects \cup {target}
        /\ Lives(found, NextUp, ({} \cup {id}) \cup {target})
    BY <2>2, <2>3, FindGood, FindLives
  <2> HIDE DEF found
  <2>5. target \in DOMAIN found.objects
    BY <2>4
  <2>6. Good(half) /\ DOMAIN half.objects = DOMAIN found.objects
    BY <2>2, <2>4, <2>5, SeenGood
  <2>7. Lives(half, NextUp, (({} \cup {id}) \cup {target}) \ {target})
    BY <2>2, <2>4, <2>5, SeenLives
  <2> HIDE DEF half
  <2>8. id \in DOMAIN half.objects /\ target \in DOMAIN half.objects
    BY <2>3, <2>4, <2>6
  <2>9. Good(stamped) /\ DOMAIN stamped.objects = DOMAIN half.objects
    BY <2>2, <2>6, <2>8, SeenGood
  <2>10. Lives(stamped, NextUp, ((({} \cup {id}) \cup {target}) \ {target}) \ {id})
    BY <2>2, <2>6, <2>7, <2>8, SeenLives
  <2> HIDE DEF stamped
  <2>11. Lives(stamped, NextUp, {})
    <3>1. ((({} \cup {id}) \cup {target}) \ {target}) \ {id} = {}
      OBVIOUS
    <3> QED  BY <2>10, <3>1
  <2>12. heap' = stamped
    BY <2>1, <2>8, <2>9, UpdateGood
  <2> QED  BY <2>1, <2>11, <2>12
<1> QED  BY <1>1, <1>2

LEMMA LivesWitness ==
    ASSUME IInv, Lives(heap, uptime, {}), NEW id \in Ids \cup {0}, Witness(id)
    PROVE  Lives(heap', uptime', {})
<1>1. CASE UNCHANGED <<heap, uptime>>
  BY <1>1
<1>2. CASE ~UNCHANGED <<heap, uptime>>
  <2>1. id \in DOMAIN heap.objects /\ heap' = Seen(heap, id, uptime) /\ uptime' = uptime
    BY <1>2 DEF Witness, Fail, InHeap, NowUp
  <2>2. Good(heap) /\ uptime \in Nat
    BY ClockOK DEF Witness, IInv, TypeOK, Good
  <2>3. Lives(heap', uptime, {} \ {id})
    BY <2>1, <2>2, SeenLives
  <2> QED  BY <2>1, <2>3
<1> QED  BY <1>1, <1>2

LEMMA LivesNext ==
    ASSUME IInv, Lives(heap, uptime, {}), [Next]_vars
    PROVE  Lives(heap', uptime', {})
<1>1. CASE UNCHANGED <<heap, uptime>>
  BY <1>1
<1>2. ASSUME NEW stale \in Ids \cup {0}, MethodExit(stale) PROVE UNCHANGED <<heap, uptime>>
  BY <1>2 DEF MethodExit, Fail
<1>3. CASE BadLine \/ IsDone \/ Ended \/ UNCHANGED vars
  BY <1>1, <1>3 DEF BadLine, Fail, IsDone, Ended, vars
<1> QED  BY <1>1, <1>2, <1>3, LivesEntry, LivesAllocation, LivesUpdate, LivesWitness DEF Next

LEMMA LivesInit == Init => Lives(heap, uptime, {})
<1> SUFFICES ASSUME Init PROVE Lives(heap, uptime, {})
  OBVIOUS
<1>1. DOMAIN heap.made = {}
  BY DEF Init
<1> QED  BY <1>1 DEF Lives

LEMMA LivesApart == IInv /\ Lives(heap, uptime, {}) => LifetimesApart
BY DEF Lives, LifetimesApart

------------------------------------------------------------------------------
(* The objects of an id, counted.                                          *)

ObjectsOf(h, id) == {k \in DOMAIN h.made : h.made[k].id = id}

Spoken(tr, id) == {i \in DOMAIN tr : id \in SpeaksOf(tr[i])}

Allocated(tr, id) == {i \in Spoken(tr, id) : IsAllocation(tr[i])}

Early(tr, id) ==
    \E i \in Spoken(tr, id) : ~IsAllocation(tr[i]) /\ \A j \in Spoken(tr, id) : i <= j

Counted(h, tr, id) ==
    /\ InHeap(h, id) <=> Spoken(tr, id) # {}
    /\ Cardinality(ObjectsOf(h, id))
         = Cardinality(Allocated(tr, id)) + (IF Early(tr, id) THEN 1 ELSE 0)

Same(h, g, id) == ObjectsOf(g, id) = ObjectsOf(h, id)

Grown(h, g, id) ==
    \E k : k \notin ObjectsOf(h, id) /\ ObjectsOf(g, id) = ObjectsOf(h, id) \cup {k}

LEMMA ObjectsFinite ==
    ASSUME NEW h, Good(h), NEW id
    PROVE  IsFiniteSet(ObjectsOf(h, id))
<1>1. h.made \in Seq(ObjectType)
  BY DEF Good, HeapOK, HeapType
<1>2. DOMAIN h.made = 1 .. Len(h.made) /\ Len(h.made) \in Nat
  BY <1>1
<1>3. IsFiniteSet(1 .. Len(h.made))
  BY <1>2, FS_Interval
<1>4. ObjectsOf(h, id) \in SUBSET (1 .. Len(h.made))
  BY <1>2 DEF ObjectsOf
<1> QED  BY <1>3, <1>4, FS_Subset

\* One record more.
LEMMA SpokenAppend ==
    ASSUME NEW tr \in Seq(RecordType), NEW r \in RecordType, NEW id
    PROVE  LET t == Append(tr, r)  n == Len(tr) IN
           /\ Spoken(t, id) = Spoken(tr, id) \cup (IF id \in SpeaksOf(r) THEN {n + 1} ELSE {})
           /\ Allocated(t, id) = Allocated(tr, id) \cup
                 (IF id \in SpeaksOf(r) /\ IsAllocation(r) THEN {n + 1} ELSE {})
           /\ Early(t, id) <=>
                 Early(tr, id) \/ (Spoken(tr, id) = {} /\ id \in SpeaksOf(r) /\ ~IsAllocation(r))
           /\ IsFiniteSet(Allocated(tr, id)) /\ n + 1 \notin Allocated(tr, id)
<1> DEFINE t == Append(tr, r)
           n == Len(tr)
<1>1. /\ n \in Nat /\ DOMAIN tr = 1 .. n /\ DOMAIN t = 1 .. n + 1
      /\ t[n + 1] = r /\ \A i \in 1 .. n : t[i] = tr[i]
  OBVIOUS
<1> HIDE DEF t, n
<1>2. Spoken(t, id) = Spoken(tr, id) \cup (IF id \in SpeaksOf(r) THEN {n + 1} ELSE {})
  <2>1. ASSUME NEW i \in Spoken(t, id)
        PROVE  i \in Spoken(tr, id) \cup (IF id \in SpeaksOf(r) THEN {n + 1} ELSE {})
    <3>1. i \in 1 .. n + 1 /\ id \in SpeaksOf(t[i])
      BY <1>1 DEF Spoken
    <3>2. CASE i = n + 1
      BY <1>1, <3>1, <3>2
    <3>3. CASE i # n + 1
      <4>1. i \in 1 .. n /\ t[i] = tr[i]
        BY <1>1, <3>1, <3>3
      <4> QED  BY <1>1, <3>1, <4>1 DEF Spoken
    <3> QED  BY <3>2, <3>3
  <2>2. ASSUME NEW i \in Spoken(tr, id) PROVE i \in Spoken(t, id)
    <3>1. i \in 1 .. n /\ id \in SpeaksOf(tr[i])
      BY <1>1 DEF Spoken
    <3>2. i \in 1 .. n + 1 /\ t[i] = tr[i]
      BY <1>1, <3>1
    <3> QED  BY <1>1, <3>1, <3>2 DEF Spoken
  <2>3. id \in SpeaksOf(r) => n + 1 \in Spoken(t, id)
    <3>1. n + 1 \in 1 .. n + 1
      BY <1>1
    <3> QED  BY <1>1, <3>1 DEF Spoken
  <2> QED  BY <2>1, <2>2, <2>3
<1>3. Spoken(tr, id) \subseteq 1 .. n /\ \A i \in Spoken(tr, id) : t[i] = tr[i] /\ i < n + 1 /\ i \in Nat
  BY <1>1 DEF Spoken
<1>4. Allocated(t, id) = Allocated(tr, id) \cup
        (IF id \in SpeaksOf(r) /\ IsAllocation(r) THEN {n + 1} ELSE {})
  <2>1. \A i : i \in Allocated(t, id) <=>
               i \in Allocated(tr, id) \/ (i = n + 1 /\ id \in SpeaksOf(r) /\ IsAllocation(r))
    BY <1>1, <1>2, <1>3 DEF Allocated
  <2> QED  BY <2>1
<1>5. Early(t, id) => Early(tr, id) \/ (Spoken(tr, id) = {} /\ id \in SpeaksOf(r) /\ ~IsAllocation(r))
  <2> SUFFICES ASSUME NEW i \in Spoken(t, id), ~IsAllocation(t[i]), \A j \in Spoken(t, id) : i <= j
               PROVE  Early(tr, id) \/ (Spoken(tr, id) = {} /\ id \in SpeaksOf(r) /\ ~IsAllocation(r))
    BY DEF Early
  <2>1. CASE i \in Spoken(tr, id)
    BY <1>2, <1>3, <2>1 DEF Early
  <2>2. CASE i \notin Spoken(tr, id)
    <3>1. i = n + 1 /\ id \in SpeaksOf(r) /\ ~IsAllocation(r)
      BY <1>1, <1>2, <2>2
    <3>2. ASSUME NEW j \in Spoken(tr, id) PROVE FALSE
      BY <1>1, <1>2, <1>3, <3>1
    <3> QED  BY <3>1, <3>2
  <2> QED  BY <2>1, <2>2
<1>6. Early(tr, id) => Early(t, id)
  <2> SUFFICES ASSUME NEW i \in Spoken(tr, id), ~IsAllocation(tr[i]), \A j \in Spoken(tr, id) : i <= j
               PROVE  Early(t, id)
    BY DEF Early
  <2>1. i \in Spoken(t, id) /\ ~IsAllocation(t[i])
    BY <1>2, <1>3
  <2>2. \A j \in Spoken(t, id) : i <= j
    BY <1>1, <1>2, <1>3
  <2> QED  BY <2>1, <2>2 DEF Early
<1>7. ASSUME Spoken(tr, id) = {}, id \in SpeaksOf(r), ~IsAllocation(r) PROVE Early(t, id)
  <2>1. Spoken(t, id) = {n + 1}
    BY <1>2, <1>7
  <2> QED  BY <1>1, <1>7, <2>1 DEF Early
<1>8. IsFiniteSet(Allocated(tr, id)) /\ n + 1 \notin Allocated(tr, id)
  <2>1. IsFiniteSet(1 .. n)
    BY <1>1, FS_Interval
  <2>2. Allocated(tr, id) \in SUBSET (1 .. n)
    BY <1>3 DEF Allocated
  <2>3. n + 1 \notin Allocated(tr, id)
    BY <1>1, <2>2
  <2> QED  BY <2>1, <2>2, <2>3, FS_Subset
<1> QED  BY <1>2, <1>4, <1>5, <1>6, <1>7, <1>8 DEF t, n

LEMMA CountStep ==
    ASSUME NEW h, Good(h), NEW g, NEW tr \in Seq(RecordType), NEW r \in RecordType, NEW id,
           Counted(h, tr, id),
           InHeap(g, id) <=> InHeap(h, id) \/ id \in SpeaksOf(r),
           id \notin SpeaksOf(r) \/ (InHeap(h, id) /\ ~IsAllocation(r)) => Same(h, g, id),
           id \in SpeaksOf(r) /\ (~InHeap(h, id) \/ IsAllocation(r)) => Grown(h, g, id)
    PROVE  Counted(g, Append(tr, r), id)
<1>1. PICK t, n : t = Append(tr, r) /\ n = Len(tr)
  OBVIOUS
<1>2. /\ Spoken(t, id) = Spoken(tr, id) \cup (IF id \in SpeaksOf(r) THEN {n + 1} ELSE {})
      /\ Allocated(t, id) = Allocated(tr, id) \cup
            (IF id \in SpeaksOf(r) /\ IsAllocation(r) THEN {n + 1} ELSE {})
      /\ Early(t, id) <=>
            Early(tr, id) \/ (Spoken(tr, id) = {} /\ id \in SpeaksOf(r) /\ ~IsAllocation(r))
      /\ IsFiniteSet(Allocated(tr, id)) /\ n + 1 \notin Allocated(tr, id)
  BY <1>1, SpokenAppend
<1>3. IsFiniteSet(ObjectsOf(h, id))
  BY ObjectsFinite
<1>4. Cardinality(Allocated(tr, id)) \in Nat /\ Cardinality(ObjectsOf(h, id)) \in Nat
  BY <1>2, <1>3, FS_CardinalityType
<1>5. Early(tr, id) => Spoken(tr, id) # {}
  BY DEF Early
<1>6. InHeap(g, id) <=> Spoken(t, id) # {}
  BY <1>2 DEF Counted
<1>7. Grown(h, g, id) => Cardinality(ObjectsOf(g, id)) = Cardinality(ObjectsOf(h, id)) + 1
  BY <1>3, FS_AddElement DEF Grown
<1>8. CASE id \notin SpeaksOf(r)
  BY <1>2, <1>6, <1>8, <1>1 DEF Counted, Same
<1>9. CASE id \in SpeaksOf(r) /\ IsAllocation(r)
  <2>1. Cardinality(Allocated(t, id)) = Cardinality(Allocated(tr, id)) + 1
    BY <1>2, <1>9, FS_AddElement
  <2>2. Early(t, id) <=> Early(tr, id)
    BY <1>2, <1>9
  <2>3. Cardinality(ObjectsOf(g, id)) = Cardinality(ObjectsOf(h, id)) + 1
    BY <1>7, <1>9
  <2> QED  BY <1>1, <1>4, <1>6, <2>1, <2>2, <2>3 DEF Counted
<1>10. CASE id \in SpeaksOf(r) /\ ~IsAllocation(r) /\ InHeap(h, id)
  <2>1. Allocated(t, id) = Allocated(tr, id) /\ (Early(t, id) <=> Early(tr, id))
    BY <1>2, <1>10 DEF Counted
  <2> QED  BY <1>1, <1>6, <1>10, <2>1 DEF Counted, Same
<1>11. CASE id \in SpeaksOf(r) /\ ~IsAllocation(r) /\ ~InHeap(h, id)
  <2>1. Allocated(t, id) = Allocated(tr, id) /\ Early(t, id) /\ ~Early(tr, id)
    BY <1>2, <1>5, <1>11 DEF Counted
  <2>2. Cardinality(ObjectsOf(g, id)) = Cardinality(ObjectsOf(h, id)) + 1
    BY <1>7, <1>11
  <2> QED  BY <1>1, <1>4, <1>6, <2>1, <2>2 DEF Counted
<1> QED  BY <1>8, <1>9, <1>10, <1>11

LEMMA AllocateCounts ==
    ASSUME NEW h, Good(h), NEW obj \in ObjectType, NEW id
    PROVE  /\ InHeap(Allocate(h, obj), id) <=> InHeap(h, id) \/ id = obj.id
           /\ id # obj.id => Same(h, Allocate(h, obj), id)
           /\ id = obj.id => Grown(h, Allocate(h, obj), id)
<1>1. PICK g, n : g = Allocate(h, obj) /\ n = Len(h.made)
  OBVIOUS
<1>2. /\ n \in Nat /\ DOMAIN h.made = 1 .. n /\ DOMAIN g.made = 1 .. n + 1
      /\ g.made[n + 1] = obj /\ \A k \in 1 .. n : g.made[k] = h.made[k]
      /\ DOMAIN g.objects = DOMAIN h.objects \cup {obj.id}
  BY <1>1, AllocateIs
<1>3. \A k : k \in 1 .. n + 1 <=> k \in 1 .. n \/ k = n + 1
  BY <1>2
<1>4. \A k : k \in ObjectsOf(g, id) <=> k \in ObjectsOf(h, id) \/ (k = n + 1 /\ id = obj.id)
  BY <1>2, <1>3 DEF ObjectsOf
<1>5. n + 1 \notin ObjectsOf(h, id)
  BY <1>2 DEF ObjectsOf
<1>6. id # obj.id => Same(h, g, id)
  BY <1>4 DEF Same
<1>7. id = obj.id => Grown(h, g, id)
  <2>1. id = obj.id => ObjectsOf(g, id) = ObjectsOf(h, id) \cup {n + 1}
    BY <1>4
  <2> QED  BY <1>5, <2>1 DEF Grown
<1> QED  BY <1>1, <1>2, <1>6, <1>7 DEF InHeap

LEMMA FindCounts ==
    ASSUME NEW h, Good(h), NEW i \in Ids \cup {0}, NEW kind \in {"M", "U"}, NEW time \in Nat, NEW id
    PROVE  LET g == Find(h, i, kind, time) IN
           /\ InHeap(g, id) <=> InHeap(h, id) \/ id = i
           /\ id # i \/ InHeap(h, id) => Same(h, g, id)
           /\ id = i /\ ~InHeap(h, id) => Grown(h, g, id)
<1>1. CASE InHeap(h, i)
  BY <1>1 DEF Find, Same
<1>2. CASE ~InHeap(h, i)
  <2>1. PICK obj : obj = Object(i, Stub, kind, time)
    OBVIOUS
  <2>2. obj \in ObjectType /\ obj.id = i
    <3>1. kind \in {"M", "U", "A", "N"} /\ Stub \in Sizes \cup {Stub}
      OBVIOUS
    <3> QED  BY <2>1, <3>1, ObjectOK
  <2>3. Find(h, i, kind, time) = Allocate(h, obj)
    BY <1>2, <2>1 DEF Find
  <2>4. /\ InHeap(Allocate(h, obj), id) <=> InHeap(h, id) \/ id = obj.id
        /\ id # obj.id => Same(h, Allocate(h, obj), id)
        /\ id = obj.id => Grown(h, Allocate(h, obj), id)
    BY <2>2, AllocateCounts
  <2> QED  BY <1>2, <2>2, <2>3, <2>4
<1> QED  BY <1>1, <1>2

LEMMA SeenCounts ==
    ASSUME NEW h, Good(h), NEW i \in DOMAIN h.objects, NEW time, NEW id
    PROVE  (InHeap(Seen(h, i, time), id) <=> InHeap(h, id)) /\ Same(h, Seen(h, i, time), id)
BY SeenIs DEF InHeap, Same, ObjectsOf

AllCounted == \A id \in Ids \cup {0} : Counted(heap, trace, id)

LEMMA CountedEntry ==
    ASSUME IInv, AllCounted, NEW i \in Ids \cup {0}, NEW thread, MethodEntry(i, thread),
           NEW id \in Ids \cup {0}
    PROVE  Counted(heap', trace', id)
<1>1. PICK r : r = Record("M", i, 0, NextUp)
  OBVIOUS
<1>2. /\ trace' = Append(trace, r)
      /\ heap' = IF i = 0 THEN heap ELSE Seen(Find(heap, i, "M", NextUp), i, NextUp)
  BY <1>1 DEF MethodEntry
<1>3. Good(heap) /\ NextUp \in Nat /\ trace \in Seq(RecordType)
  BY ClockOK DEF MethodEntry, IInv, TypeOK, Good
<1>4. r \in RecordType /\ SpeaksOf(r) = {i} \ {0} /\ ~IsAllocation(r)
  BY <1>1, <1>3 DEF Record, RecordType, SpeaksOf, IsAllocation
<1>5. Counted(heap, trace, id)
  BY DEF AllCounted
<1>6. CASE i = 0
  BY <1>2, <1>3, <1>4, <1>5, <1>6, CountStep DEF Same
<1>7. CASE i # 0
  <2>1. PICK found : found = Find(heap, i, "M", NextUp)
    OBVIOUS
  <2>2. Good(found) /\ i \in DOMAIN found.objects
    <3>1. /\ Good(Find(heap, i, "M", NextUp))
          /\ DOMAIN Find(heap, i, "M", NextUp).objects = DOMAIN heap.objects \cup {i}
      BY <1>3, FindGood
    <3> QED  BY <2>1, <3>1
  <2>3. /\ InHeap(found, id) <=> InHeap(heap, id) \/ id = i
        /\ id # i \/ InHeap(heap, id) => Same(heap, found, id)
        /\ id = i /\ ~InHeap(heap, id) => Grown(heap, found, id)
    BY <1>3, <2>1, FindCounts
  <2>4. PICK g : g = Seen(found, i, NextUp)
    OBVIOUS
  <2>5. (InHeap(g, id) <=> InHeap(found, id)) /\ ObjectsOf(g, id) = ObjectsOf(found, id)
    BY <2>2, <2>4, SeenCounts DEF Same
  <2>6. /\ id # i \/ InHeap(heap, id) => Same(heap, g, id)
        /\ id = i /\ ~InHeap(heap, id) => Grown(heap, g, id)
    BY <2>3, <2>5 DEF Same, Grown
  <2>7. heap' = g /\ SpeaksOf(r) = {i}
    BY <1>2, <1>4, <1>7, <2>1, <2>4
  <2>8. Counted(g, Append(trace, r), id)
    BY <1>3, <1>4, <1>5, <2>3, <2>5, <2>6, <2>7, CountStep
  <2> QED  BY <1>2, <2>7, <2>8
<1> QED  BY <1>6, <1>7

LEMMA CountedExit ==
    ASSUME IInv, AllCounted, NEW stale \in Ids \cup {0}, MethodExit(stale), NEW id \in Ids \cup {0}
    PROVE  Counted(heap', trace', id)
<1>0. Counted(heap, trace, id)
  BY DEF AllCounted
<1>1. CASE UNCHANGED <<heap, trace>>
  BY <1>0, <1>1
<1>2. CASE ~UNCHANGED <<heap, trace>>
  <2>1. PICK r : r = Record("E", 0, 0, NowUp)
    OBVIOUS
  <2>2. trace' = Append(trace, r) /\ heap' = heap
    BY <1>2, <2>1 DEF MethodExit, Fail
  <2>3. Good(heap) /\ NowUp \in Nat /\ trace \in Seq(RecordType)
    BY ClockOK DEF MethodExit, IInv, TypeOK, Good, NowUp
  <2>4. r \in RecordType /\ SpeaksOf(r) = {}
    BY <2>1, <2>3 DEF Record, RecordType, SpeaksOf
  <2> QED  BY <1>0, <2>2, <2>3, <2>4, CountStep DEF Same
<1> QED  BY <1>1, <1>2

LEMMA CountedAllocation ==
    ASSUME IInv, AllCounted, NEW type \in {"A", "N"}, NEW i \in Ids \cup {0},
           NEW size \in Sizes, NEW thread, Allocation(type, i, size, thread), NEW id \in Ids \cup {0}
    PROVE  Counted(heap', trace', id)
<1>1. PICK r, obj : r = Record(type, i, 0, NowUp) /\ obj = Object(i, size, type, NowUp)
  OBVIOUS
<1>2. /\ trace' = Append(trace, r)
      /\ heap' = IF i = 0 THEN heap ELSE Seen(Allocate(heap, obj), i, NowUp)
  BY <1>1 DEF Allocation
<1>3. Good(heap) /\ NowUp \in Nat /\ trace \in Seq(RecordType)
  BY ClockOK DEF Allocation, IInv, TypeOK, Good, NowUp
<1>4. r \in RecordType /\ SpeaksOf(r) = {i} \ {0} /\ IsAllocation(r)
  BY <1>1, <1>3 DEF Record, RecordType, SpeaksOf, IsAllocation
<1>5. Counted(heap, trace, id)
  BY DEF AllCounted
<1>6. CASE i = 0
  BY <1>2, <1>3, <1>4, <1>5, <1>6, CountStep DEF Same
<1>7. CASE i # 0
  <2>1. PICK larger : larger = Allocate(heap, obj)
    OBVIOUS
  <2>2. obj \in ObjectType /\ obj.id = i /\ \A f \in FieldIds : obj.fields[f] = NoEdge
    <3>1. type \in {"M", "U", "A", "N"} /\ size \in Sizes \cup {Stub} /\ NowUp \in Nat
      BY <1>3
    <3>2. /\ Object(i, size, type, NowUp) \in ObjectType
          /\ Object(i, size, type, NowUp).id = i
          /\ \A f \in FieldIds : Object(i, size, type, NowUp).fields[f] = NoEdge
      BY ONLY <3>1, i \in Ids \cup {0}, ObjectOK
    <3> QED  BY <1>1, <3>2
  <2>3. Good(larger) /\ i \in DOMAIN larger.objects
    BY <1>3, <2>1, <2>2, AllocateGood
  <2>4. /\ InHeap(larger, id) <=> InHeap(heap, id) \/ id = i
        /\ id # i => Same(heap, larger, id)
        /\ id = i => Grown(heap, larger, id)
    BY <1>3, <2>1, <2>2, AllocateCounts
  <2>5. PICK g : g = Seen(larger, i, NowUp)
    OBVIOUS
  <2>6. (InHeap(g, id) <=> InHeap(larger, id)) /\ ObjectsOf(g, id) = ObjectsOf(larger, id)
    BY <2>3, <2>5, SeenCounts DEF Same
  <2>7. (id # i => Same(heap, g, id)) /\ (id = i => Grown(heap, g, id))
    BY <2>4, <2>6 DEF Same, Grown
  <2>8. heap' = g /\ SpeaksOf(r) = {i}
    BY <1>2, <1>4, <1>7, <2>1, <2>5
  <2>9. Counted(g, Append(trace, r), id)
    BY <1>3, <1>4, <1>5, <2>4, <2>6, <2>7, <2>8, CountStep
  <2> QED  BY <1>2, <2>8, <2>9
<1> QED  BY <1>6, <1>7

LEMMA CountedUpdate ==
    ASSUME IInv, AllCounted, NEW i \in Ids \cup {0}, NEW target \in Ids \cup {0},
           NEW field \in FieldIds, NEW thread, FieldUpdate(i, target, field, thread), NEW id \in Ids \cup {0}
    PROVE  Counted(heap', trace', id)
<1>0. Counted(heap, trace, id)
  BY DEF AllCounted
<1>1. CASE UNCHANGED <<heap, trace>>
  BY <1>0, <1>1
<1>2. CASE ~UNCHANGED <<heap, trace>>
  <2> DEFINE first == Find(heap, i, "U", NextUp)
             found == Find(first, target, "U", NextUp)
             half == Seen(found, target, NextUp)
             stamped == Seen(half, i, NextUp)
  <2>1. PICK r : r = Record("U", i, target, NextUp)
    OBVIOUS
  <2>2. trace' = Append(trace, r) /\ heap' = Update(stamped, i, field, target)
    BY <1>2, <2>1 DEF FieldUpdate, Fail, Stamp
  <2>3. Good(heap) /\ NextUp \in Nat /\ trace \in Seq(RecordType)
    BY ClockOK DEF FieldUpdate, IInv, TypeOK, Good
  <2>4. r \in RecordType /\ SpeaksOf(r) = {i, target} /\ ~IsAllocation(r)
    BY <2>1, <2>3 DEF Record, RecordType, SpeaksOf, IsAllocation
  <2>5. Good(first) /\ DOMAIN first.objects = DOMAIN heap.objects \cup {i}
    BY <2>3, FindGood
  <2>6. /\ InHeap(first, id) <=> InHeap(heap, id) \/ id = i
        /\ id # i \/ InHeap(heap, id) => Same(heap, first, id)
        /\ id = i /\ ~InHeap(heap, id) => Grown(heap, first, id)
    BY <2>3, FindCounts
  <2> HIDE DEF first
  <2>7. Good(found) /\ DOMAIN found.objects = DOMAIN first.objects \cup {target}
    BY <2>3, <2>5, FindGood
  <2>8. /\ InHeap(found, id) <=> InHeap(first, id) \/ id = target
        /\ id # target \/ InHeap(first, id) => Same(first, found, id)
        /\ id = target /\ ~InHeap(first, id) => Grown(first, found, id)
    BY <2>3, <2>5, FindCounts
  <2> HIDE DEF found
  <2>9. target \in DOMAIN found.objects
    BY <2>7
  <2>10. Good(half) /\ DOMAIN half.objects = DOMAIN found.objects
    BY <2>3, <2>7, <2>9, SeenGood
  <2>11. (InHeap(half, id) <=> InHeap(found, id)) /\ Same(found, half, id)
    BY <2>7, <2>9, SeenCounts
  <2> HIDE DEF half
  <2>12. i \in DOMAIN half.objects /\ target \in DOMAIN half.objects
    BY <2>5, <2>7, <2>10
  <2>13. Good(stamped) /\ DOMAIN stamped.objects = DOMAIN half.objects
    BY <2>3, <2>10, <2>12, SeenGood
  <2>14. (InHeap(stamped, id) <=> InHeap(half, id)) /\ Same(half, stamped, id)
    BY <2>10, <2>12, SeenCounts
  <2> HIDE DEF stamped
  <2>15. heap' = stamped
    BY <2>2, <2>12, <2>13, UpdateGood
  <2>16. /\ InHeap(stamped, id) <=> InHeap(heap, id) \/ id \in {i, target}
         /\ id \notin {i, target} \/ InHeap(heap, id) => Same(heap, stamped, id)
         /\ id \in {i, target} /\ ~InHeap(heap, id) => Grown(heap, stamped, id)
    BY <2>6, <2>8, <2>11, <2>14 DEF Same, Grown
  <2>17. Counted(stamped, Append(trace, r), id)
    BY <1>0, <2>3, <2>4, <2>16, CountStep
  <2> QED  BY <2>2, <2>15, <2>17
<1> QED  BY <1>1, <1>2

LEMMA CountedWitness ==
    ASSUME IInv, AllCounted, NEW i \in Ids \cup {0}, Witness(i), NEW id \in Ids \cup {0}
    PROVE  Counted(heap', trace', id)
<1>0. Counted(heap, trace, id)
  BY DEF AllCounted
<1>1. CASE UNCHANGED <<heap, trace>>
  BY <1>0, <1>1
<1>2. CASE ~UNCHANGED <<heap, trace>>
  <2>1. PICK r : r = Record("W", i, 0, NowUp)
    OBVIOUS
  <2>2. trace' = Append(trace, r) /\ heap' = Seen(heap, i, NowUp) /\ i \in DOMAIN heap.objects
    BY <1>2, <2>1 DEF Witness, Fail, InHeap
  <2>3. Good(heap) /\ NowUp \in Nat /\ trace \in Seq(RecordType)
    BY ClockOK DEF Witness, IInv, TypeOK, Good, NowUp
  <2>4. r \in RecordType /\ SpeaksOf(r) = {i} /\ ~IsAllocation(r)
    BY <2>1, <2>3 DEF Record, RecordType, SpeaksOf, IsAllocation
  <2>5. (InHeap(heap', id) <=> InHeap(heap, id)) /\ Same(heap, heap', id)
    BY <2>2, <2>3, SeenCounts
  <2>6. Counted(heap', Append(trace, r), id)
    BY <1>0, <2>2, <2>3, <2>4, <2>5, CountStep DEF InHeap
  <2> QED  BY <2>2, <2>6
<1> QED  BY <1>1, <1>2

LEMMA CountedNext ==
    ASSUME IInv, AllCounted, [Next]_vars
    PROVE  AllCounted'
<1>1. AllCounted' <=> \A id \in Ids \cup {0} : Counted(heap', trace', id)
  BY DEF AllCounted, Counted, InHeap, Spoken, Allocated, Early, ObjectsOf, SpeaksOf, IsAllocation
<1>2. CASE UNCHANGED <<heap, trace>>
  BY <1>1, <1>2 DEF AllCounted
<1>3. CASE BadLine \/ IsDone \/ Ended \/ UNCHANGED vars
  BY <1>2, <1>3 DEF BadLine, Fail, IsDone, Ended, vars
<1> QED
  BY <1>1, <1>3, CountedEntry, CountedExit, CountedAllocation, CountedUpdate, CountedWitness DEF Next

LEMMA CountedInit == Init => AllCounted
<1> SUFFICES ASSUME Init, NEW id \in Ids \cup {0} PROVE Counted(heap, trace, id)
  BY DEF AllCounted
<1>1. heap.made = << >> /\ heap.objects = [i \in {} |-> 0] /\ trace = << >>
  BY DEF Init
<1>2. ObjectsOf(heap, id) = {} /\ Spoken(trace, id) = {} /\ ~InHeap(heap, id)
  BY <1>1 DEF ObjectsOf, Spoken, InHeap
<1>3. Allocated(trace, id) = {} /\ ~Early(trace, id)
  BY <1>2 DEF Allocated, Early
<1> QED  BY <1>2, <1>3, FS_EmptySet DEF Counted

LEMMA CountedAlways == Spec => []AllCounted
<1> QED  BY Inductive, CountedInit, CountedNext, PTL DEF Spec

------------------------------------------------------------------------------
\* verify_trace compares neighbours; all of the trace is in order.
Sorted == \A i, j \in DOMAIN trace : i <= j => trace[i].time <= trace[j].time

LEMMA SortedNext ==
    ASSUME IInv, IInv', Sorted, [Next]_vars
    PROVE  Sorted'
<1>1. CASE trace' = trace
  BY <1>1 DEF Sorted
<1>2. ASSUME NEW r, trace' = Append(trace, r) PROVE Sorted'
  <2>1. trace \in Seq(RecordType) /\ trace' \in Seq(RecordType)
    BY DEF IInv, TypeOK
  <2>2. PICK n \in Nat : n = Len(trace)
    BY <2>1
  <2>3. /\ DOMAIN trace = 1 .. n /\ Len(trace') = n + 1 /\ DOMAIN trace' = 1 .. n + 1
        /\ \A i \in 1 .. n : trace'[i] = trace[i]
    BY <1>2, <2>1, <2>2
  <2>4. \A i \in 1 .. n + 1 : trace'[i].time \in Nat
    <3>1. \A i \in 1 .. n + 1 : trace'[i] \in RecordType
      BY <2>1, <2>3
    <3> QED  BY <3>1 DEF RecordType
  <2>5. ASSUME NEW i \in 1 .. n + 1, NEW j \in 1 .. n + 1, i <= j
        PROVE  trace'[i].time <= trace'[j].time
    <3>1. CASE j \in 1 .. n
      BY <2>3, <2>5, <3>1 DEF Sorted
    <3>2. CASE j = n + 1 /\ i # n + 1
      <4>1. i \in 1 .. n /\ n \in 1 .. n /\ i <= n
        BY <2>5, <3>2
      <4>2. trace'[i].time <= trace'[n].time
        BY <2>3, <4>1 DEF Sorted
      <4>3. trace'[n].time <= trace'[n + 1].time
        BY <2>3, <4>1 DEF IInv, TraceVerified
      <4>4. trace'[n].time \in Nat /\ trace'[n + 1].time \in Nat /\ trace'[i].time \in Nat
        BY <2>4, <4>1
      <4> QED  BY <3>2, <4>2, <4>3, <4>4
    <3>3. CASE j = n + 1 /\ i = n + 1
      BY <2>4, <3>3
    <3> QED  BY <2>5, <3>1, <3>2, <3>3
  <2> QED  BY <2>3, <2>5 DEF Sorted
<1>3. trace' = trace \/ \E r : trace' = Append(trace, r)
  BY DEF Next, MethodEntry, MethodExit, Allocation, FieldUpdate, Witness, BadLine, IsDone,
         Ended, Fail, vars
<1> QED  BY <1>1, <1>2, <1>3

LEMMA SortedAlways == Spec => []Sorted
<1>1. Init => Sorted
  BY DEF Init, Sorted
<1> QED  BY <1>1, Inductive, SortedNext, PTL DEF Spec

------------------------------------------------------------------------------
(* The theorems.                                                           *)

\* The heap stays well formed: m_objects maps every id to an object that
\* bears it, and the clock never passes the number of records.
THEOREM TypeCorrect == Spec => []TypeOK
<1> QED  BY Inductive, PTL DEF IInv

\* verify_trace never finds an error in a trace the loop has read.
THEOREM TraceAlwaysVerified == Spec => []TraceVerified
<1> QED  BY Inductive, PTL DEF IInv

\* The assert(false) on a duplicate of no_alloc_map is dead code.
THEOREM DupeUnreachable == Spec => []NoDupe
<1> QED  BY Inductive, PTL DEF IInv

\* Whatever the trace says, no object ever gets a reference to another.
THEOREM NoReferenceEver == Spec => []NoReferences
<1>1. IInv => NoReferences
  BY DEF IInv, NoRefs, NoReferences
<1> QED  BY <1>1, Inductive, PTL

\* The timestamp of an object in the heap is the time of the last record that
\* speaks of it: Merlin starts from the right last-seen times.
THEOREM LastSeenRecorded == Spec => []LastSeen
<1> QED  BY Inductive, LastSeenInit, LastSeenNext, PTL DEF Spec

\* The objects of an id live one after the other: a record read later never
\* falls into the life of an object that the id stood for before.
THEOREM LivesDoNotOverlap == Spec => []LifetimesApart
<1>1. Spec => []Lives(heap, uptime, {})
  <2>1. Lives(heap, uptime, {})' <=> Lives(heap', uptime', {})
    BY DEF Lives, InHeap
  <2>2. IInv /\ Lives(heap, uptime, {}) /\ [Next]_vars => Lives(heap, uptime, {})'
    BY <2>1, LivesNext
  <2> QED  BY <2>2, Inductive, LivesInit, PTL DEF Spec
<1> QED  BY <1>1, Inductive, LivesApart, PTL

\* The heap has one object for each allocation event of an id, and one more
\* exactly when another event spoke of the id first.
THEOREM ObjectsCounted == Spec => []OneObjectPerAllocation
<1>1. AllCounted => OneObjectPerAllocation
  BY DEF AllCounted, Counted, OneObjectPerAllocation, ObjectsOf, Spoken, Allocated, Early
<1> QED  BY <1>1, CountedAlways, PTL
==============================================================================
