------------------------------- MODULE HeapState -------------------------------
(***************************************************************************)
(* The simulator's heap (HeapState and Object, heap.cpp and heap.hpp) as   *)
(* its public operations leave it: objects are allocated, learn what       *)
(* happens to them, die, and are counted by cause of death when the        *)
(* program ends.  The read loop of today's simulator calls allocate and    *)
(* getObject (TraceReader) and apply_merlin sets death times (Merlin); the *)
(* other operations are there for callers that the repository does not     *)
(* have, so they may be called in any order until the end of the program.  *)
(*                                                                         *)
(* An id may be allocated again: the object that had it is then in no map, *)
(* so Objects are numbered as they are made.  m_liveset is never erased    *)
(* from: it holds every object.  Left out are reference fields, names,     *)
(* allocation times, the times of last actions, and the count of objects   *)
(* whose last update was to NULL.                                          *)
(***************************************************************************)
EXTENDS Integers, Sequences, FiniteSets, FiniteSetsExt

CONSTANTS Ids,
          Sizes,
          Word,        \* values of an unsigned int, 2^32
          Long,        \* values of an unsigned long, 2^64
          Never,       \* UINT_MAX, a death time that is not set
          NoMethod,    \* NULL
          MaxObjects   \* bound: calls of allocate

VARIABLES
    made,         \* every Object so far
    m_objects,    \* id -> its Object's number
    m_liveSize, m_maxLiveSize,
    phase, left, final,   \* __end_of_program: ids to come, cur_time
    total, size,  \* the counters m_total... and m_size... by name
    deathSites,   \* keys of m_death_sites_map
    again         \* history: bytes of the objects that were allocated again

vars == <<made, m_objects, m_liveSize, m_maxLiveSize, phase, left, final, total, size,
          deathSites, again>>

Reasons == {"STACK", "HEAP", "GLOBAL", "END_OF_PROGRAM", "UNKNOWN"}
Events == {"ROOT", "UPDATE_AWAY_TO_NULL", "UPDATE_AWAY_TO_VALID", "END_OF_PROGRAM", "UNKNOWN"}
Counters == {"AtEnd", "ByStack", "ByHeap", "ByGlobal", "StackAfterHeap", "StackOnly", "NoSite"}

Init ==
    /\ made = << >>
    /\ m_objects = [i \in {} |-> 0]
    /\ m_liveSize = 0 /\ m_maxLiveSize = 0
    /\ phase = "running" /\ left = {} /\ final = 0
    /\ total = [k \in Counters |-> 0] /\ size = [k \in Counters |-> 0]
    /\ deathSites = {} /\ again = 0

------------------------------------------------------------------------------
(* Object                                                                  *)

Object(id, bytes, now) ==
    [id |-> id, size |-> bytes, createTime |-> now, deathTime |-> Never,
     dead |-> FALSE, reason |-> "UNKNOWN", lastEvent |-> "UNKNOWN",
     byStack |-> FALSE, byHeap |-> FALSE, byGlobal |-> FALSE, atEnd |-> FALSE,
     flagSet |-> FALSE, pointedAt |-> FALSE]

SetDiedByStack(o) == [o EXCEPT !.byStack = TRUE, !.reason = "STACK", !.flagSet = TRUE]
SetDiedByHeap(o) == [o EXCEPT !.byHeap = TRUE, !.reason = "HEAP", !.flagSet = TRUE]
SetDiedByGlobal(o) == [o EXCEPT !.byGlobal = TRUE, !.reason = "GLOBAL", !.flagSet = TRUE]

\* Another flag is not overridden.
SetDiedAtEnd(o) ==
    IF o.flagSet THEN o
    ELSE [o EXCEPT !.atEnd = TRUE, !.reason = "END_OF_PROGRAM", !.flagSet = TRUE]

\* Object::makeDead
Dead(o, time, reason) ==
    LET d == [o EXCEPT !.deathTime = time, !.reason = reason, !.dead = TRUE] IN
    CASE reason = "STACK" -> SetDiedByStack(d)
      [] reason \in {"HEAP", "UNKNOWN"} -> SetDiedByHeap(d)
      [] reason = "GLOBAL" -> SetDiedByGlobal(d)
      [] OTHER -> SetDiedAtEnd(d)

IsLive(o, time) == o.deathTime >= time

------------------------------------------------------------------------------
\* Mutant: no look at the carry.
PlusPlain(a, b) == a + b

\* unsigned long, saturating at both ends
Plus(a, b) == LET sum == (a + b) % Long IN IF sum < a THEN Long - 1 ELSE sum

Minus(a, b) == LET rest == (a - b) % Long IN IF rest > a THEN 0 ELSE rest

Allocate(id, bytes, now) ==
    /\ phase = "running"
    /\ Len(made) < MaxObjects
    /\ made' = Append(made, Object(id, bytes, now))
    /\ m_objects' = [i \in DOMAIN m_objects \cup {id} |->
                        IF i = id THEN Len(made) + 1 ELSE m_objects[i]]
    /\ m_liveSize' = Plus(m_liveSize, bytes)
    /\ m_maxLiveSize' = IF m_maxLiveSize < m_liveSize' THEN m_liveSize' ELSE m_maxLiveSize
    /\ UNCHANGED <<phase, left, final, total, size, deathSites, again>>

\* Mutant: the object is put, its size is not added.
AllocateFree(k) ==
    /\ phase = "running"
    /\ m_objects' = [i \in DOMAIN m_objects \cup {made[k].id} |->
                        IF i = made[k].id THEN k ELSE m_objects[i]]
    /\ again' = again + made[k].size
    /\ UNCHANGED <<made, m_liveSize, m_maxLiveSize, phase, left, final, total, size, deathSites>>

\* allocate(Object *) of an Object that the heap has made: it is the one of its
\* id from now on, and its size counts again, even if it is dead or was never
\* displaced.
AllocateAgain(k) ==
    /\ phase = "running"
    /\ m_objects' = [i \in DOMAIN m_objects \cup {made[k].id} |->
                        IF i = made[k].id THEN k ELSE m_objects[i]]
    /\ m_liveSize' = Plus(m_liveSize, made[k].size)
    /\ m_maxLiveSize' = IF m_maxLiveSize < m_liveSize' THEN m_liveSize' ELSE m_maxLiveSize
    /\ again' = again + made[k].size
    /\ UNCHANGED <<made, phase, left, final, total, size, deathSites>>

\* A call of a setter of the Object with this id.
Change(id, o) ==
    /\ phase = "running"
    /\ made' = [made EXCEPT ![m_objects[id]] = o]
    /\ UNCHANGED <<m_objects, m_liveSize, m_maxLiveSize, phase, left, final, total, size, deathSites, again>>

Get(id) == made[m_objects[id]]

SetReason(id, reason) == Change(id, [Get(id) EXCEPT !.reason = reason])
SetLastEvent(id, event) == Change(id, [Get(id) EXCEPT !.lastEvent = event])
SetPointedAtByHeap(id) == Change(id, [Get(id) EXCEPT !.pointedAt = TRUE])
SetDeathTime(id, time) == Change(id, [Get(id) EXCEPT !.deathTime = time])

\* Mutant: a dead object dies again.
DiesAgain(o) == TRUE

DiesNow(o) == ~o.dead

\* HeapState::makeDead
MakeDead(id, time) ==
    /\ phase = "running"
    /\ IF DiesNow(Get(id))
       THEN /\ m_liveSize' = Minus(m_liveSize, Get(id).size)
            /\ made' = [made EXCEPT ![m_objects[id]] = Dead(@, time, @.reason)]
       ELSE UNCHANGED <<m_liveSize, made>>
    /\ UNCHANGED <<m_objects, m_maxLiveSize, phase, left, final, total, size, deathSites, again>>

------------------------------------------------------------------------------
(* __end_of_program visits the objects in the order of their ids.          *)

EndOfProgram(time) ==
    /\ phase = "running"
    /\ phase' = "ending"
    /\ left' = DOMAIN m_objects
    /\ final' = time
    /\ UNCHANGED <<made, m_objects, m_liveSize, m_maxLiveSize, total, size, deathSites, again>>

\* Mutant: the flags of an earlier death stay.
EndedFlagged(o) ==
    IF IsLive(o, final)
    THEN LET d == IF o.dead THEN o ELSE Dead(o, final, "END_OF_PROGRAM") IN
         [d EXCEPT !.reason = "END_OF_PROGRAM", !.lastEvent = "END_OF_PROGRAM"]
    ELSE o

\* The branch for deathTime = cur_time is never taken: such an object is live.
Ended(o) ==
    IF IsLive(o, final)
    THEN LET d == IF o.dead THEN o ELSE Dead(o, final, "END_OF_PROGRAM")
             e == SetDiedAtEnd([d EXCEPT !.byStack = FALSE, !.byHeap = FALSE]) IN
         [e EXCEPT !.reason = "END_OF_PROGRAM", !.lastEvent = "END_OF_PROGRAM"]
    ELSE o

DiedAtEnd(o) == o.reason = "END_OF_PROGRAM" \/ o.atEnd

DiedByStack(o) ==
    \/ o.byStack
    \/ ~o.byHeap /\ (o.reason = "STACK" \/ o.lastEvent = "ROOT")

DiedByHeap(o) ==
    \/ o.byHeap \/ o.reason = "HEAP" \/ o.pointedAt \/ o.byGlobal
    \/ o.lastEvent \in {"UPDATE_AWAY_TO_NULL", "UPDATE_AWAY_TO_VALID"}

\* `never a target of an Update event', so taken for a stack death
Cause(o) ==
    IF DiedAtEnd(o) THEN "AtEnd"
    ELSE IF DiedByStack(o) \/ ~DiedByHeap(o) THEN "ByStack" ELSE "ByHeap"

\* The counters that update_death_counters moves for an object.
Moved(o) ==
    LET stack == Cause(o) = "ByStack"
        heap == Cause(o) = "ByHeap" IN
    {Cause(o)}
    \cup (IF stack /\ DiedByStack(o) /\ o.pointedAt THEN {"StackAfterHeap"} ELSE {})
    \cup (IF stack /\ ~(DiedByStack(o) /\ o.pointedAt) THEN {"StackOnly"} ELSE {})
    \cup (IF heap /\ o.byGlobal THEN {"ByGlobal"} ELSE {})

\* update_death_counters sets the flag of what it counts as a heap death.
Counted(o) == IF Cause(o) = "ByHeap" THEN SetDiedByHeap(o) ELSE o

\* unsigned int, wrapping: all counters are as wide as one size.
Wrapped(n) == n % Word

\* One object, whose death site is dsite.
EndObject(id, dsite) ==
    /\ phase = "ending" /\ id \in left /\ \A i \in left : id <= i
    /\ left' = left \ {id}
    /\ LET o == Ended(Get(id))
           moved == Moved(o)
           unknown == IF dsite = NoMethod THEN {"NoSite"} ELSE {} IN
       /\ made' = [made EXCEPT ![m_objects[id]] = Counted(o)]
       /\ total' = [k \in Counters |-> IF k \in moved \cup unknown THEN Wrapped(total[k] + 1)
                                      ELSE total[k]]
       /\ size' = [k \in Counters |-> IF k \in moved THEN Wrapped(size[k] + o.size) ELSE size[k]]
    /\ deathSites' = deathSites \cup ({dsite} \ {NoMethod})
    /\ UNCHANGED <<m_objects, m_liveSize, m_maxLiveSize, phase, final, again>>

------------------------------------------------------------------------------
ObjectType ==
    [id : Ids, size : Sizes, createTime : Nat, deathTime : Nat, dead : BOOLEAN,
     reason : Reasons, lastEvent : Events, byStack : BOOLEAN, byHeap : BOOLEAN,
     byGlobal : BOOLEAN, atEnd : BOOLEAN, flagSet : BOOLEAN, pointedAt : BOOLEAN]

HeapTypeOK ==
    /\ made \in Seq(ObjectType) /\ Len(made) <= MaxObjects
    /\ DOMAIN m_objects \subseteq Ids
    /\ m_objects \in [DOMAIN m_objects -> DOMAIN made]
    /\ \A i \in DOMAIN m_objects : Get(i).id = i
    /\ m_liveSize \in 0 .. Long - 1 /\ m_maxLiveSize \in 0 .. Long - 1
    /\ phase \in {"running", "ending"}
    /\ left \subseteq DOMAIN m_objects
    /\ final \in Nat
    /\ total \in [Counters -> 0 .. Word - 1] /\ size \in [Counters -> 0 .. Word - 1]
    /\ NoMethod \notin deathSites /\ again \in Nat

\* What output_all_objects2 prints in the column diedBy, G and H being one here.
Printed(o) == IF o.byStack THEN "ByStack" ELSE IF o.byHeap THEN "ByHeap" ELSE "AtEnd"

Sized(S) == MapThenSumSet(LAMBDA i : Get(i).size, S)

Visited == IF phase = "running" THEN {} ELSE DOMAIN m_objects \ left

\* The counters tell the truth about the objects visited so far, as far as an
\* unsigned int can: each object is counted under one cause, with its size; as
\* `at end' are counted those whose death time is the end; and if all of them
\* died by makeDead and not by the loss of a global reference, each is counted
\* under the cause that its flags say, which the object file prints.  (After a
\* last event ROOT a global death is counted as a stack death and printed as the
\* end.)  A sum of more than 32 bits is wrapped, never lost to another cause.
CountersAgree ==
    /\ Wrapped(total["AtEnd"] + total["ByStack"] + total["ByHeap"]) = Wrapped(Cardinality(Visited))
    /\ Wrapped(size["AtEnd"] + size["ByStack"] + size["ByHeap"]) = Wrapped(Sized(Visited))
    /\ total["ByStack"] = Wrapped(total["StackAfterHeap"] + total["StackOnly"])
    /\ total["AtEnd"] = Wrapped(Cardinality({i \in Visited : Get(i).deathTime = final}))
    /\ (\A i \in Visited : Get(i).dead /\ ~Get(i).byGlobal) =>
          \A cause \in {"AtEnd", "ByStack", "ByHeap"} :
              LET those == {i \in Visited : Printed(Get(i)) = cause} IN
              /\ total[cause] = Wrapped(Cardinality(those))
              /\ size[cause] = Wrapped(Sized(those))

Undead == {k \in DOMAIN made : ~made[k].dead}

SizeOf(S) == MapThenSumSet(LAMBDA k : made[k].size, S)

\* Until the end, the live size is the size of the objects that are not dead,
\* those displaced from m_objects included, and of those that were allocated
\* again, each time anew, unless a sum of sizes ever passed the range of unsigned
\* long; and it is never more, so it never runs below 0 for want of an object.
LiveSizeExact ==
    phase = "running" =>
        /\ m_liveSize <= SizeOf(Undead) + again
        /\ SizeOf(DOMAIN made) + again < Long => m_liveSize = SizeOf(Undead) + again
        /\ m_liveSize <= m_maxLiveSize
==============================================================================
