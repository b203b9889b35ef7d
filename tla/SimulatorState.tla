---------------------------- MODULE SimulatorState ----------------------------
(***************************************************************************)
(* The two globals of the simulator, Heap and Exec (simulator.cpp), under  *)
(* a caller that tells them what a trace says: times come from Exec.NowUp, *)
(* an object's context of death from the stack of the thread in which it   *)
(* dies, and __end_of_program reads that context back.  The caller calls   *)
(* what it likes until the end of the program.                             *)
(***************************************************************************)
EXTENDS Integers, Sequences, FiniteSets

CONSTANTS Ids, Sizes, Word, Long, Never, NoMethod, MaxObjects,
          ThreadIds, Methods, LibMethods, Junk, MaxTime,
          MaxCalls     \* bound: calls of both interfaces before the end

ASSUME HeapAssumption ==
    /\ Ids \subseteq Nat /\ IsFiniteSet(Ids)
    /\ Word \in Nat \ {0} /\ Sizes \subseteq 0 .. Word - 1
    /\ Long \in Nat /\ Word <= Long
    /\ Never \in Nat /\ MaxTime < Never
    /\ MaxObjects \in Nat

ASSUME ExecAssumption ==
    /\ LibMethods \subseteq Methods /\ NoMethod \notin Methods
    /\ IsFiniteSet(ThreadIds)
    /\ Junk # {}
    /\ MaxTime \in Nat /\ MaxCalls \in Nat

VARIABLES made, m_objects, m_liveSize, m_maxLiveSize, phase, left, final, total, size, deathSites,
          again, threads, m_methods, m_locals, m_deadlocals, m_thread_stack, m_meth_time,
          m_methexit_time, m_uptime, m_execPairCountMap, m_deathPairCountMap, sites,
          calls

Objects == 1 .. MaxObjects

Heap == INSTANCE HeapState
Exec == INSTANCE ExecState

heapVars == <<made, m_objects, m_liveSize, m_maxLiveSize, phase, left, final, total, size,
              deathSites, again>>
execVars == <<threads, m_methods, m_locals, m_deadlocals, m_thread_stack, m_meth_time,
              m_methexit_time, m_uptime, m_execPairCountMap, m_deathPairCountMap, sites>>
vars == <<heapVars, execVars, calls>>

Init == Heap!Init /\ Exec!Init /\ calls = 0

OneMoreCall == phase = "running" /\ calls < MaxCalls /\ calls' = calls + 1

HeapCall(id) ==
    \/ \E bytes \in Sizes : Heap!Allocate(id, bytes, Exec!NowUp)
    \/ \E k \in DOMAIN made : made[k].id = id /\ Heap!AllocateAgain(k)
    \/ /\ id \in DOMAIN m_objects
       /\ \/ \E reason \in {"STACK", "HEAP", "GLOBAL"} : Heap!SetReason(id, reason)
          \/ \E event \in {"ROOT", "UPDATE_AWAY_TO_NULL"} : Heap!SetLastEvent(id, event)
          \/ Heap!SetPointedAtByHeap(id)
          \/ Heap!SetDeathTime(id, Exec!NowUp)
          \/ Heap!MakeDead(id, Exec!NowUp)

ExecCall(t) ==
    \/ \E m \in Methods : Exec!Call(t, m)
    \/ Exec!Return(t)
    \/ \E id \in DOMAIN m_objects : Exec!ObjectRoot(t, m_objects[id])

\* The methods that are running where the object dies.
DeathContext(t, id) ==
    /\ id \in DOMAIN m_objects
    /\ \/ Exec!UpdateObj2DeathContext(m_objects[id], Exec!TopJavalibMethods(m_methods[t]))
       \/ Exec!UpdateObj2DeathContext(m_objects[id], Exec!FullMethodStack(m_methods[t]))

Next ==
    \/ OneMoreCall /\ \E id \in Ids : HeapCall(id) /\ UNCHANGED execVars
    \/ OneMoreCall /\ \E t \in ThreadIds : ExecCall(t) /\ UNCHANGED heapVars
    \/ OneMoreCall /\ Exec!Tick /\ UNCHANGED heapVars
    \/ OneMoreCall /\ \E t \in ThreadIds, id \in Ids : DeathContext(t, id) /\ UNCHANGED heapVars
    \/ Heap!EndOfProgram(Exec!NowUp) /\ UNCHANGED <<execVars, calls>>
    \/ \E id \in left : Heap!EndObject(id, sites[m_objects[id]].l1) /\ UNCHANGED <<execVars, calls>>
    \/ phase = "ending" /\ left = {} /\ UNCHANGED vars

Spec == Init /\ [][Next]_vars

------------------------------------------------------------------------------
\* Types.
TypeOK == Heap!HeapTypeOK /\ Exec!ExecTypeOK /\ calls \in 0 .. MaxCalls

\* The totals of the end agree with the objects they count (HeapState).
CountersAgree == Heap!CountersAgree

\* The live size is right until the end (HeapState).
LiveSizeExact == Heap!LiveSizeExact

\* Frames, local variables, threads and call contexts stay in step (ExecState).
StacksInStep == Exec!StacksInStep

\* When a context of death is taken from top_javalib_methods, what is recorded as
\* the first method that is not of a library is just that, how deep it may be,
\* provided that there is one.
NonLibraryContext ==
    [][\A t \in ThreadIds, id \in DOMAIN m_objects :
          LET methods == m_methods[t]
              app == {k \in DOMAIN methods : methods[k] \notin LibMethods} IN
          /\ app # {}
          /\ Exec!UpdateObj2DeathContext(m_objects[id], Exec!TopJavalibMethods(methods))
          => sites'[m_objects[id]].nonlib = methods[CHOOSE k \in app : \A j \in app : j <= k]]_vars
==============================================================================
