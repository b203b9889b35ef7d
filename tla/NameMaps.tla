------------------------------- MODULE NameMaps -------------------------------
(***************************************************************************)
(* The names behind the numbers of a trace: the id maps of                 *)
(* MethodInstrumenter, filled by whatever threads load classes             *)
(* (QtrToolTransformer.transform), the ids woven into the classes, and the *)
(* lists of names that the shutdown hook of DynamicInstrumenter writes     *)
(* while the program's threads still run.                                  *)
(*                                                                         *)
(* A key of methodIdMap is a class and a method name, so overloads share   *)
(* one.  A record is the key of the method that ran and the id written for *)
(* it; the records between handler and file are the recorder's affair      *)
(* (QTRProxy): here they are the sets `buffer' and `file'.                 *)
(*                                                                         *)
(* fieldIdMap and allocSiteIdMap stay empty, as the call that would apply  *)
(* the ExprEditor is commented out.  A thread that meets an IOException    *)
(* calls System.exit: it takes no further step, as any thread may here.    *)
(***************************************************************************)
EXTENDS Naturals, Sequences, FiniteSets

CONSTANTS Threads,
          Classes,       \* what shouldIgnore lets through
          Names,         \* names of methods
          Behaviors,     \* a class's declared behaviors, in order
          MaxLoads       \* bound: classes that are transformed

ASSUME NamesAssumption ==
    /\ Classes # {}
    /\ Behaviors \in [Classes -> Seq([name : Names, ignored : BOOLEAN])]
    /\ MaxLoads \in Nat

VARIABLES
    pc,          \* program, class, id, weave: where a thread is in transform
    work,        \* class: className, k: ind, woven: bodies changed so far
    loads,
    methodIds,   \* methodIdMap and nextMethodId: [map, next]
    classIds,    \* classIdMap and nextClassId
    installed,   \* what the classes in use record: keys with their woven ids
    active,      \* the transformer has not been removed
    buffer, file,
    hook,        \* steps of the hook that are done
    iterator,    \* writeMap's, and the keys that it must still yield
    methodsList, classList,
    flushed      \* history: the file after the hook's flush

vars == <<pc, work, loads, methodIds, classIds, installed, active, buffer, file,
          hook, iterator, methodsList, classList, flushed>>

maps == <<methodIds, classIds>>
lists == <<iterator, methodsList, classList>>

Init ==
    /\ pc = [t \in Threads |-> "program"]
    /\ work = [t \in Threads |-> [class |-> CHOOSE c \in Classes : TRUE, k |-> 1, woven |-> {}]]
    /\ loads = 0
    /\ methodIds = [map |-> [key \in {} |-> 0], next |-> 1]
    /\ classIds = [map |-> [key \in {} |-> 0], next |-> 1]
    /\ installed = {}
    /\ active = TRUE
    /\ buffer = {} /\ file = {}
    /\ hook = 0
    /\ iterator = [open |-> FALSE, owed |-> {}]
    /\ methodsList = {} /\ classList = {}
    /\ flushed = {}

\* Mutant: nextId.get() for nextId.getAndAdd(1).
NeverAdvance(ids, key) ==
    IF key \in DOMAIN ids.map THEN ids
    ELSE [map |-> [x \in DOMAIN ids.map \cup {key} |->
                     IF x = key THEN ids.next ELSE ids.map[x]],
          next |-> ids.next]

\* map.computeIfAbsent(key, k -> nextId.getAndAdd(1))
WithKey(ids, key) ==
    IF key \in DOMAIN ids.map THEN ids
    ELSE [map |-> [x \in DOMAIN ids.map \cup {key} |->
                     IF x = key THEN ids.next ELSE ids.map[x]],
          next |-> ids.next + 1]

------------------------------------------------------------------------------
\* Mutants: the lists are written first; class.list is written before methods.list.
ListsFirst == <<"start", "methods", "classes", "flush", "witness">>
ClassesFirst == <<"start", "flush", "classes", "methods", "witness">>

HookOrder == <<"start", "flush", "methods", "classes", "witness">>

At(step) == hook + 1 \in DOMAIN HookOrder /\ HookOrder[hook + 1] = step

Halted == hook = Len(HookOrder)

\* A class is loaded, or loaded again.
Transform(t, c) ==
    /\ ~Halted /\ active
    /\ pc[t] = "program"
    /\ loads < MaxLoads
    /\ loads' = loads + 1
    /\ pc' = [pc EXCEPT ![t] = "class"]
    /\ work' = [work EXCEPT ![t] = [class |-> c, k |-> 1, woven |-> {}]]
    /\ UNCHANGED <<maps, installed, active, buffer, file, hook, lists, flushed>>

\* getClassId
ClassId(t) ==
    /\ ~Halted
    /\ pc[t] = "class"
    /\ classIds' = WithKey(classIds, work[t].class)
    /\ pc' = [pc EXCEPT ![t] = "id"]
    /\ UNCHANGED <<work, loads, methodIds, installed, active, buffer, file, hook, lists, flushed>>

Behavior(t) == Behaviors[work[t].class][work[t].k]

MethodKey(t) == <<work[t].class, Behavior(t).name>>

MoreBehaviors(t) == work[t].k \in DOMAIN Behaviors[work[t].class]

\* getMethodId, first half
MethodId(t) ==
    /\ ~Halted
    /\ pc[t] = "id" /\ MoreBehaviors(t)
    /\ methodIds' = WithKey(methodIds, MethodKey(t))
    /\ pc' = [pc EXCEPT ![t] = "weave"]
    /\ UNCHANGED <<work, loads, classIds, installed, active, buffer, file, hook, lists, flushed>>

\* Mutant: get() before computeIfAbsent(), so -1 for want of a result.
WovenMissing(t) == <<MethodKey(t), 0 - 1>>

\* getMethodId, second half: methodIdMap.get(key)
Woven(t) == <<MethodKey(t), methodIds.map[MethodKey(t)]>>

\* Mutant: the number is read off the counter.
ChangedNext(t) == IF Behavior(t).ignored THEN {} ELSE {<<MethodKey(t), methodIds.next - 1>>}

\* Native and abstract methods have an id and no code for events.
Changed(t) == IF Behavior(t).ignored THEN {} ELSE {Woven(t)}

Weave(t) ==
    /\ ~Halted
    /\ pc[t] = "weave"
    /\ work' = [work EXCEPT ![t] = [class |-> @.class, k |-> @.k + 1,
                                    woven |-> @.woven \cup Changed(t)]]
    /\ pc' = [pc EXCEPT ![t] = "id"]
    /\ UNCHANGED <<loads, maps, installed, active, buffer, file, hook, lists, flushed>>

\* transform returns the class.
Install(t) ==
    /\ ~Halted
    /\ pc[t] = "id" /\ ~MoreBehaviors(t)
    /\ installed' = installed \cup work[t].woven
    /\ pc' = [pc EXCEPT ![t] = "program"]
    /\ UNCHANGED <<work, loads, maps, active, buffer, file, hook, lists, flushed>>

\* CannotCompileException, at a method or in toBytecode: the class is used as
\* it was, and the ids stay.
LeaveUnmodified(t) ==
    /\ ~Halted
    /\ \/ pc[t] = "weave" /\ ~Behavior(t).ignored
       \/ pc[t] = "id" /\ ~MoreBehaviors(t)
    /\ pc' = [pc EXCEPT ![t] = "program"]
    /\ UNCHANGED <<work, loads, maps, installed, active, buffer, file, hook, lists, flushed>>

\* An instrumented method runs.
Call ==
    /\ ~Halted
    /\ \E r \in installed : buffer' = buffer \cup {r}
    /\ UNCHANGED <<pc, work, loads, maps, installed, active, file, hook, lists, flushed>>

\* A handler finds the buffers full.
Flush ==
    /\ ~Halted
    /\ buffer # {}
    /\ file' = file \cup buffer
    /\ buffer' = {}
    /\ UNCHANGED <<pc, work, loads, maps, installed, active, hook, lists, flushed>>

------------------------------------------------------------------------------
(* The shutdown hook.  fields.list is always empty; witness.list is the    *)
(* recorder's witnessMap (QTRProxy).                                       *)

\* inst.removeTransformer: a transform that is under way goes on.
HookStart ==
    /\ At("start")
    /\ active' = FALSE
    /\ hook' = hook + 1
    /\ UNCHANGED <<pc, work, loads, maps, installed, buffer, file, lists, flushed>>

HookFlush ==
    /\ At("flush")
    /\ file' = file \cup buffer
    /\ buffer' = {}
    /\ flushed' = file'
    /\ hook' = hook + 1
    /\ UNCHANGED <<pc, work, loads, maps, installed, active, lists>>

\* writeMap makes an iterator over map.entrySet().
Open(step, ids) ==
    /\ At(step) /\ ~iterator.open
    /\ iterator' = [open |-> TRUE, owed |-> DOMAIN ids.map]
    /\ UNCHANGED <<pc, work, loads, maps, installed, active, buffer, file, hook,
                   methodsList, classList, flushed>>

\* The iterator of a ConcurrentHashMap yields no key twice, every key that was
\* there when it was made, and perhaps some that came later.
Unlisted(ids, list) == {key \in DOMAIN ids.map : \A line \in list : line[1] # key}

ListMethod ==
    /\ At("methods") /\ iterator.open
    /\ \E key \in Unlisted(methodIds, methodsList) :
          /\ methodsList' = methodsList \cup {<<key, methodIds.map[key]>>}
          /\ iterator' = [iterator EXCEPT !.owed = @ \ {key}]
    /\ UNCHANGED <<pc, work, loads, maps, installed, active, buffer, file, hook,
                   classList, flushed>>

ListClass ==
    /\ At("classes") /\ iterator.open
    /\ \E key \in Unlisted(classIds, classList) :
          /\ classList' = classList \cup {<<key, classIds.map[key]>>}
          /\ iterator' = [iterator EXCEPT !.owed = @ \ {key}]
    /\ UNCHANGED <<pc, work, loads, maps, installed, active, buffer, file, hook,
                   methodsList, flushed>>

\* The iterator has no next.
Close ==
    /\ iterator.open /\ iterator.owed = {}
    /\ iterator' = [open |-> FALSE, owed |-> {}]
    /\ hook' = hook + 1
    /\ UNCHANGED <<pc, work, loads, maps, installed, active, buffer, file,
                   methodsList, classList, flushed>>

Halt ==
    /\ At("witness")
    /\ hook' = hook + 1
    /\ UNCHANGED <<pc, work, loads, maps, installed, active, buffer, file, lists, flushed>>

Stopped == Halted /\ UNCHANGED vars

Next ==
    \/ \E t \in Threads :
          \/ \E c \in Classes : Transform(t, c)
          \/ ClassId(t) \/ MethodId(t) \/ Weave(t) \/ Install(t) \/ LeaveUnmodified(t)
    \/ Call \/ Flush
    \/ HookStart \/ HookFlush
    \/ Open("methods", methodIds) \/ ListMethod
    \/ Open("classes", classIds) \/ ListClass
    \/ Close \/ Halt \/ Stopped

Spec == Init /\ [][Next]_vars

------------------------------------------------------------------------------
Keys == Classes \X Names

\* Types.
TypeOK ==
    /\ pc \in [Threads -> {"program", "class", "id", "weave"}]
    /\ work \in [Threads -> [class : Classes, k : Nat, woven : SUBSET (Keys \X Nat)]]
    /\ loads \in 0 .. MaxLoads
    /\ DOMAIN methodIds.map \subseteq Keys
    /\ methodIds \in [map : [DOMAIN methodIds.map -> Nat], next : Nat]
    /\ DOMAIN classIds.map \subseteq Classes
    /\ classIds \in [map : [DOMAIN classIds.map -> Nat], next : Nat]
    /\ installed \subseteq Keys \X Nat
    /\ active \in BOOLEAN
    /\ buffer \subseteq Keys \X Nat /\ file \subseteq Keys \X Nat
    /\ hook \in 0 .. Len(HookOrder)
    /\ iterator \in [open : BOOLEAN, owed : SUBSET (Keys \cup Classes)]
    /\ methodsList \subseteq Keys \X Nat /\ classList \subseteq Classes \X Nat
    /\ flushed \subseteq Keys \X Nat

Distinct(ids) == \A x, y \in DOMAIN ids.map : x # y => ids.map[x] # ids.map[y]

\* Whatever the threads that load classes do, a number stands for one method,
\* and so for one class.
NumbersDistinct == Distinct(methodIds) /\ Distinct(classIds)

\* A number once handed out stays with its key, so that a class that is loaded
\* again, or by another thread, records the same.
NumbersKept ==
    [][/\ \A x \in DOMAIN methodIds.map : x \in DOMAIN methodIds'.map
                                         /\ methodIds'.map[x] = methodIds.map[x]
       /\ \A x \in DOMAIN classIds.map : x \in DOMAIN classIds'.map
                                        /\ classIds'.map[x] = classIds.map[x]]_vars

\* Every number in the trace up to the hook's own flush is in methods.list,
\* under the name of the method that ran.
TraceResolved == hook >= Len(HookOrder) - 1 => flushed \subseteq methodsList

\* The class of every method in methods.list is in class.list.
ClassesResolved ==
    hook >= Len(HookOrder) - 1 =>
        \A line \in methodsList : \E c \in classList : c[1] = line[1][1]
==============================================================================
