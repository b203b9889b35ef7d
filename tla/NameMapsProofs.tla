----------------------------- MODULE NameMapsProofs -----------------------------
(***************************************************************************)
(* Every number of the trace that the shutdown hook flushes has its name   *)
(* in the lists, for any threads, classes and methods.                     *)
(***************************************************************************)
EXTENDS NameMaps, SequenceTheorems, TLAPS

(* The inductive invariant: the types and five facts beside them.          *)

Pairs(ids) == {<<x, ids.map[x]>> : x \in DOMAIN ids.map}

\* The numbers handed out lie below the counter: so the next one is new.
Below(ids) == \A x \in DOMAIN ids.map : ids.map[x] < ids.next

\* A method's key comes after its class.
MapsOK ==
    /\ Below(methodIds) /\ Below(classIds)
    /\ NumbersDistinct
    /\ \A key \in DOMAIN methodIds.map : key[1] \in DOMAIN classIds.map

\* What a thread in transform has looked up and will look up is in the maps.
WorkOK ==
    \A t \in Threads :
        /\ work[t].woven \subseteq Pairs(methodIds)
        /\ pc[t] \in {"id", "weave"} => work[t].class \in DOMAIN classIds.map
        /\ pc[t] = "weave" => MoreBehaviors(t) /\ MethodKey(t) \in DOMAIN methodIds.map

\* So a record bears the number of the method that ran.
RecordsOK ==
    /\ installed \subseteq Pairs(methodIds)
    /\ buffer \subseteq Pairs(methodIds)
    /\ file \subseteq Pairs(methodIds)
    /\ flushed \subseteq Pairs(methodIds)
    /\ methodsList \subseteq Pairs(methodIds)

ClassListed(line) == \E c \in classList : c[1] = line[1][1]

\* What has still to be listed is among the keys that the iterator owes.
ListsOK ==
    /\ iterator.open => hook \in {2, 3}
    /\ hook = 2 /\ iterator.open =>
          \A r \in flushed : r \in methodsList \/ r[1] \in iterator.owed
    /\ hook >= 3 => flushed \subseteq methodsList
    /\ hook = 3 /\ iterator.open =>
          \A line \in methodsList : ClassListed(line) \/ line[1][1] \in iterator.owed
    /\ hook >= 4 => \A line \in methodsList : ClassListed(line)

IInv == TypeOK /\ MapsOK /\ WorkOK /\ RecordsOK /\ ListsOK

------------------------------------------------------------------------------
(* The hook's steps by their numbers.                                      *)

LEMMA HookLength == Len(HookOrder) = 5
BY DEF HookOrder

LEMMA Steps ==
    ASSUME hook \in 0 .. Len(HookOrder)
    PROVE  /\ At("start") <=> hook = 0
           /\ At("flush") <=> hook = 1
           /\ At("methods") <=> hook = 2
           /\ At("classes") <=> hook = 3
           /\ At("witness") <=> hook = 4
BY DEF At, HookOrder

(* computeIfAbsent.                                                        *)

IdsType(ids, S) ==
    /\ DOMAIN ids.map \subseteq S
    /\ ids \in [map : [DOMAIN ids.map -> Nat], next : Nat]

LEMMA WithKeyType ==
    ASSUME NEW S, NEW ids, IdsType(ids, S), NEW key \in S
    PROVE  IdsType(WithKey(ids, key), S)
BY DEF IdsType, WithKey

LEMMA WithKeyKeeps ==
    ASSUME NEW S, NEW ids, IdsType(ids, S), NEW key \in S
    PROVE  /\ DOMAIN WithKey(ids, key).map = DOMAIN ids.map \cup {key}
           /\ \A x \in DOMAIN ids.map : WithKey(ids, key).map[x] = ids.map[x]
           /\ Pairs(ids) \subseteq Pairs(WithKey(ids, key))
BY DEF IdsType, WithKey, Pairs

LEMMA WithKeyBelow ==
    ASSUME NEW S, NEW ids, IdsType(ids, S), NEW key \in S, Below(ids)
    PROVE  Below(WithKey(ids, key))
BY DEF IdsType, WithKey, Below

LEMMA WithKeyDistinct ==
    ASSUME NEW S, NEW ids, IdsType(ids, S), NEW key \in S, Below(ids), Distinct(ids)
    PROVE  Distinct(WithKey(ids, key))
BY DEF IdsType, WithKey, Below, Distinct

LEMMA KeyType ==
    ASSUME TypeOK, NEW t \in Threads, MoreBehaviors(t)
    PROVE  Behavior(t) \in [name : Names, ignored : BOOLEAN] /\ MethodKey(t) \in Keys
<1> DEFINE B == Behaviors[work[t].class]
<1>1. work[t].class \in Classes
  BY DEF TypeOK
<1>2. B \in Seq([name : Names, ignored : BOOLEAN]) /\ work[t].k \in DOMAIN B
  BY <1>1, NamesAssumption DEF MoreBehaviors
<1>3. B[work[t].k] \in [name : Names, ignored : BOOLEAN]
  <2> DEFINE S == [name : Names, ignored : BOOLEAN]
  <2> HIDE DEF B, S
  <2>1. B \in Seq(S) /\ work[t].k \in DOMAIN B
    BY <1>2 DEF S
  <2>2. work[t].k \in 1 .. Len(B)
    BY <2>1
  <2>3. B[work[t].k] \in S
    BY <2>1, <2>2, ElementOfSeq
  <2> QED  BY <2>3 DEF S
<1> QED  BY <1>1, <1>3 DEF Behavior, MethodKey, Keys

------------------------------------------------------------------------------
LEMMA InitIInv == Init => IInv
<1> SUFFICES ASSUME Init PROVE IInv
  OBVIOUS
<1>1. TypeOK
  BY NamesAssumption, Steps DEF Init, TypeOK, HookOrder
<1>2. MapsOK
  BY DEF Init, MapsOK, Below, NumbersDistinct, Distinct
<1>3. WorkOK
  BY DEF Init, WorkOK
<1>4. RecordsOK
  BY DEF Init, RecordsOK
<1>5. ListsOK
  BY DEF Init, ListsOK
<1> QED  BY <1>1, <1>2, <1>3, <1>4, <1>5 DEF IInv

LEMMA TypeStep == IInv /\ [Next]_vars => TypeOK'
<1> SUFFICES ASSUME IInv, [Next]_vars PROVE TypeOK'
  OBVIOUS
<1> USE DEF IInv
<1>0. /\ At("start") <=> hook = 0
      /\ At("flush") <=> hook = 1
      /\ At("methods") <=> hook = 2
      /\ At("classes") <=> hook = 3
      /\ At("witness") <=> hook = 4
  BY Steps DEF TypeOK
<1>00. hook \in 0 .. 5 /\ MaxLoads \in Nat
  BY HookLength, NamesAssumption DEF TypeOK
<1> USE <1>0, <1>00, HookLength DEF TypeOK
<1>1. ASSUME NEW t \in Threads, NEW c \in Classes, Transform(t, c) PROVE TypeOK'
  <2>1. work' \in [Threads -> [class : Classes, k : Nat, woven : SUBSET (Keys \X Nat)]]
    BY <1>1 DEF Transform
  <2> QED  BY <1>1, <2>1 DEF Transform, maps, lists
<1>2. ASSUME NEW t \in Threads, ClassId(t) PROVE TypeOK'
  <2>1. IdsType(WithKey(classIds, work[t].class), Classes)
    BY WithKeyType DEF IdsType
  <2> QED  BY <1>2, <2>1 DEF ClassId, IdsType, lists
<1>3. ASSUME NEW t \in Threads, MethodId(t) PROVE TypeOK'
  <2>1. MethodKey(t) \in Keys
    BY <1>3, KeyType DEF MethodId
  <2>2. IdsType(WithKey(methodIds, MethodKey(t)), Keys)
    BY <2>1, WithKeyType DEF IdsType
  <2> QED  BY <1>3, <2>2 DEF MethodId, IdsType, lists
<1>4. ASSUME NEW t \in Threads, Weave(t) PROVE TypeOK'
  <2>1. Woven(t) \in Keys \X Nat
    BY <1>4 DEF Weave, WorkOK, Woven
  <2>2. Changed(t) \in SUBSET (Keys \X Nat)
    BY <2>1 DEF Changed
  <2>4. work' \in [Threads -> [class : Classes, k : Nat, woven : SUBSET (Keys \X Nat)]]
    BY <1>4, <2>2 DEF Weave
  <2> QED  BY <1>4, <2>4 DEF Weave, maps, lists
<1>5. ASSUME NEW t \in Threads, Install(t) PROVE TypeOK'
  BY <1>5 DEF Install, maps, lists
<1>14. ASSUME NEW t \in Threads, LeaveUnmodified(t) PROVE TypeOK'
  BY <1>14 DEF LeaveUnmodified, maps, lists
<1>6. CASE Call
  BY <1>6 DEF Call, maps, lists
<1>7. CASE Flush
  BY <1>7 DEF Flush, maps, lists
<1>8. CASE HookStart
  <2>1. active' = FALSE /\ At("start") /\ hook' = hook + 1
    BY <1>8, Zenon DEF HookStart
  <2>2. hook' \in 0 .. Len(HookOrder)
    BY <2>1
  <2> QED  BY <1>8, <2>1, <2>2 DEF HookStart, maps, lists
<1>9. CASE HookFlush
  BY <1>9 DEF HookFlush, maps, lists
<1>10. CASE Open("methods", methodIds)
  BY <1>10 DEF Open, maps
<1>11. CASE Open("classes", classIds)
  BY <1>11 DEF Open, maps
<1>12. CASE ListMethod
  BY <1>12 DEF ListMethod, Unlisted, maps
<1>13. CASE ListClass
  BY <1>13 DEF ListClass, Unlisted, maps
<1>15. CASE Halt
  BY <1>15 DEF Halt, maps, lists
<1>16. CASE Close
  BY <1>16 DEF Close, ListsOK, maps
<1>17. CASE UNCHANGED vars
  BY <1>17 DEF vars, maps, lists
<1> QED
  BY <1>1, <1>2, <1>3, <1>4, <1>5, <1>14, <1>6, <1>7, <1>8, <1>9, <1>10, <1>11, <1>12,
     <1>13, <1>15, <1>16, <1>17 DEF Next, Stopped

\* In every step each map stays as it is or takes one key by computeIfAbsent.
LEMMA MapsChange ==
    ASSUME IInv, [Next]_vars
    PROVE  /\ \/ UNCHANGED methodIds
              \/ \E t \in Threads : /\ pc[t] = "id" /\ MoreBehaviors(t)
                                    /\ MethodKey(t) \in Keys
                                    /\ methodIds' = WithKey(methodIds, MethodKey(t))
           /\ \/ UNCHANGED classIds
              \/ \E t \in Threads : classIds' = WithKey(classIds, work[t].class)
           /\ UNCHANGED methodIds \/ UNCHANGED classIds
<1>1. ASSUME NEW t \in Threads, ClassId(t)
      PROVE  UNCHANGED methodIds /\ classIds' = WithKey(classIds, work[t].class)
  BY <1>1 DEF ClassId
<1>2. ASSUME NEW t \in Threads, MethodId(t)
      PROVE  /\ UNCHANGED classIds
             /\ pc[t] = "id" /\ MoreBehaviors(t) /\ MethodKey(t) \in Keys
             /\ methodIds' = WithKey(methodIds, MethodKey(t))
  BY <1>2, KeyType DEF MethodId, IInv
<1>3. ASSUME \A t \in Threads : ~ClassId(t) /\ ~MethodId(t) PROVE UNCHANGED maps
  <2>1. ASSUME NEW t \in Threads, \/ \E c \in Classes : Transform(t, c)
                                 \/ Weave(t) \/ Install(t) \/ LeaveUnmodified(t)
        PROVE  UNCHANGED maps
    BY <2>1 DEF Transform, Weave, Install, LeaveUnmodified
  <2>2. ASSUME Call \/ Flush \/ HookStart \/ HookFlush PROVE UNCHANGED maps
    BY <2>2 DEF Call, Flush, HookStart, HookFlush
  <2>3. ASSUME \/ Open("methods", methodIds) \/ ListMethod
               \/ Open("classes", classIds) \/ ListClass \/ Close \/ Halt
        PROVE  UNCHANGED maps
    BY <2>3 DEF Open, ListMethod, ListClass, Close, Halt
  <2>4. ASSUME Stopped \/ UNCHANGED vars PROVE UNCHANGED maps
    BY <2>4 DEF Stopped, vars, maps
  <2> QED  BY <1>3, <2>1, <2>2, <2>3, <2>4 DEF Next
<1> QED  BY <1>1, <1>2, <1>3 DEF maps

LEMMA MapsKept ==
    ASSUME IInv, [Next]_vars
    PROVE  /\ \A x \in DOMAIN methodIds.map : x \in DOMAIN methodIds'.map
                                             /\ methodIds'.map[x] = methodIds.map[x]
           /\ \A x \in DOMAIN classIds.map : x \in DOMAIN classIds'.map
                                            /\ classIds'.map[x] = classIds.map[x]
           /\ Pairs(methodIds) \subseteq Pairs(methodIds')
<1>1. IdsType(methodIds, Keys) /\ IdsType(classIds, Classes)
  BY DEF IInv, TypeOK, IdsType
<1>2. \A t \in Threads : work[t].class \in Classes
  BY DEF IInv, TypeOK
<1>3. CASE UNCHANGED methodIds
  <2>1. CASE UNCHANGED classIds
    BY <1>3, <2>1 DEF Pairs
  <2>2. ASSUME NEW t \in Threads, classIds' = WithKey(classIds, work[t].class)
        PROVE  \A x \in DOMAIN classIds.map : x \in DOMAIN classIds'.map
                                             /\ classIds'.map[x] = classIds.map[x]
    BY <1>1, <1>2, <2>2, WithKeyKeeps
  <2> QED  BY <1>3, <2>1, <2>2, MapsChange DEF Pairs
<1>4. ASSUME NEW t \in Threads, MethodKey(t) \in Keys, UNCHANGED classIds,
             methodIds' = WithKey(methodIds, MethodKey(t))
      PROVE  /\ \A x \in DOMAIN methodIds.map : x \in DOMAIN methodIds'.map
                                             /\ methodIds'.map[x] = methodIds.map[x]
             /\ Pairs(methodIds) \subseteq Pairs(methodIds')
  BY <1>1, <1>4, WithKeyKeeps
<1> QED  BY <1>3, <1>4, MapsChange

LEMMA MapsStep == IInv /\ [Next]_vars => MapsOK'
<1> SUFFICES ASSUME IInv, [Next]_vars PROVE MapsOK'
  OBVIOUS
<1>1. IdsType(methodIds, Keys) /\ IdsType(classIds, Classes)
  BY DEF IInv, TypeOK, IdsType
<1>2. \A t \in Threads : work[t].class \in Classes
  BY DEF IInv, TypeOK
<1>3. /\ Below(methodIds) /\ Below(classIds) /\ Distinct(methodIds) /\ Distinct(classIds)
      /\ \A key \in DOMAIN methodIds.map : key[1] \in DOMAIN classIds.map
  BY DEF IInv, MapsOK, NumbersDistinct
<1>4. Below(methodIds)' /\ Distinct(methodIds)'
  <2>1. CASE UNCHANGED methodIds
    BY <1>3, <2>1 DEF Below, Distinct
  <2>2. ASSUME NEW t \in Threads, MethodKey(t) \in Keys,
               methodIds' = WithKey(methodIds, MethodKey(t))
        PROVE  Below(methodIds') /\ Distinct(methodIds')
    BY <1>1, <1>3, <2>2, WithKeyBelow, WithKeyDistinct
  <2>3. Below(methodIds') /\ Distinct(methodIds')
    BY <1>3, <2>1, <2>2, MapsChange
  <2> QED  BY <2>3 DEF Below, Distinct
<1>5. Below(classIds)' /\ Distinct(classIds)'
  <2>1. CASE UNCHANGED classIds
    BY <1>3, <2>1 DEF Below, Distinct
  <2>2. ASSUME NEW t \in Threads, classIds' = WithKey(classIds, work[t].class)
        PROVE  Below(classIds') /\ Distinct(classIds')
    BY <1>1, <1>2, <1>3, <2>2, WithKeyBelow, WithKeyDistinct
  <2>3. Below(classIds') /\ Distinct(classIds')
    BY <1>3, <2>1, <2>2, MapsChange
  <2> QED  BY <2>3 DEF Below, Distinct
<1>6. \A key \in DOMAIN methodIds'.map : key[1] \in DOMAIN classIds'.map
  <2>1. CASE UNCHANGED methodIds
    BY <1>3, <2>1, MapsKept
  <2>2. ASSUME NEW t \in Threads, pc[t] = "id", MethodKey(t) \in Keys,
               methodIds' = WithKey(methodIds, MethodKey(t)),
               NEW key \in DOMAIN methodIds'.map
        PROVE  key[1] \in DOMAIN classIds'.map
    <3>1. key \in DOMAIN methodIds.map \/ key = MethodKey(t)
      BY <1>1, <2>2, WithKeyKeeps
    <3>2. MethodKey(t)[1] = work[t].class
      BY DEF MethodKey
    <3>3. work[t].class \in DOMAIN classIds.map
      BY <2>2 DEF IInv, WorkOK
    <3>4. key[1] \in DOMAIN classIds.map
      BY <1>3, <3>1, <3>2, <3>3
    <3> QED  BY <3>4, MapsKept
  <2> QED  BY <2>1, <2>2, MapsChange
<1> QED  BY <1>4, <1>5, <1>6 DEF MapsOK, NumbersDistinct

LEMMA WorkStep == IInv /\ [Next]_vars => WorkOK'
<1> SUFFICES ASSUME IInv, [Next]_vars, NEW u \in Threads
             PROVE  /\ work'[u].woven \subseteq Pairs(methodIds')
                    /\ pc'[u] \in {"id", "weave"} => work'[u].class \in DOMAIN classIds'.map
                    /\ pc'[u] = "weave" => /\ work'[u].k \in DOMAIN Behaviors[work'[u].class]
                                          /\ MethodKey(u)' \in DOMAIN methodIds'.map
  BY DEF WorkOK, MoreBehaviors, Pairs
<1>0. /\ \A x \in DOMAIN methodIds.map : x \in DOMAIN methodIds'.map
      /\ \A x \in DOMAIN classIds.map : x \in DOMAIN classIds'.map
      /\ Pairs(methodIds) \subseteq Pairs(methodIds')
  BY MapsKept
<1>1. /\ work[u].woven \subseteq Pairs(methodIds)
      /\ pc[u] \in {"id", "weave"} => work[u].class \in DOMAIN classIds.map
      /\ pc[u] = "weave" => /\ work[u].k \in DOMAIN Behaviors[work[u].class]
                           /\ MethodKey(u) \in DOMAIN methodIds.map
  BY DEF IInv, WorkOK, MoreBehaviors
<1>2. /\ work \in [Threads -> [class : Classes, k : Nat, woven : SUBSET (Keys \X Nat)]]
      /\ pc \in [Threads -> {"program", "class", "id", "weave"}]
  BY DEF IInv, TypeOK
<1>3. CASE work'[u] = work[u] /\ pc'[u] \in {pc[u], "program"}
  <2>1. MethodKey(u)' = MethodKey(u)
    BY <1>3 DEF MethodKey, Behavior
  <2> QED  BY <1>0, <1>1, <1>3, <2>1
<1>4. ASSUME NEW t \in Threads, t # u,
             \/ \E c \in Classes : Transform(t, c)
             \/ ClassId(t) \/ MethodId(t) \/ Weave(t) \/ Install(t) \/ LeaveUnmodified(t)
      PROVE  work'[u] = work[u] /\ pc'[u] = pc[u]
  BY <1>2, <1>4 DEF Transform, ClassId, MethodId, Weave, Install, LeaveUnmodified
<1>5. ASSUME NEW c \in Classes, Transform(u, c)
      PROVE  work'[u].woven = {} /\ pc'[u] = "class"
  BY <1>2, <1>5 DEF Transform
<1>6. ASSUME ClassId(u)
      PROVE  work'[u] = work[u] /\ pc'[u] = "id" /\ work[u].class \in DOMAIN classIds'.map
  <2>1. work[u].class \in DOMAIN WithKey(classIds, work[u].class).map
    <3>1. IdsType(classIds, Classes) /\ work[u].class \in Classes
      BY <1>2 DEF IdsType, IInv, TypeOK
    <3> QED  BY <3>1, WithKeyKeeps
  <2> QED  BY <1>2, <1>6, <2>1 DEF ClassId
<1>7. ASSUME MethodId(u)
      PROVE  /\ work'[u] = work[u] /\ pc'[u] = "weave" /\ pc[u] = "id"
             /\ MoreBehaviors(u) /\ MethodKey(u) \in DOMAIN methodIds'.map
  <2>1. MethodKey(u) \in Keys
    BY <1>7, KeyType DEF MethodId, IInv
  <2>2. MethodKey(u) \in DOMAIN WithKey(methodIds, MethodKey(u)).map
    <3>1. IdsType(methodIds, Keys)
      BY DEF IdsType, IInv, TypeOK
    <3> QED  BY <2>1, <3>1, WithKeyKeeps
  <2> QED  BY <1>2, <1>7, <2>2 DEF MethodId
<1>8. ASSUME Weave(u)
      PROVE  /\ pc'[u] = "id" /\ pc[u] = "weave" /\ work'[u].class = work[u].class
             /\ work'[u].woven \subseteq Pairs(methodIds)
  <2>1. Woven(u) \in Pairs(methodIds)
    BY <1>1, <1>8 DEF Weave, Woven, Pairs
  <2>2. Changed(u) \subseteq Pairs(methodIds)
    BY <2>1 DEF Changed
  <2>3. /\ work'[u] = [class |-> work[u].class, k |-> work[u].k + 1,
                       woven |-> work[u].woven \cup Changed(u)]
        /\ pc[u] = "weave" /\ pc'[u] = "id"
    BY <1>2, <1>8 DEF Weave
  <2> QED  BY <1>1, <2>2, <2>3
<1>9. ASSUME Install(u) \/ LeaveUnmodified(u)
      PROVE  work'[u] = work[u] /\ pc'[u] = "program"
  BY <1>2, <1>9 DEF Install, LeaveUnmodified
<1>10. ASSUME \/ Call \/ Flush \/ HookStart \/ HookFlush
              \/ Open("methods", methodIds) \/ ListMethod
              \/ Open("classes", classIds) \/ ListClass \/ Close \/ Halt
       PROVE  work' = work /\ pc' = pc
  BY <1>10 DEF Call, Flush, HookStart, HookFlush, Open, ListMethod, ListClass, Close, Halt
<1>11. ASSUME Stopped \/ UNCHANGED vars PROVE work' = work /\ pc' = pc
  BY <1>11 DEF Stopped, vars
<1>12. CASE \E c \in Classes : Transform(u, c)
  BY <1>5, <1>12
<1>13. CASE ClassId(u)
  BY <1>0, <1>1, <1>6, <1>13
<1>14. CASE MethodId(u)
  <2>1. MethodKey(u)' = MethodKey(u)
    BY <1>7, <1>14 DEF MethodKey, Behavior
  <2> QED  BY <1>0, <1>1, <1>7, <1>14, <2>1 DEF MoreBehaviors
<1>15. CASE Weave(u)
  BY <1>0, <1>1, <1>8, <1>15
<1> QED
  BY <1>3, <1>4, <1>9, <1>10, <1>11, <1>12, <1>13, <1>14, <1>15 DEF Next

LEMMA RecordsStep == IInv /\ [Next]_vars => RecordsOK'
<1> SUFFICES ASSUME IInv, [Next]_vars
             PROVE  /\ installed' \subseteq Pairs(methodIds')
                    /\ buffer' \subseteq Pairs(methodIds')
                    /\ file' \subseteq Pairs(methodIds')
                    /\ flushed' \subseteq Pairs(methodIds')
                    /\ methodsList' \subseteq Pairs(methodIds')
  BY DEF RecordsOK, Pairs
<1> DEFINE P == Pairs(methodIds)
<1>1. P \subseteq Pairs(methodIds')
  BY MapsKept
<1>2. installed \subseteq P /\ buffer \subseteq P /\ file \subseteq P /\ flushed \subseteq P
      /\ methodsList \subseteq P
  BY DEF IInv, RecordsOK
<1> SUFFICES installed' \subseteq P /\ buffer' \subseteq P /\ file' \subseteq P
             /\ flushed' \subseteq P /\ methodsList' \subseteq P
  BY <1>1
<1>3. ASSUME NEW t \in Threads, Install(t) PROVE work[t].woven \subseteq P
  BY DEF IInv, WorkOK
<1>4. \A key \in DOMAIN methodIds.map : <<key, methodIds.map[key]>> \in P
  BY DEF Pairs
<1> HIDE DEF P
<1>5. ASSUME NEW t \in Threads,
             \/ \E c \in Classes : Transform(t, c)
             \/ ClassId(t) \/ MethodId(t) \/ Weave(t) \/ LeaveUnmodified(t)
      PROVE  UNCHANGED <<installed, buffer, file, flushed, methodsList>>
  BY <1>5 DEF Transform, ClassId, MethodId, Weave, LeaveUnmodified, lists
<1>6. ASSUME NEW t \in Threads, Install(t)
      PROVE  /\ installed' \subseteq P
             /\ UNCHANGED <<buffer, file, flushed, methodsList>>
  BY <1>2, <1>3, <1>6 DEF Install, lists
<1>7. CASE Call
  BY <1>2, <1>7 DEF Call, lists
<1>8. CASE Flush \/ HookFlush
  BY <1>2, <1>8 DEF Flush, HookFlush, lists
<1>9. CASE ListMethod
  BY <1>2, <1>4, <1>9 DEF ListMethod, Unlisted
<1>10. ASSUME \/ HookStart \/ Open("methods", methodIds) \/ Open("classes", classIds)
              \/ ListClass \/ Close \/ Halt
       PROVE  UNCHANGED <<installed, buffer, file, flushed, methodsList>>
  BY <1>10 DEF HookStart, Open, ListClass, Close, Halt, lists
<1>11. ASSUME Stopped \/ UNCHANGED vars
       PROVE UNCHANGED <<installed, buffer, file, flushed, methodsList>>
  BY <1>11 DEF Stopped, vars, lists
<1> QED  BY <1>2, <1>5, <1>6, <1>7, <1>8, <1>9, <1>10, <1>11 DEF Next

LEMMA ListsStep == IInv /\ [Next]_vars => ListsOK'
<1> SUFFICES ASSUME IInv, [Next]_vars PROVE ListsOK'
  OBVIOUS
<1>0. /\ At("start") <=> hook = 0
      /\ At("flush") <=> hook = 1
      /\ At("methods") <=> hook = 2
      /\ At("classes") <=> hook = 3
      /\ At("witness") <=> hook = 4
      /\ hook \in 0 .. 5
  BY Steps, HookLength DEF IInv, TypeOK
<1>1. ListsOK /\ flushed \subseteq Pairs(methodIds) /\ methodsList \subseteq Pairs(methodIds)
  BY DEF IInv, RecordsOK
<1>2. ASSUME UNCHANGED <<hook, iterator, methodsList, classList, flushed>> PROVE ListsOK'
  BY <1>1, <1>2 DEF ListsOK, ClassListed
<1>3. ASSUME NEW t \in Threads,
             \/ \E c \in Classes : Transform(t, c)
             \/ ClassId(t) \/ MethodId(t) \/ Weave(t) \/ Install(t) \/ LeaveUnmodified(t)
      PROVE  UNCHANGED <<hook, iterator, methodsList, classList, flushed>>
  BY <1>3 DEF Transform, ClassId, MethodId, Weave, Install, LeaveUnmodified, lists
<1>4. ASSUME Call \/ Flush
      PROVE  UNCHANGED <<hook, iterator, methodsList, classList, flushed>>
  BY <1>4 DEF Call, Flush, lists
<1>5. ASSUME Stopped \/ UNCHANGED vars
      PROVE  UNCHANGED <<hook, iterator, methodsList, classList, flushed>>
  BY <1>5 DEF Stopped, vars, lists
<1>6. CASE HookStart
  <2>1. hook = 0 /\ hook' = 1 /\ iterator' = iterator
    BY <1>0, <1>6 DEF HookStart, lists
  <2> QED  BY <1>1, <2>1 DEF ListsOK
<1>7. CASE HookFlush
  <2>1. hook = 1 /\ hook' = 2 /\ iterator' = iterator
    BY <1>0, <1>7 DEF HookFlush, lists
  <2> QED  BY <1>1, <2>1 DEF ListsOK
<1>8. CASE Open("methods", methodIds)
  <2>1. /\ hook = 2 /\ hook' = 2 /\ iterator'.owed = DOMAIN methodIds.map
        /\ flushed' = flushed
    BY <1>0, <1>8 DEF Open
  <2>2. \A r \in flushed : r[1] \in DOMAIN methodIds.map
    BY <1>1 DEF Pairs
  <2> QED  BY <2>1, <2>2 DEF ListsOK
<1>9. CASE Open("classes", classIds)
  <2>1. /\ hook = 3 /\ hook' = 3 /\ iterator'.owed = DOMAIN classIds.map
        /\ flushed' = flushed /\ methodsList' = methodsList
    BY <1>0, <1>9 DEF Open
  <2>2. \A line \in methodsList : line[1][1] \in DOMAIN classIds.map
    BY <1>1 DEF Pairs, IInv, MapsOK
  <2> QED  BY <1>1, <2>1, <2>2 DEF ListsOK
<1>10. CASE ListMethod
  <2>1. PICK key \in DOMAIN methodIds.map :
          /\ methodsList' = methodsList \cup {<<key, methodIds.map[key]>>}
          /\ iterator'.owed = iterator.owed \ {key}
    BY <1>10 DEF ListMethod, Unlisted, IInv, TypeOK
  <2>2. hook = 2 /\ hook' = 2 /\ iterator.open /\ flushed' = flushed
    BY <1>0, <1>10 DEF ListMethod
  <2>3. \A r \in flushed : r[1] = key => r = <<key, methodIds.map[key]>>
    BY <1>1 DEF Pairs
  <2> QED  BY <1>1, <2>1, <2>2, <2>3 DEF ListsOK
<1>11. CASE ListClass
  <2>1. PICK key \in DOMAIN classIds.map :
          /\ classList' = classList \cup {<<key, classIds.map[key]>>}
          /\ iterator'.owed = iterator.owed \ {key}
    BY <1>11 DEF ListClass, Unlisted, IInv, TypeOK
  <2>2. hook = 3 /\ hook' = 3 /\ iterator.open /\ flushed' = flushed
        /\ methodsList' = methodsList
    BY <1>0, <1>11 DEF ListClass
  <2> DEFINE listed == <<key, classIds.map[key]>>
  <2>6. listed \in classList' /\ listed[1] = key
    BY <2>1
  <2> HIDE DEF listed
  <2>3. \A line \in methodsList : line[1][1] = key => ClassListed(line)'
    <3> SUFFICES ASSUME NEW line \in methodsList, line[1][1] = key PROVE ClassListed(line)'
      OBVIOUS
    <3>1. listed[1] = line[1][1]
      BY <2>6
    <3> QED  BY <2>6, <3>1 DEF ClassListed
  <2>4. \A line \in methodsList : ClassListed(line) => ClassListed(line)'
    BY <2>1 DEF ClassListed
  <2>5. \A line \in methodsList : ClassListed(line)' \/ line[1][1] \in iterator'.owed
    BY <1>1, <2>1, <2>2, <2>3, <2>4 DEF ListsOK
  <2> QED  BY <1>1, <2>1, <2>2, <2>5 DEF ListsOK, ClassListed
<1>12. CASE Close
  <2>1. /\ iterator.open /\ iterator.owed = {} /\ hook' = hook + 1 /\ ~iterator'.open
        /\ flushed' = flushed /\ methodsList' = methodsList /\ classList' = classList
    BY <1>12 DEF Close
  <2>2. CASE hook = 2
    BY <1>1, <2>1, <2>2 DEF ListsOK
  <2>3. CASE hook = 3
    BY <1>1, <2>1, <2>3 DEF ListsOK, ClassListed
  <2> QED  BY <1>1, <2>1, <2>2, <2>3 DEF ListsOK
<1>13. CASE Halt
  <2>1. /\ hook = 4 /\ hook' = 5 /\ iterator' = iterator
        /\ flushed' = flushed /\ methodsList' = methodsList /\ classList' = classList
    BY <1>0, <1>13 DEF Halt, lists
  <2> QED  BY <1>1, <2>1 DEF ListsOK, ClassListed
<1> QED
  BY <1>2, <1>3, <1>4, <1>5, <1>6, <1>7, <1>8, <1>9, <1>10, <1>11, <1>12, <1>13 DEF Next

LEMMA IInvStep == IInv /\ [Next]_vars => IInv'
BY TypeStep, MapsStep, WorkStep, RecordsStep, ListsStep DEF IInv

LEMMA Inductive == Spec => []IInv
<1>1. Init => IInv
  BY InitIInv
<1>2. IInv /\ [Next]_vars => IInv'
  BY IInvStep
<1> QED  BY <1>1, <1>2, PTL DEF Spec

------------------------------------------------------------------------------
\* The types hold for any threads, classes and methods.
THEOREM TypeCorrect == Spec => []TypeOK
<1>1. IInv => TypeOK
  BY DEF IInv
<1> QED  BY <1>1, Inductive, PTL

\* computeIfAbsent and the counters never give one number to two names,
\* whatever threads load classes at once.
THEOREM DistinctNumbers == Spec => []NumbersDistinct
<1>1. IInv => NumbersDistinct
  BY DEF IInv, MapsOK
<1> QED  BY <1>1, Inductive, PTL

\* A number stays with its name.
THEOREM StableNumbers == Spec => NumbersKept
<1>1. IInv /\ [Next]_vars
        => [/\ \A x \in DOMAIN methodIds.map : x \in DOMAIN methodIds'.map
                                             /\ methodIds'.map[x] = methodIds.map[x]
            /\ \A x \in DOMAIN classIds.map : x \in DOMAIN classIds'.map
                                            /\ classIds'.map[x] = classIds.map[x]]_vars
  BY MapsKept
<1> QED  BY <1>1, Inductive, PTL DEF Spec, NumbersKept

\* The hook lists every number of the trace that it has flushed, under the name
\* of the method that ran.
THEOREM NamesListed == Spec => []TraceResolved
<1>1. IInv => TraceResolved
  BY HookLength DEF IInv, TypeOK, ListsOK, TraceResolved
<1> QED  BY <1>1, Inductive, PTL

\* It lists the class of every method it has listed.
THEOREM ClassesAlwaysListed == Spec => []ClassesResolved
<1>1. IInv => ClassesResolved
  BY HookLength DEF IInv, TypeOK, ListsOK, ClassesResolved, ClassListed
<1> QED  BY <1>1, Inductive, PTL
=============================================================================
