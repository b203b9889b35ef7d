--------------------------- MODULE QTRProxyProofs ---------------------------
(***************************************************************************)
(* Theorems about QTRProxy for every number of threads, buffer size, hash  *)
(* function and set of calls, with and without Errors in the handlers.     *)
(* First the lock, the ids and the types (IInv), then the records and the  *)
(* file (Core, Kept, Exact), then the refinement of TraceLog (Bridge).     *)
(***************************************************************************)
EXTENDS QTRProxy, SequenceTheorems, TLAPS

(* The inductive invariant.  The type invariant needs to know that a thread *)
(* between its test of ptr and its claim is alone there, which needs the    *)
(* lock discipline; that in turn needs to know where the hook can be.  All  *)
(* of it is a conjunction over the threads, so that one lemma says what a   *)
(* step of a thread leaves true of the others.                              *)

MxOK(t) ==
    /\ at[t].pc \in Inside => owner = t
    /\ owner = t =>
          /\ at[t].pc \in Inside \cup {"flock", "ffail", "fail"}
          /\ at[t].pc # "ffail" =>
                holds = IF t # Hook /\ at[t].pc \in {"flush", "funlock"} THEN 2 ELSE 1
          /\ at[t].pc = "ffail" => holds \in 1 .. (IF t = Hook THEN 1 ELSE 2)

\* A handler calls flushBuffer with mx held, the hook without it.
FlushOK(t) ==
    /\ t \in Threads => at[t].pc # "done" /\ (at[t].pc = "flock" => owner = t)
    /\ t = Hook => /\ at[t].pc \in {"app", "flock", "flush", "funlock", "ffail", "done"}
                   /\ at[t].pc = "flock" => owner # t
    /\ at[t].pc \in {"ffail", "fail"} => Faults

SlotOK(t) ==
    /\ at[t].pc = "claim" => ptr < BUFMAX
    /\ at[t].pc = "store" => /\ at[t].slot \in 0 .. BUFMAX - 1
                             /\ at[t].step \in 1 .. Len(Stores(t, at[t].call))
                             /\ Len(log) >= 1
    /\ at[t].pc = "flush" => at[t].size <= BUFMAX
    /\ at[t].pc = "funlock" => ptr = 0

ReentryOK(t) == saved[t] = << >> /\ (at[t].pc # "app" => flag[t])

ThreadOK(t) == MxOK(t) /\ FlushOK(t) /\ SlotOK(t) /\ ReentryOK(t)

\* Ids are given out in increasing order.
IdsOK == (\A h \in Hashes : idMap[h] < nextId) /\ IdsDistinct

IInv ==
    /\ TypeOK
    /\ owner = NoOne <=> holds = 0
    /\ \A t \in Actors : ThreadOK(t)
    /\ IdsOK

------------------------------------------------------------------------------
Assignment == [field : Fields, isRef : BOOLEAN, val : Nat, ref : Objects]

\* A handler makes at least one assignment, each to a field of the slot.
LEMMA StoresType ==
    ASSUME NEW t \in Actors, NEW c \in Calls
    PROVE  Stores(t, c) \in Seq(Assignment) /\ Len(Stores(t, c)) >= 1
<1>1. t \in Objects /\ c \in CallType /\ Null \in Objects
  BY ConstantsAssumption
<1>2. \A f \in Fields, n \in Nat : Set(f, n) \in Assignment
  BY <1>1 DEF Set, Assignment
<1>3. \A f \in Fields, o \in Objects : SetId(f, o) \in Assignment
  BY DEF SetId, Assignment
<1>4. EntryStores(t, c) \in Seq(Assignment) /\ Len(EntryStores(t, c)) >= 1
  BY <1>1, <1>2, <1>3 DEF EntryStores, Fields, CallType
<1>5. ExitStores(t, c) \in Seq(Assignment) /\ Len(ExitStores(t, c)) >= 1
  BY <1>1, <1>2, <1>3 DEF ExitStores, Fields, CallType
<1>6. AllocStores(t, c) \in Seq(Assignment) /\ Len(AllocStores(t, c)) >= 1
  BY <1>1, <1>2, <1>3 DEF AllocStores, Fields, CallType
<1>7. PutFieldStores(t, c) \in Seq(Assignment) /\ Len(PutFieldStores(t, c)) >= 1
  BY <1>1, <1>2, <1>3 DEF PutFieldStores, Fields, CallType
<1>8. ArrayStores(t, c) \in Seq(Assignment) /\ Len(ArrayStores(t, c)) >= 1
  BY <1>1, <1>2, <1>3 DEF ArrayStores, Fields, CallType
<1> QED  BY <1>4, <1>5, <1>6, <1>7, <1>8 DEF Stores

\* Whatever a slot holds, flushBuffer prints a line for it.
LEMMA PrintedType ==
    ASSUME buf \in [Fields -> [Slots -> Nat]], NEW j \in Slots
    PROVE  Printed(j) \in FileLine
<1>1. \A f \in Fields : buf[f][j] \in Nat
  OBVIOUS
<1> QED  BY <1>1 DEF Printed, Fields, FileLine

LEMMA RestingType == Resting \in Frame
<1>1. (CHOOSE c \in Calls : TRUE) \in Calls
  BY ConstantsAssumption
<1> QED  BY <1>1 DEF Resting, Frame, PCs

LEMMA InitIInv == Init => IInv
<1> SUFFICES ASSUME Init PROVE IInv
  OBVIOUS
<1> USE ConstantsAssumption DEF Init
<1>1. TypeOK
  <2>1. LocalsTyped
    BY RestingType DEF LocalsTyped
  <2>2. MxTyped /\ BuffersTyped
    BY DEF MxTyped, BuffersTyped
  <2>3. IdsTyped
    BY DEF IdsTyped
  <2>4. HistoryTyped
    <3>1. trace \in Seq(FileLine) /\ log \in Seq([thread : Actors, call : Calls])
      OBVIOUS
    <3>2. Len(log) = 0
      OBVIOUS
    <3>3. made \in 0 .. MaxCalls /\ base \in 0 .. Len(log) /\ broken \subseteq 1 .. Len(log)
          /\ cut \subseteq Nat
      BY <3>2
    <3>4. halted \in BOOLEAN
      OBVIOUS
    <3> QED  BY <3>1, <3>3, <3>4 DEF HistoryTyped
  <2> QED  BY <2>1, <2>2, <2>3, <2>4 DEF TypeOK
<1>2. \A t \in Actors : at[t].pc = "app" /\ saved[t] = << >> /\ owner # t
  BY DEF Resting
<1>3. \A t \in Actors : ThreadOK(t)
  BY <1>2 DEF ThreadOK, MxOK, FlushOK, SlotOK, ReentryOK, Inside
<1>4. IdsOK
  BY DEF IdsOK, IdsDistinct
<1> QED  BY <1>1, <1>3, <1>4 DEF IInv

\* The lock discipline and the absence of reentrancy are part of it.
LEMMA IInvImplies == IInv => TypeOK /\ MxProtects /\ NoReentry /\ IdsDistinct
<1> SUFFICES ASSUME IInv PROVE MxProtects /\ NoReentry
  BY DEF IInv, IdsOK
<1>1. \A t \in Actors : MxOK(t) /\ FlushOK(t) /\ ReentryOK(t)
  BY DEF IInv, ThreadOK
<1>2. NoReentry
  BY <1>1 DEF NoReentry, ReentryOK
<1>3. owner # NoOne => owner \in Actors
  BY DEF IInv, TypeOK, MxTyped
<1>4. \A t \in Actors : at[t].pc \in Inside => at[t].pc # "ffail"
  BY DEF Inside
<1>5. MxProtects
  BY <1>1, <1>3, <1>4 DEF MxProtects, MxOK, IInv
<1> QED  BY <1>2, <1>5

------------------------------------------------------------------------------
(* What a step of one thread leaves true of the others.                    *)

OthersStay(t) ==
    \A u \in Actors \ {t} : at'[u] = at[u] /\ flag'[u] = flag[u] /\ saved'[u] = saved[u]

\* t takes mx when it is free, gives it back when it has it, and changes ptr
\* and claims a slot only when it has it.
Disciplined(t) ==
    /\ owner \in {NoOne, t} => owner' \in {NoOne, t}
    /\ owner \notin {NoOne, t} => owner' = owner /\ holds' = holds
    /\ (ptr' = ptr /\ log' = log) \/ owner = t

LEMMA OthersOK ==
    ASSUME NEW t \in Actors, NEW u \in Actors \ {t}, ThreadOK(u),
           OthersStay(t), Disciplined(t)
    PROVE  ThreadOK(u)'
<1>0. NoOne # u /\ t # u
  BY ConstantsAssumption
<1>1. at'[u] = at[u] /\ flag'[u] = flag[u] /\ saved'[u] = saved[u]
  BY DEF OthersStay
<1>2. /\ owner' = u <=> owner = u
      /\ owner = u => holds' = holds /\ ptr' = ptr /\ log' = log
  BY <1>0 DEF Disciplined
<1>3. MxOK(u)'
  BY <1>1, <1>2 DEF ThreadOK, MxOK
<1>4. FlushOK(u)'
  BY <1>1, <1>2 DEF ThreadOK, FlushOK
<1>5. SlotOK(u)'
  BY <1>1, <1>2 DEF ThreadOK, SlotOK, MxOK, Inside
<1>6. ReentryOK(u)'
  BY <1>1 DEF ThreadOK, ReentryOK
<1> QED  BY <1>3, <1>4, <1>5, <1>6 DEF ThreadOK

LEMMA StepIInv ==
    ASSUME IInv, NEW t \in Actors, OthersStay(t), Disciplined(t),
           TypeOK', (owner = NoOne <=> holds = 0)', ThreadOK(t)', IdsOK'
    PROVE  IInv'
<1>1. \A u \in Actors : ThreadOK(u)'
  BY OthersOK DEF IInv
<1> QED  BY <1>1 DEF IInv

------------------------------------------------------------------------------
(* The locals of a thread.                                                 *)

\* A step of t to another point of its handler.
LEMMA GotoLocals ==
    ASSUME LocalsTyped, NEW t \in Actors, NEW pc \in PCs, Goto(t, pc)
    PROVE  /\ at' \in [Actors -> Frame]
           /\ \A u \in Actors \ {t} : at'[u] = at[u]
           /\ at'[t] = [at[t] EXCEPT !.pc = pc]
           /\ at'[t].pc = pc
BY DEF LocalsTyped, Goto, Frame

------------------------------------------------------------------------------
(* One lemma per action: the invariant survives it.                        *)

LEMMA LockIInv ==
    ASSUME IInv, NEW t \in Actors, Lock(t)
    PROVE  IInv'
<1> USE ConstantsAssumption
<1> DEFINE there == IF at[t].call.op = "witnessObjectAliveVer2" THEN "put" ELSE "check"
<1>1. TypeOK /\ ThreadOK(t) /\ (owner = NoOne <=> holds = 0) /\ NoOne # t
  BY DEF IInv
<1>2. /\ at' \in [Actors -> Frame]
      /\ \A u \in Actors \ {t} : at'[u] = at[u]
      /\ at'[t].pc \in {"put", "check"}
  BY <1>1, GotoLocals DEF Lock, PCs, TypeOK
<1>3. owner = NoOne /\ owner' = t /\ holds' = 1
  BY <1>1 DEF Lock, MxFree, Acquire, ThreadOK, MxOK, Inside
<1>4. flag[t] /\ saved[t] = << >> /\ t # Hook
  BY <1>1 DEF Lock, ThreadOK, ReentryOK, FlushOK
<1>5. TypeOK'
  BY <1>1, <1>2, <1>3
     DEF Lock, TypeOK, LocalsTyped, MxTyped, BuffersTyped, IdsTyped, HistoryTyped
<1>6. ThreadOK(t)'
  BY <1>2, <1>3, <1>4 DEF Lock, ThreadOK, MxOK, FlushOK, SlotOK, ReentryOK, Inside
<1>7. IdsOK'
  BY DEF Lock, IInv, IdsOK, IdsDistinct
<1>8. OthersStay(t) /\ Disciplined(t)
  BY <1>2, <1>3 DEF Lock, OthersStay, Disciplined
<1> QED  BY <1>1, <1>3, <1>5, <1>6, <1>7, <1>8, StepIInv

LEMMA CheckIInv ==
    ASSUME IInv, NEW t \in Actors, Check(t)
    PROVE  IInv'
<1> USE ConstantsAssumption
<1>1. TypeOK /\ ThreadOK(t) /\ (owner = NoOne <=> holds = 0)
  BY DEF IInv
<1>2. /\ at' \in [Actors -> Frame]
      /\ \A u \in Actors \ {t} : at'[u] = at[u]
      /\ at'[t].pc = IF NeedsFlush THEN "flock" ELSE "claim"
  BY <1>1, GotoLocals DEF Check, PCs, TypeOK
<1>3. owner = t /\ holds = 1 /\ flag[t] /\ saved[t] = << >> /\ t # Hook
  BY <1>1 DEF Check, ThreadOK, MxOK, ReentryOK, FlushOK, Inside
<1>4. TypeOK'
  BY <1>1, <1>2 DEF Check, TypeOK, LocalsTyped, MxTyped, BuffersTyped, IdsTyped, HistoryTyped
<1>5. ThreadOK(t)'
  <2>1. at'[t].pc = "claim" => ptr' < BUFMAX
    BY <1>1, <1>2 DEF Check, NeedsFlush, TypeOK, BuffersTyped
  <2>2. at'[t].pc \in {"flock", "claim"}
    BY <1>2
  <2> QED
    BY <2>1, <2>2, <1>3 DEF Check, ThreadOK, MxOK, FlushOK, SlotOK, ReentryOK, Inside
<1>6. IdsOK'
  BY DEF Check, IInv, IdsOK, IdsDistinct
<1>7. OthersStay(t) /\ Disciplined(t)
  BY <1>2, <1>3 DEF Check, OthersStay, Disciplined
<1> QED  BY <1>1, <1>4, <1>5, <1>6, <1>7, StepIInv DEF Check

LEMMA ClaimIInv ==
    ASSUME IInv, NEW t \in Actors, Claim(t)
    PROVE  IInv'
<1> USE ConstantsAssumption
<1>1. TypeOK /\ ThreadOK(t) /\ (owner = NoOne <=> holds = 0)
  BY DEF IInv
<1>2. owner = t /\ holds = 1 /\ flag[t] /\ saved[t] = << >> /\ t # Hook /\ ptr < BUFMAX
  BY <1>1 DEF Claim, ThreadOK, MxOK, ReentryOK, FlushOK, SlotOK, Inside
<1>3. ptr \in Nat /\ at[t] \in Frame /\ at[t].call \in Calls
  BY <1>1 DEF TypeOK, LocalsTyped, BuffersTyped, Frame
<1>4. /\ at' \in [Actors -> Frame]
      /\ \A u \in Actors \ {t} : at'[u] = at[u]
      /\ at'[t].pc = "store" /\ at'[t].slot = ptr /\ at'[t].step = 1
      /\ at'[t].call = at[t].call
  BY <1>1, <1>3 DEF Claim, TypeOK, LocalsTyped, Frame, PCs
<1>5. TypeOK'
  <2>1. LocalsTyped' /\ MxTyped' /\ BuffersTyped' /\ IdsTyped'
    BY <1>1, <1>2, <1>4 DEF Claim, TypeOK, LocalsTyped, MxTyped, BuffersTyped, IdsTyped
  <2>2. /\ log \in Seq([thread : Actors, call : Calls])
        /\ [thread |-> t, call |-> at[t].call] \in [thread : Actors, call : Calls]
    BY <1>1, <1>3 DEF TypeOK, HistoryTyped
  <2>3. log' \in Seq([thread : Actors, call : Calls]) /\ Len(log') = Len(log) + 1
    BY <2>2 DEF Claim
  <2>4. HistoryTyped'
    BY <1>1, <2>2, <2>3 DEF Claim, TypeOK, HistoryTyped
  <2> QED  BY <2>1, <2>4 DEF TypeOK
<1>6. ThreadOK(t)'
  <2>1. Len(Stores(t, at[t].call)) \in Nat /\ Len(Stores(t, at[t].call)) >= 1
    BY <1>3, StoresType
  <2>2. Len(log') >= 1
    BY <1>1 DEF Claim, TypeOK, HistoryTyped
  <2>3. SlotOK(t)'
    BY <1>2, <1>3, <1>4, <2>1, <2>2 DEF SlotOK
  <2> QED
    BY <2>3, <1>2, <1>4 DEF Claim, ThreadOK, MxOK, FlushOK, ReentryOK, Inside
<1>7. IdsOK'
  BY DEF Claim, IInv, IdsOK, IdsDistinct
<1>8. OthersStay(t) /\ Disciplined(t)
  BY <1>2, <1>4 DEF Claim, OthersStay, Disciplined
<1> QED  BY <1>1, <1>5, <1>6, <1>7, <1>8, StepIInv DEF Claim

\* getObjectId keeps the ids below nextId and distinct.
LEMMA ObjectIdOK ==
    ASSUME IdsTyped, IdsOK, NEW o \in Objects,
           idMap' = IdMapWith(o), nextId' = NextIdWith(o)
    PROVE  /\ idMap' \in [Hashes -> Nat] /\ nextId' \in Nat \ {0}
           /\ idMap'[Hash[o]] \in 1 .. nextId'
           /\ nextId <= nextId'
           /\ IdsOK'
           /\ \A h \in Hashes : idMap[h] # 0 => idMap'[h] = idMap[h]
<1>1. Hash[o] \in Hashes
  BY DEF Hashes
<1>2. idMap \in [Hashes -> Nat] /\ nextId \in Nat \ {0}
  BY DEF IdsTyped
<1>3. CASE idMap[Hash[o]] # 0
  BY <1>1, <1>2, <1>3 DEF IdMapWith, NextIdWith, IdsOK, IdsDistinct
<1>4. CASE idMap[Hash[o]] = 0
  <2>1. idMap' = [idMap EXCEPT ![Hash[o]] = nextId] /\ nextId' = nextId + 1
    BY <1>4 DEF IdMapWith, NextIdWith
  <2>2. \A h \in Hashes : idMap'[h] = IF h = Hash[o] THEN nextId ELSE idMap[h]
    BY <1>1, <1>2, <2>1
  <2> QED  BY <1>1, <1>2, <1>4, <2>1, <2>2 DEF IdsOK, IdsDistinct
<1> QED  BY <1>3, <1>4

LEMMA StoreIInv ==
    ASSUME IInv, NEW t \in Actors, Store(t)
    PROVE  IInv'
<1> USE ConstantsAssumption
<1> DEFINE todo == Stores(t, at[t].call)
           s    == todo[at[t].step]
<1>1. TypeOK /\ ThreadOK(t) /\ (owner = NoOne <=> holds = 0) /\ IdsOK
  BY DEF IInv
<1>2. /\ owner = t /\ holds = 1 /\ flag[t] /\ saved[t] = << >> /\ t # Hook
      /\ at[t].slot \in Slots /\ at[t].slot \in 0 .. BUFMAX - 1 /\ at[t].step \in 1 .. Len(todo)
  BY <1>1 DEF Store, ThreadOK, MxOK, ReentryOK, FlushOK, SlotOK, Inside
<1>3. at[t] \in Frame /\ at[t].call \in Calls
  BY <1>1 DEF TypeOK, LocalsTyped, Frame
<1>4. todo \in Seq(Assignment) /\ Len(todo) \in Nat
  BY <1>3, StoresType
<1>5. s \in Assignment
  BY <1>2, <1>4
<1>6. /\ idMap' \in [Hashes -> Nat] /\ nextId' \in Nat \ {0} /\ nextId <= nextId'
      /\ IdsOK'
  <2>1. CASE s.isRef
    BY <1>1, <1>5, <2>1, ObjectIdOK DEF Store, TypeOK, Assignment
  <2>2. CASE ~s.isRef
    <3>1. idMap' = idMap /\ nextId' = nextId
      BY <2>2 DEF Store
    <3>2. idMap \in [Hashes -> Nat] /\ nextId \in Nat \ {0} /\ IdsOK
      BY <1>1 DEF TypeOK, IdsTyped
    <3>3. IdsOK'
      BY <3>1, <3>2 DEF IdsOK, IdsDistinct
    <3> QED  BY <3>1, <3>2, <3>3
  <2> QED  BY <2>1, <2>2
<1>7. (IF s.isRef THEN idMap'[Hash[s.ref]] ELSE s.val) \in Nat
  BY <1>5, <1>6 DEF Assignment, Hashes
<1>8. buf' \in [Fields -> [Slots -> Nat]]
  BY <1>1, <1>2, <1>5, <1>7 DEF Store, TypeOK, BuffersTyped, Assignment
<1>9. /\ at' \in [Actors -> Frame]
      /\ \A u \in Actors \ {t} : at'[u] = at[u]
      /\ at'[t].pc = IF at[t].step = Len(todo) THEN "unlock" ELSE "store"
      /\ at'[t].slot = at[t].slot /\ at'[t].step = at[t].step + 1
      /\ at'[t].call = at[t].call
  <2> DEFINE there == IF at[t].step = Len(todo) THEN "unlock" ELSE "store"
  <2>1. at' = [at EXCEPT ![t].step = @ + 1, ![t].pc = there]
    BY DEF Store
  <2>2. there \in PCs
    BY DEF PCs
  <2> HIDE DEF there
  <2>3. at \in [Actors -> Frame] /\ at[t].step + 1 \in Nat
    BY <1>1, <1>3 DEF TypeOK, LocalsTyped, Frame
  <2>4. /\ at' \in [Actors -> Frame]
        /\ \A u \in Actors \ {t} : at'[u] = at[u]
        /\ at'[t].pc = there /\ at'[t].slot = at[t].slot
        /\ at'[t].step = at[t].step + 1 /\ at'[t].call = at[t].call
    BY <2>1, <2>2, <2>3 DEF Frame
  <2> QED  BY <2>4 DEF there
<1>10. TypeOK'
  <2>1. LocalsTyped' /\ MxTyped' /\ BuffersTyped' /\ HistoryTyped'
    BY <1>1, <1>8, <1>9
       DEF Store, TypeOK, LocalsTyped, MxTyped, BuffersTyped, HistoryTyped
  <2>2. IdsTyped'
    <3>1. witness' = witness /\ nextId \in Nat
      BY <1>1 DEF Store, TypeOK, IdsTyped
    <3>2. 1 .. nextId \subseteq 1 .. nextId'
      BY <1>6, <3>1
    <3> QED  BY <1>1, <1>6, <3>1, <3>2 DEF TypeOK, IdsTyped
  <2> QED  BY <2>1, <2>2 DEF TypeOK
<1>11. ThreadOK(t)'
  <2>1. SlotOK(t)'
    <3>1. Len(log') >= 1
      BY <1>1 DEF Store, ThreadOK, SlotOK
    <3> QED  BY <1>2, <1>4, <1>9, <3>1 DEF SlotOK
  <2>2. at'[t].pc \in {"unlock", "store"}
    BY <1>9
  <2> QED
    BY <2>1, <2>2, <1>2 DEF Store, ThreadOK, MxOK, FlushOK, ReentryOK, Inside
<1>12. OthersStay(t) /\ Disciplined(t)
  BY <1>2, <1>9 DEF Store, OthersStay, Disciplined
<1> QED  BY <1>1, <1>6, <1>10, <1>11, <1>12, StepIInv DEF Store

LEMMA PutIInv ==
    ASSUME IInv, NEW t \in Actors, Put(t)
    PROVE  IInv'
<1> USE ConstantsAssumption
<1> DEFINE c  == at[t].call
           id == idMap'[Hash[c.obj]]
<1>1. TypeOK /\ ThreadOK(t) /\ (owner = NoOne <=> holds = 0) /\ IdsOK
  BY DEF IInv
<1>2. owner = t /\ holds = 1 /\ flag[t] /\ saved[t] = << >> /\ t # Hook
  BY <1>1 DEF Put, ThreadOK, MxOK, ReentryOK, FlushOK, Inside
<1>3. at[t].ts \in Nat /\ c \in Calls
  BY <1>1 DEF TypeOK, LocalsTyped, Frame
<1>4. c.obj \in Objects /\ c.id \in Nat
  BY <1>3 DEF CallType
<1>5. /\ idMap' \in [Hashes -> Nat] /\ nextId' \in Nat \ {0} /\ nextId <= nextId'
      /\ id \in 1 .. nextId' /\ IdsOK'
  BY <1>1, <1>4, ObjectIdOK DEF Put, TypeOK
<1>6. IdsTyped'
  <2>1. witness' = [k \in DOMAIN witness \cup {id} |->
                      IF k = id THEN <<at[t].ts, c.id>> ELSE witness[k]]
    BY DEF Put
  <2>2. nextId \in Nat /\ DOMAIN witness \subseteq 1 .. nextId
    BY <1>1 DEF TypeOK, IdsTyped
  <2>5. DOMAIN witness' = DOMAIN witness \cup {id}
    BY <2>1
  <2>6. 1 .. nextId \subseteq 1 .. nextId'
    BY <1>5, <2>2
  <2>3. DOMAIN witness' \subseteq 1 .. nextId'
    BY <1>5, <2>2, <2>5, <2>6
  <2>4. \A k \in DOMAIN witness' : witness'[k] \in Nat \X Nat
    BY <1>1, <1>3, <1>4, <2>1 DEF TypeOK, IdsTyped
  <2> QED  BY <1>5, <2>3, <2>4 DEF IdsTyped
<1>7. /\ at' \in [Actors -> Frame]
      /\ \A u \in Actors \ {t} : at'[u] = at[u]
      /\ at'[t].pc = "unlock"
  BY <1>1, GotoLocals DEF Put, PCs, TypeOK
<1>8. TypeOK'
  BY <1>1, <1>6, <1>7 DEF Put, TypeOK, LocalsTyped, MxTyped, BuffersTyped, HistoryTyped
<1>9. ThreadOK(t)'
  BY <1>2, <1>7 DEF Put, ThreadOK, MxOK, FlushOK, SlotOK, ReentryOK, Inside
<1>10. OthersStay(t) /\ Disciplined(t)
  BY <1>2, <1>7 DEF Put, OthersStay, Disciplined
<1> QED  BY <1>1, <1>5, <1>8, <1>9, <1>10, StepIInv DEF Put

LEMMA UnlockIInv ==
    ASSUME IInv, NEW t \in Actors, Unlock(t)
    PROVE  IInv'
<1> USE ConstantsAssumption
<1>1. TypeOK /\ ThreadOK(t) /\ (owner = NoOne <=> holds = 0)
  BY DEF IInv
<1>2. owner = t /\ holds = 1 /\ flag[t] /\ saved[t] = << >> /\ t # Hook
  BY <1>1 DEF Unlock, ThreadOK, MxOK, ReentryOK, FlushOK, Inside
<1>3. /\ at' \in [Actors -> Frame]
      /\ \A u \in Actors \ {t} : at'[u] = at[u]
      /\ at'[t].pc = "clear" /\ owner' = NoOne /\ holds' = 0
  <2>1. owner' = NoOne /\ holds' = 0
    BY <1>2 DEF Unlock, Release
  <2>2. Goto(t, "clear") /\ "clear" \in PCs /\ LocalsTyped
    BY <1>1 DEF Unlock, PCs, TypeOK
  <2> QED  BY <2>1, <2>2, GotoLocals
<1>4. TypeOK'
  BY <1>1, <1>3 DEF Unlock, TypeOK, LocalsTyped, MxTyped, BuffersTyped, IdsTyped, HistoryTyped
<1>5. ThreadOK(t)'
  BY <1>2, <1>3 DEF Unlock, ThreadOK, MxOK, FlushOK, SlotOK, ReentryOK, Inside
<1>6. IdsOK'
  BY DEF Unlock, IInv, IdsOK, IdsDistinct
<1>7. OthersStay(t) /\ Disciplined(t)
  BY <1>2, <1>3 DEF Unlock, OthersStay, Disciplined
<1> QED  BY <1>3, <1>4, <1>5, <1>6, <1>7, StepIInv

LEMMA ClearIInv ==
    ASSUME IInv, NEW t \in Actors, Clear(t)
    PROVE  IInv'
<1> USE ConstantsAssumption
<1>1. TypeOK /\ ThreadOK(t) /\ (owner = NoOne <=> holds = 0)
  BY DEF IInv
<1>2. owner # t /\ saved[t] = << >> /\ t # Hook
  BY <1>1 DEF Clear, ThreadOK, MxOK, ReentryOK, FlushOK, Inside
<1>3. /\ at' = [at EXCEPT ![t] = Resting]
      /\ saved' = saved
      /\ flag' = [flag EXCEPT ![t] = FALSE]
  BY <1>1, <1>2 DEF Clear, TypeOK, LocalsTyped
<1>4. /\ at' \in [Actors -> Frame]
      /\ \A u \in Actors \ {t} : at'[u] = at[u]
      /\ at'[t].pc = "app"
  BY <1>1, <1>3, RestingType DEF TypeOK, LocalsTyped, Resting
<1>5. TypeOK'
  <2>1. LocalsTyped'
    BY <1>1, <1>3, <1>4 DEF TypeOK, LocalsTyped
  <2> QED  BY <1>1, <2>1 DEF Clear, TypeOK, MxTyped, BuffersTyped, IdsTyped, HistoryTyped
<1>6. ThreadOK(t)'
  BY <1>2, <1>3, <1>4 DEF Clear, ThreadOK, MxOK, FlushOK, SlotOK, ReentryOK, Inside
<1>7. IdsOK'
  BY DEF Clear, IInv, IdsOK, IdsDistinct
<1>8. OthersStay(t) /\ Disciplined(t)
  <2>1. \A u \in Actors \ {t} : flag'[u] = flag[u]
    BY <1>1, <1>3 DEF TypeOK, LocalsTyped
  <2> QED  BY <1>3, <1>4, <2>1 DEF Clear, OthersStay, Disciplined
<1> QED  BY <1>1, <1>5, <1>6, <1>7, <1>8, StepIInv DEF Clear

LEMMA FlushLockIInv ==
    ASSUME IInv, NEW t \in Actors, FlushLock(t)
    PROVE  IInv'
<1> USE ConstantsAssumption
<1>1. TypeOK /\ ThreadOK(t) /\ (owner = NoOne <=> holds = 0) /\ NoOne # t
  BY DEF IInv
<1>2. FlushSize \in 0 .. BUFMAX
  BY <1>1 DEF FlushSize, TypeOK, BuffersTyped
<1>3. /\ at' \in [Actors -> Frame]
      /\ \A u \in Actors \ {t} : at'[u] = at[u]
      /\ at'[t].pc = "flush" /\ at'[t].size <= BUFMAX
  <2>1. at' = [at EXCEPT ![t].pc = "flush", ![t].i = 0, ![t].size = FlushSize]
    BY DEF FlushLock
  <2>2. at \in [Actors -> Frame]
    BY <1>1 DEF TypeOK, LocalsTyped
  <2>3. FlushSize \in Nat /\ FlushSize <= BUFMAX
    BY <1>2
  <2>4. at[t] \in Frame
    BY <2>2
  <2> DEFINE flushing == [at[t] EXCEPT !.pc = "flush", !.i = 0, !.size = FlushSize]
  <2>5. flushing \in Frame
    BY <2>3, <2>4 DEF Frame, PCs
  <2>6. flushing.pc = "flush" /\ flushing.size = FlushSize
    BY <2>4 DEF Frame
  <2>7. at' = [at EXCEPT ![t] = flushing]
    BY <2>1, <2>2
  <2> HIDE DEF flushing
  <2>8. at' \in [Actors -> Frame]
    BY <2>2, <2>5, <2>7
  <2>9. at'[t] = flushing /\ \A u \in Actors \ {t} : at'[u] = at[u]
    BY <2>2, <2>7
  <2> QED  BY <2>3, <2>6, <2>8, <2>9
<1>4. flag[t] /\ saved[t] = << >>
  BY <1>1 DEF FlushLock, ThreadOK, ReentryOK
<1>5. owner' = t /\ holds' = IF t = Hook THEN 1 ELSE 2
  <2>1. CASE t = Hook
    <3>1. owner = NoOne /\ holds = 0
      BY <1>1, <2>1 DEF FlushLock, MxFree, ThreadOK, FlushOK
    <3> QED  BY <2>1, <3>1 DEF FlushLock, Acquire
  <2>2. CASE t # Hook
    <3>1. owner = t /\ holds = 1
      BY <1>1, <2>2 DEF FlushLock, ThreadOK, FlushOK, MxOK, Actors
    <3> QED  BY <2>2, <3>1 DEF FlushLock, Acquire
  <2> QED  BY <2>1, <2>2
<1>6. owner \in {NoOne, t}
  BY DEF FlushLock, MxFree
<1>7. TypeOK'
  <2>1. LocalsTyped'
    BY <1>1, <1>3 DEF FlushLock, TypeOK, LocalsTyped
  <2>2. MxTyped'
    BY <1>5 DEF MxTyped
  <2>3. BuffersTyped' /\ IdsTyped'
    BY <1>1 DEF FlushLock, TypeOK, BuffersTyped, IdsTyped
  <2>4. HistoryTyped'
    BY <1>1 DEF FlushLock, TypeOK, HistoryTyped
  <2> QED  BY <2>1, <2>2, <2>3, <2>4 DEF TypeOK
<1>8. ThreadOK(t)'
  BY <1>3, <1>4, <1>5 DEF FlushLock, ThreadOK, MxOK, FlushOK, SlotOK, ReentryOK, Inside
<1>9. IdsOK'
  BY DEF FlushLock, IInv, IdsOK, IdsDistinct
<1>10. OthersStay(t) /\ Disciplined(t)
  BY <1>3, <1>5, <1>6 DEF FlushLock, OthersStay, Disciplined
<1> QED  BY <1>1, <1>5, <1>7, <1>8, <1>9, <1>10, StepIInv

\* Printing a line leaves the file a sequence of lines.
LEMMA PrintingType ==
    ASSUME NEW line \in FileLine, trace \in Seq(FileLine)
    PROVE  Printing(line) \in Seq(FileLine)
<1>1. Half \in FileLine /\ [kind |-> "Glued", args |-> << >>] \in FileLine
  BY DEF FileLine, Half
<1>2. CASE trace # << >> /\ Open(trace[Len(trace)])
  <2>1. Len(trace) \in 1 .. Len(trace)
    BY <1>2
  <2> QED  BY <1>1, <1>2, <2>1 DEF Printing
<1>3. CASE ~(trace # << >> /\ Open(trace[Len(trace)]))
  BY <1>3 DEF Printing
<1> QED  BY <1>2, <1>3

LEMMA FlushRecordIInv ==
    ASSUME IInv, NEW t \in Actors, FlushRecord(t)
    PROVE  IInv'
<1> USE ConstantsAssumption
<1>1. TypeOK /\ ThreadOK(t) /\ (owner = NoOne <=> holds = 0)
  BY DEF IInv
<1>2. /\ owner = t /\ holds = IF t = Hook THEN 1 ELSE 2
      /\ flag[t] /\ saved[t] = << >> /\ at[t].size <= BUFMAX
  BY <1>1 DEF FlushRecord, ThreadOK, MxOK, ReentryOK, SlotOK, Inside
<1>3. at \in [Actors -> Frame] /\ at[t].i \in Nat /\ at[t].size \in Nat
  BY <1>1 DEF TypeOK, LocalsTyped, Frame
<1>4. /\ at' \in [Actors -> Frame]
      /\ \A u \in Actors \ {t} : at'[u] = at[u]
      /\ at'[t].pc = "flush" /\ at'[t].size <= BUFMAX
  <2>1. at' = [at EXCEPT ![t].i = @ + 1] /\ at[t].pc = "flush"
    BY DEF FlushRecord
  <2>2. at[t] \in Frame /\ at[t].i + 1 \in Nat
    BY <1>3
  <2>3. at' \in [Actors -> Frame]
    BY <1>3, <2>1, <2>2 DEF Frame
  <2>4. at'[t] = [at[t] EXCEPT !.i = @ + 1]
    BY <1>3, <2>1
  <2> QED  BY <1>2, <1>3, <2>1, <2>2, <2>3, <2>4 DEF Frame
<1>5. at[t].i \in Slots
  BY <1>2, <1>3 DEF FlushRecord, Slots
<1>6. buf' \in [Fields -> [Slots -> Nat]]
  BY <1>1, <1>5 DEF FlushRecord, TypeOK, BuffersTyped
<1>7. trace' \in Seq(FileLine)
  BY <1>1, <1>5, PrintedType, PrintingType
     DEF FlushRecord, TypeOK, BuffersTyped, HistoryTyped
<1>8. TypeOK'
  BY <1>1, <1>4, <1>6, <1>7
     DEF FlushRecord, TypeOK, LocalsTyped, MxTyped, BuffersTyped, IdsTyped, HistoryTyped
<1>9. ThreadOK(t)'
  BY <1>2, <1>4 DEF FlushRecord, ThreadOK, MxOK, FlushOK, SlotOK, ReentryOK, Inside
<1>10. IdsOK'
  BY DEF FlushRecord, IInv, IdsOK, IdsDistinct
<1>11. OthersStay(t) /\ Disciplined(t)
  BY <1>2, <1>4 DEF FlushRecord, OthersStay, Disciplined
<1> QED  BY <1>1, <1>8, <1>9, <1>10, <1>11, StepIInv DEF FlushRecord

LEMMA FlushResetIInv ==
    ASSUME IInv, NEW t \in Actors, FlushReset(t)
    PROVE  IInv'
<1> USE ConstantsAssumption
<1>1. TypeOK /\ ThreadOK(t) /\ (owner = NoOne <=> holds = 0)
  BY DEF IInv
<1>2. /\ owner = t /\ holds = IF t = Hook THEN 1 ELSE 2
      /\ flag[t] /\ saved[t] = << >>
  BY <1>1 DEF FlushReset, ThreadOK, MxOK, ReentryOK, Inside
<1>3. /\ at' \in [Actors -> Frame]
      /\ \A u \in Actors \ {t} : at'[u] = at[u]
      /\ at'[t].pc = "funlock" /\ ptr' = 0
  BY <1>1, GotoLocals DEF FlushReset, PCs, TypeOK
<1>4. TypeOK'
  <2>1. Len(log) \in Nat
    BY <1>1 DEF TypeOK, HistoryTyped
  <2>2. LocalsTyped' /\ MxTyped'
    BY <1>1, <1>3 DEF FlushReset, TypeOK, LocalsTyped, MxTyped
  <2>3. BuffersTyped' /\ IdsTyped'
    BY <1>1, <1>3 DEF FlushReset, TypeOK, BuffersTyped, IdsTyped
  <2>4. HistoryTyped'
    BY <1>1, <2>1 DEF FlushReset, TypeOK, HistoryTyped
  <2> QED  BY <2>2, <2>3, <2>4 DEF TypeOK
<1>5. ThreadOK(t)'
  BY <1>2, <1>3 DEF FlushReset, ThreadOK, MxOK, FlushOK, SlotOK, ReentryOK, Inside
<1>6. IdsOK'
  BY DEF FlushReset, IInv, IdsOK, IdsDistinct
<1>7. OthersStay(t) /\ Disciplined(t)
  BY <1>2, <1>3 DEF FlushReset, OthersStay, Disciplined
<1> QED  BY <1>1, <1>4, <1>5, <1>6, <1>7, StepIInv DEF FlushReset

LEMMA FlushUnlockIInv ==
    ASSUME IInv, NEW t \in Actors, FlushUnlock(t)
    PROVE  IInv'
<1> USE ConstantsAssumption
<1>1. TypeOK /\ ThreadOK(t) /\ (owner = NoOne <=> holds = 0) /\ NoOne # t
  BY DEF IInv
<1>2. /\ owner = t /\ holds = (IF t = Hook THEN 1 ELSE 2)
      /\ flag[t] /\ saved[t] = << >> /\ ptr = 0
  BY <1>1 DEF FlushUnlock, ThreadOK, MxOK, ReentryOK, SlotOK, Inside
<1>3. /\ at' \in [Actors -> Frame]
      /\ \A u \in Actors \ {t} : at'[u] = at[u]
      /\ at'[t].pc = IF t = Hook THEN "done" ELSE "claim"
  BY <1>1, GotoLocals DEF FlushUnlock, PCs, TypeOK
<1>4. IF t = Hook THEN owner' = NoOne /\ holds' = 0 ELSE owner' = t /\ holds' = 1
  BY <1>2 DEF FlushUnlock, Release
<1>5. TypeOK'
  <2>1. LocalsTyped'
    BY <1>1, <1>3 DEF FlushUnlock, TypeOK, LocalsTyped
  <2>2. MxTyped'
    BY <1>4 DEF MxTyped
  <2>3. BuffersTyped' /\ IdsTyped'
    BY <1>1 DEF FlushUnlock, TypeOK, BuffersTyped, IdsTyped
  <2>4. HistoryTyped'
    BY <1>1 DEF FlushUnlock, TypeOK, HistoryTyped
  <2> QED  BY <2>1, <2>2, <2>3, <2>4 DEF TypeOK
<1>6. ThreadOK(t)'
  <2>1. ptr' = 0 /\ flag'[t] /\ saved'[t] = << >>
    BY <1>2 DEF FlushUnlock
  <2>2. CASE t = Hook
    BY <1>1, <1>3, <1>4, <2>1, <2>2
       DEF ThreadOK, MxOK, FlushOK, SlotOK, ReentryOK, Inside
  <2>3. CASE t # Hook
    BY <1>1, <1>3, <1>4, <2>1, <2>3
       DEF ThreadOK, MxOK, FlushOK, SlotOK, ReentryOK, Inside
  <2> QED  BY <2>2, <2>3
<1>7. IdsOK'
  BY DEF FlushUnlock, IInv, IdsOK, IdsDistinct
<1>8. OthersStay(t) /\ Disciplined(t)
  BY <1>2, <1>3, <1>4 DEF FlushUnlock, OthersStay, Disciplined
<1> QED  BY <1>1, <1>4, <1>5, <1>6, <1>7, <1>8, StepIInv

LEMMA EnterIInv ==
    ASSUME IInv, NEW t \in Threads, NEW c \in Calls, Enter(t, c), ~InHandler(t)
    PROVE  IInv'
<1> USE ConstantsAssumption
<1>1. TypeOK /\ t \in Actors /\ ThreadOK(t) /\ (owner = NoOne <=> holds = 0) /\ t # Hook
  BY DEF IInv, Actors
<1>2. at[t].pc = "app" /\ saved[t] = << >> /\ owner # t
  BY <1>1 DEF InHandler, ThreadOK, MxOK, ReentryOK, Inside
<1> DEFINE ts == IF c.op = "witnessObjectAliveVer2" THEN made ELSE 0
<1>3. ts \in Nat
  BY <1>1 DEF TypeOK, HistoryTyped
<1>4. /\ at' = [at EXCEPT ![t] = [Resting EXCEPT !.pc = "lock", !.call = c, !.ts = ts]]
      /\ flag' = [flag EXCEPT ![t] = TRUE]
      /\ saved' = saved
      /\ made < MaxCalls /\ made' = made + 1
      /\ UNCHANGED <<owner, holds, ptr, buf, idMap, nextId, witness, trace,
                     halted, log, base, broken, cut>>
  BY <1>2 DEF Enter, InHandler
<1> HIDE DEF ts
<1>5. [Resting EXCEPT !.pc = "lock", !.call = c, !.ts = ts] \in Frame
  BY <1>3, RestingType DEF Frame, PCs
<1>6. /\ at' \in [Actors -> Frame]
      /\ \A u \in Actors \ {t} : at'[u] = at[u]
      /\ at'[t].pc = "lock"
  BY <1>1, <1>4, <1>5 DEF TypeOK, LocalsTyped, Resting
<1>7. TypeOK'
  <2>1. LocalsTyped'
    BY <1>1, <1>4, <1>6 DEF TypeOK, LocalsTyped
  <2>2. HistoryTyped'
    BY <1>1, <1>4 DEF TypeOK, HistoryTyped
  <2> QED  BY <1>1, <1>4, <2>1, <2>2 DEF TypeOK, MxTyped, BuffersTyped, IdsTyped
<1>8. flag'[t] /\ \A u \in Actors \ {t} : flag'[u] = flag[u]
  BY <1>1, <1>4 DEF TypeOK, LocalsTyped
<1>9. ThreadOK(t)'
  BY <1>1, <1>2, <1>4, <1>6, <1>8
     DEF ThreadOK, MxOK, FlushOK, SlotOK, ReentryOK, Inside
<1>10. IdsOK'
  BY <1>4 DEF IInv, IdsOK, IdsDistinct
<1>11. OthersStay(t) /\ Disciplined(t)
  BY <1>2, <1>4, <1>6, <1>8 DEF OthersStay, Disciplined
<1> QED  BY <1>1, <1>4, <1>7, <1>9, <1>10, <1>11, StepIInv

LEMMA HookStartIInv ==
    ASSUME IInv, HookStart
    PROVE  IInv'
<1> USE ConstantsAssumption
<1> DEFINE t == Hook
<1>1. TypeOK /\ t \in Actors /\ t \notin Threads /\ ThreadOK(t) /\ (owner = NoOne <=> holds = 0)
  BY DEF IInv, Actors
<1>2. owner # t /\ saved[t] = << >>
  BY <1>1 DEF HookStart, ThreadOK, MxOK, ReentryOK, Inside
<1>3. /\ at' \in [Actors -> Frame]
      /\ \A u \in Actors \ {t} : at'[u] = at[u]
      /\ at'[t].pc = "flock"
  BY <1>1, GotoLocals DEF HookStart, PCs, TypeOK
<1>4. flag' = [flag EXCEPT ![t] = TRUE]
  BY DEF HookStart
<1>5. flag' \in [Actors -> BOOLEAN] /\ flag'[t] /\ \A u \in Actors \ {t} : flag'[u] = flag[u]
  BY <1>1, <1>4 DEF TypeOK, LocalsTyped
<1>6. TypeOK'
  <2>1. LocalsTyped'
    BY <1>1, <1>3, <1>5 DEF HookStart, TypeOK, LocalsTyped
  <2> QED  BY <1>1, <2>1 DEF HookStart, TypeOK, MxTyped, BuffersTyped, IdsTyped, HistoryTyped
<1>7. ThreadOK(t)'
  BY <1>1, <1>2, <1>3, <1>5 DEF HookStart, ThreadOK, MxOK, FlushOK, SlotOK, ReentryOK, Inside
<1>8. IdsOK'
  BY DEF HookStart, IInv, IdsOK, IdsDistinct
<1>9. OthersStay(t) /\ Disciplined(t)
  BY <1>2, <1>3, <1>5 DEF HookStart, OthersStay, Disciplined
<1> QED  BY <1>1, <1>6, <1>7, <1>8, <1>9, StepIInv DEF HookStart

\* An Error in getObjectId can waste an id, and that is all.
LEMMA ThrowIds ==
    ASSUME IInv, NEW t \in Actors, Throw(t)
    PROVE  /\ IdsTyped' /\ IdsOK'
           /\ \A h \in Hashes : idMap[h] # 0 => idMap'[h] = idMap[h]
<1>1. IdsTyped /\ IdsOK /\ witness' = witness
  BY DEF IInv, TypeOK, Throw
<1>2. CASE UNCHANGED <<idMap, nextId>>
  BY <1>1, <1>2 DEF IdsTyped, IdsOK, IdsDistinct
<1>3. CASE IdCut(t)
  <2>1. PICK o \in Wanted(t) : /\ idMap[Hash[o]] = 0
                               /\ nextId' = nextId + 1
                               /\ idMap' \in {idMap, IdMapWith(o)}
    BY <1>3 DEF IdCut
  <2>2. idMap' \in {idMap, [idMap EXCEPT ![Hash[o]] = nextId]}
    BY <2>1 DEF IdMapWith
  <2>3. nextId \in Nat \ {0} /\ idMap \in [Hashes -> Nat]
    BY <1>1 DEF IdsTyped
  <2>4. idMap' \in [Hashes -> Nat] /\ nextId' \in Nat \ {0}
    BY <2>1, <2>2, <2>3
  <2>5. \A h \in Hashes : idMap'[h] = idMap[h] \/ (h = Hash[o] /\ idMap'[h] = nextId)
    BY <2>2, <2>3
  <2>6. IdsOK' /\ \A h \in Hashes : idMap[h] # 0 => idMap'[h] = idMap[h]
    <3>1. \A h \in Hashes : idMap[h] \in Nat /\ idMap[h] < nextId
      BY <1>1, <2>3 DEF IdsOK
    <3>2. \A h \in Hashes : idMap'[h] < nextId'
      BY <2>1, <2>3, <2>5, <3>1
    <3>3. IdsDistinct'
      BY <1>1, <2>3, <2>5, <3>1 DEF IdsOK, IdsDistinct
    <3> QED  BY <2>1, <2>5, <3>2, <3>3 DEF IdsOK
  <2>7. 1 .. nextId \subseteq 1 .. nextId'
    BY <2>1, <2>3
  <2>8. IdsTyped'
    BY <1>1, <2>4, <2>7 DEF IdsTyped
  <2> QED  BY <2>6, <2>8
<1> QED  BY <1>2, <1>3 DEF Throw

\* Where an Error takes its thread.
LEMMA LeaveLocals ==
    ASSUME LocalsTyped, NEW t \in Actors, Leave(t)
    PROVE  /\ at' \in [Actors -> Frame] /\ saved' \in [Actors -> Seq(Frame)]
           /\ \A u \in Actors \ {t} : at'[u] = at[u] /\ saved'[u] = saved[u]
           /\ at'[t].pc = IF t = Hook THEN "done" ELSE "app"
           /\ saved'[t] = << >>
<1> DEFINE after == IF t = Hook THEN [Resting EXCEPT !.pc = "done"] ELSE Resting
<1>1. after \in Frame /\ after.pc = IF t = Hook THEN "done" ELSE "app"
  BY RestingType DEF Resting, Frame, PCs
<1>2. at' = [at EXCEPT ![t] = after] /\ saved' = [saved EXCEPT ![t] = << >>]
  BY DEF Leave
<1> HIDE DEF after
<1> QED  BY <1>1, <1>2 DEF LocalsTyped

LEMMA FailLocals ==
    ASSUME LocalsTyped, NEW t \in Actors, saved[t] = << >>, NEW pc \in {"ffail", "fail"},
           Goto(t, pc), UNCHANGED saved
    PROVE  /\ at' \in [Actors -> Frame] /\ saved' \in [Actors -> Seq(Frame)]
           /\ \A u \in Actors \ {t} : at'[u] = at[u] /\ saved'[u] = saved[u]
           /\ at'[t].pc = pc
           /\ saved'[t] = << >>
<1>1. pc \in PCs
  BY DEF PCs
<1> QED  BY <1>1, GotoLocals DEF LocalsTyped

LEMMA UnwindLocals ==
    ASSUME LocalsTyped, NEW t \in Actors, saved[t] = << >>, Unwind(t)
    PROVE  /\ at' \in [Actors -> Frame] /\ saved' \in [Actors -> Seq(Frame)]
           /\ \A u \in Actors \ {t} : at'[u] = at[u] /\ saved'[u] = saved[u]
           /\ at'[t].pc = IF at[t].pc \in {"flock", "flush"} THEN "ffail"
                          ELSE IF at[t].pc \in {"check", "claim", "store", "put"} THEN "fail"
                          ELSE IF t = Hook THEN "done" ELSE "app"
           /\ saved'[t] = << >>
<1>1. CASE at[t].pc \in {"flock", "flush"}
  <2>1. Goto(t, "ffail") /\ UNCHANGED saved
    BY <1>1 DEF Unwind
  <2> QED  BY <1>1, <2>1, FailLocals
<1>2. CASE at[t].pc \in {"check", "claim", "store", "put"}
  <2>1. Goto(t, "fail") /\ UNCHANGED saved
    BY <1>2 DEF Unwind
  <2> QED  BY <1>2, <2>1, FailLocals
<1>3. CASE at[t].pc \notin {"flock", "flush", "check", "claim", "store", "put"}
  <2>1. Leave(t)
    BY <1>3 DEF Unwind
  <2> QED  BY <1>3, <2>1, LeaveLocals
<1> QED  BY <1>1, <1>2, <1>3

\* The file after an Error: as it was, or with half a line or a line more.
LEMMA ThrowFile ==
    ASSUME IInv, NEW t \in Actors, Throw(t)
    PROVE  /\ trace' \in Seq(FileLine) /\ cut' \subseteq Nat
           /\ trace' = trace \/ \E line \in FileLine : trace' = Printing(line)
           /\ at[t].pc = "flush" \/ (trace' = trace /\ cut' = cut)
<1>1. trace \in Seq(FileLine) /\ cut \subseteq Nat /\ base \in Nat
  BY DEF IInv, TypeOK, HistoryTyped
<1>2. CASE trace' = trace /\ cut' = cut
  BY <1>1, <1>2
<1>3. CASE LineCut(t)
  <2>1. at[t].pc = "flush" /\ at[t].i < at[t].size /\ cut' \subseteq cut \cup {base + 1}
    BY <1>3 DEF LineCut
  <2>2. at[t].i \in Slots
    BY <2>1, ConstantsAssumption
       DEF Slots, IInv, ThreadOK, SlotOK, TypeOK, LocalsTyped, Frame
  <2>3. Half \in FileLine /\ Printed(at[t].i) \in FileLine
    <3>1. Half \in FileLine
      BY DEF Half, FileLine
    <3> QED  BY <2>2, <3>1, PrintedType DEF IInv, TypeOK, BuffersTyped
  <2>4. \E line \in FileLine : trace' = Printing(line)
    BY <1>3, <2>3 DEF LineCut
  <2> QED  BY <1>1, <2>1, <2>4, PrintingType
<1> QED  BY <1>2, <1>3 DEF Throw

LEMMA ThrowIInv ==
    ASSUME IInv, NEW t \in Actors, Throw(t)
    PROVE  IInv'
<1> USE ConstantsAssumption
<1>1. TypeOK /\ LocalsTyped /\ ThreadOK(t) /\ (owner = NoOne <=> holds = 0) /\ NoOne # t
  BY DEF IInv, TypeOK
<1>2. saved[t] = << >> /\ flag[t]
  BY <1>1 DEF Throw, ThreadOK, ReentryOK
<1>3. /\ Unwind(t) /\ Faults
      /\ at[t].pc \in {"lock", "check", "claim", "store", "put", "clear", "flock", "flush"}
      /\ UNCHANGED <<flag, owner, holds, ptr, buf, witness, made, halted, log, base>>
  BY DEF Throw
<1>4. /\ at' \in [Actors -> Frame] /\ saved' \in [Actors -> Seq(Frame)]
      /\ \A u \in Actors \ {t} : at'[u] = at[u] /\ saved'[u] = saved[u]
      /\ at'[t].pc = IF at[t].pc \in {"flock", "flush"} THEN "ffail"
                     ELSE IF at[t].pc \in {"check", "claim", "store", "put"} THEN "fail"
                     ELSE IF t = Hook THEN "done" ELSE "app"
      /\ saved'[t] = << >>
  BY <1>1, <1>2, <1>3, UnwindLocals
<1>5. IdsTyped' /\ IdsOK'
  BY ThrowIds
<1>6. HistoryTyped'
  <2>1. Len(log) \in Nat
    BY <1>1 DEF TypeOK, HistoryTyped
  <2>2. at[t].pc = "store" => Len(log) \in 1 .. Len(log)
    BY <1>1, <2>1 DEF ThreadOK, SlotOK
  <2>3. broken' \subseteq 1 .. Len(log)
    BY <1>1, <2>2 DEF Throw, TypeOK, HistoryTyped
  <2> QED  BY <1>1, <1>3, <2>3, ThrowFile DEF TypeOK, HistoryTyped
<1>7. TypeOK'
  BY <1>1, <1>3, <1>4, <1>5, <1>6 DEF TypeOK, LocalsTyped, MxTyped, BuffersTyped
<1>8. ThreadOK(t)'
  <2>1. t = Hook => t \notin Threads
    OBVIOUS
  <2>2. owner = t => at[t].pc \in {"check", "claim", "store", "put", "flock", "flush"}
    BY <1>1, <1>3 DEF ThreadOK, MxOK, Inside
  <2>3. MxOK(t)'
    BY <1>1, <1>3, <1>4, <2>2 DEF ThreadOK, MxOK, FlushOK, Inside
  <2>4. FlushOK(t)'
    BY <1>1, <1>3, <1>4, <2>1 DEF ThreadOK, FlushOK
  <2>5. SlotOK(t)'
    BY <1>4 DEF SlotOK
  <2>6. ReentryOK(t)'
    BY <1>2, <1>3, <1>4 DEF ReentryOK
  <2> QED  BY <2>3, <2>4, <2>5, <2>6 DEF ThreadOK
<1>9. OthersStay(t) /\ Disciplined(t)
  BY <1>3, <1>4 DEF OthersStay, Disciplined
<1> QED  BY <1>1, <1>3, <1>5, <1>7, <1>8, <1>9, StepIInv

\* The two finally blocks.
LEMMA UnlockOrThrowOK ==
    ASSUME IInv, NEW t \in Actors, UnlockOrThrow(t)
    PROVE  /\ owner = t => /\ holds' = holds - 1
                           /\ owner' = IF holds = 1 THEN NoOne ELSE t
           /\ owner # t => owner' = owner /\ holds' = holds
           /\ MxTyped' /\ (owner' = NoOne <=> holds' = 0)
<1>1. /\ owner \in Actors \cup {NoOne} /\ holds \in 0 .. 2
      /\ (owner = NoOne <=> holds = 0) /\ NoOne # t
  BY ConstantsAssumption DEF IInv, TypeOK, MxTyped
<1>2. CASE owner = t
  BY <1>1, <1>2 DEF UnlockOrThrow, Release, MxTyped
<1>3. CASE owner # t
  BY <1>1, <1>3 DEF UnlockOrThrow, MxTyped
<1> QED  BY <1>2, <1>3

LEMMA FlushFinallyIInv ==
    ASSUME IInv, NEW t \in Actors, FlushFinally(t)
    PROVE  IInv'
<1> USE ConstantsAssumption
<1>1. TypeOK /\ LocalsTyped /\ ThreadOK(t) /\ at[t].pc = "ffail" /\ NoOne # t
  BY DEF FlushFinally, IInv, TypeOK
<1>2. saved[t] = << >> /\ flag[t] /\ Faults
  BY <1>1 DEF ThreadOK, ReentryOK, FlushOK
<1>3. /\ UNCHANGED <<flag, ptr, buf, idMap, nextId, witness, trace, made, halted, log,
                     base, broken, cut>>
      /\ IF t = Hook THEN Leave(t) ELSE Goto(t, "fail") /\ UNCHANGED saved
  BY DEF FlushFinally
<1>4. /\ at' \in [Actors -> Frame] /\ saved' \in [Actors -> Seq(Frame)]
      /\ \A u \in Actors \ {t} : at'[u] = at[u] /\ saved'[u] = saved[u]
      /\ at'[t].pc = IF t = Hook THEN "done" ELSE "fail"
      /\ saved'[t] = << >>
  <2>1. CASE t = Hook
    BY <1>1, <1>3, <2>1, LeaveLocals
  <2>2. CASE t # Hook
    BY <1>1, <1>2, <1>3, <2>2, FailLocals
  <2> QED  BY <2>1, <2>2
<1>5. /\ owner = t => /\ holds' = holds - 1
                      /\ owner' = IF holds = 1 THEN NoOne ELSE t
      /\ owner # t => owner' = owner /\ holds' = holds
      /\ MxTyped' /\ (owner' = NoOne <=> holds' = 0)
  BY UnlockOrThrowOK DEF FlushFinally
<1>6. TypeOK'
  BY <1>1, <1>3, <1>4, <1>5 DEF TypeOK, LocalsTyped, BuffersTyped, IdsTyped, HistoryTyped
<1>7. ThreadOK(t)'
  <2>1. owner = t => holds \in 1 .. (IF t = Hook THEN 1 ELSE 2)
    BY <1>1 DEF ThreadOK, MxOK
  <2>2. CASE t = Hook
    <3>1. owner' # t
      BY <1>1, <1>5, <2>1, <2>2
    <3> QED  BY <1>2, <1>3, <1>4, <2>2, <3>1
             DEF ThreadOK, MxOK, FlushOK, SlotOK, ReentryOK, Inside
  <2>3. CASE t # Hook
    <3>1. owner' = t => holds' = 1
      BY <1>1, <1>5, <2>1, <2>3
    <3> QED  BY <1>2, <1>3, <1>4, <2>3, <3>1
             DEF ThreadOK, MxOK, FlushOK, SlotOK, ReentryOK, Inside
  <2> QED  BY <2>2, <2>3
<1>8. IdsOK'
  BY <1>3 DEF IInv, IdsOK, IdsDistinct
<1>9. OthersStay(t) /\ Disciplined(t)
  BY <1>1, <1>3, <1>4, <1>5 DEF OthersStay, Disciplined
<1> QED  BY <1>5, <1>6, <1>7, <1>8, <1>9, StepIInv

LEMMA HandlerFinallyIInv ==
    ASSUME IInv, NEW t \in Actors, HandlerFinally(t)
    PROVE  IInv'
<1> USE ConstantsAssumption
<1>1. TypeOK /\ LocalsTyped /\ ThreadOK(t) /\ at[t].pc = "fail" /\ NoOne # t
  BY DEF HandlerFinally, IInv, TypeOK
<1>2. flag[t] /\ t # Hook
  BY <1>1 DEF ThreadOK, ReentryOK, FlushOK
<1>3. UNCHANGED <<flag, ptr, buf, idMap, nextId, witness, trace, made, halted, log,
                  base, broken, cut>>
  BY DEF HandlerFinally
<1>4. /\ at' \in [Actors -> Frame] /\ saved' \in [Actors -> Seq(Frame)]
      /\ \A u \in Actors \ {t} : at'[u] = at[u] /\ saved'[u] = saved[u]
      /\ at'[t].pc = "app"
      /\ saved'[t] = << >>
  BY <1>1, <1>2, LeaveLocals DEF HandlerFinally
<1>5. /\ owner = t => /\ holds' = holds - 1
                      /\ owner' = IF holds = 1 THEN NoOne ELSE t
      /\ owner # t => owner' = owner /\ holds' = holds
      /\ MxTyped' /\ (owner' = NoOne <=> holds' = 0)
  BY UnlockOrThrowOK DEF HandlerFinally
<1>6. TypeOK'
  BY <1>1, <1>3, <1>4, <1>5 DEF TypeOK, LocalsTyped, BuffersTyped, IdsTyped, HistoryTyped
<1>7. ThreadOK(t)'
  <2>1. owner' # t
    BY <1>1, <1>5 DEF ThreadOK, MxOK
  <2> QED  BY <1>2, <1>3, <1>4, <2>1
           DEF ThreadOK, MxOK, FlushOK, SlotOK, ReentryOK, Inside
<1>8. IdsOK'
  BY <1>3 DEF IInv, IdsOK, IdsDistinct
<1>9. OthersStay(t) /\ Disciplined(t)
  BY <1>1, <1>3, <1>4, <1>5 DEF OthersStay, Disciplined
<1> QED  BY <1>5, <1>6, <1>7, <1>8, <1>9, StepIInv

------------------------------------------------------------------------------
(* The theorems.                                                           *)

LEMMA StutterIInv ==
    ASSUME IInv, UNCHANGED vars
    PROVE  IInv'
<1>1. TypeOK'
  BY DEF IInv, vars, TypeOK, LocalsTyped, MxTyped, BuffersTyped, IdsTyped, HistoryTyped
<1>2. \A t \in Actors : ThreadOK(t)'
  BY DEF IInv, vars, ThreadOK, MxOK, FlushOK, SlotOK, ReentryOK
<1>3. IdsOK' /\ (owner = NoOne <=> holds = 0)'
  BY DEF IInv, vars, IdsOK, IdsDistinct
<1> QED  BY <1>1, <1>2, <1>3 DEF IInv

LEMMA HaltIInv ==
    ASSUME IInv, Halt
    PROVE  IInv'
<1>1. TypeOK'
  BY DEF Halt, IInv, TypeOK, LocalsTyped, MxTyped, BuffersTyped, IdsTyped, HistoryTyped
<1>2. \A t \in Actors : ThreadOK(t)'
  BY DEF Halt, IInv, ThreadOK, MxOK, FlushOK, SlotOK, ReentryOK
<1>3. IdsOK' /\ (owner = NoOne <=> holds = 0)'
  BY DEF Halt, IInv, IdsOK, IdsDistinct
<1> QED  BY <1>1, <1>2, <1>3 DEF IInv

LEMMA NextIInv ==
    ASSUME IInv, [Next]_vars
    PROVE  IInv'
<1>1. ASSUME NEW t \in Threads, NEW c \in Calls, Enter(t, c) PROVE IInv'
  <2>1. CASE InHandler(t)
    BY <1>1, <2>1, StutterIInv DEF Enter
  <2>2. CASE ~InHandler(t)
    BY <1>1, <2>2, EnterIInv
  <2> QED  BY <2>1, <2>2
<1>2. ASSUME NEW t \in Actors, HandlerStep(t) PROVE IInv'
  BY <1>2, LockIInv, CheckIInv, ClaimIInv, StoreIInv, PutIInv, UnlockIInv, ClearIInv,
     FlushLockIInv, FlushRecordIInv, FlushResetIInv, FlushUnlockIInv,
     FlushFinallyIInv, HandlerFinallyIInv DEF HandlerStep
<1>3. ASSUME NEW t \in Actors, Throw(t) PROVE IInv'
  BY <1>3, ThrowIInv
<1>4. CASE HookStart
  BY <1>4, HookStartIInv
<1>5. CASE Halt
  BY <1>5, HaltIInv
<1>6. CASE Halted \/ UNCHANGED vars
  BY <1>6, StutterIInv DEF Halted
<1> QED  BY <1>1, <1>2, <1>3, <1>4, <1>5, <1>6 DEF Next

LEMMA Inductive == Spec => []IInv
<1> QED  BY InitIInv, NextIInv, PTL DEF Spec

\* ptr stays in the buffers, mx is never held more than twice, and the maps,
\* the buffers and the file hold what the code puts there.
THEOREM TypeCorrect == Spec => []TypeOK
<1> QED  BY Inductive, IInvImplies, PTL

\* Whatever the threads do, the buffers are read and written by the owner of
\* mx only, even when handlers are left by Errors.
THEOREM LockDiscipline == Spec => []MxProtects
<1> QED  BY Inductive, IInvImplies, PTL

\* No handler runs inside another one of the same thread.
THEOREM NoReentrantHandler == Spec => []NoReentry
<1> QED  BY Inductive, IInvImplies, PTL

\* Two identity hashes never share an id.
THEOREM DistinctIds == Spec => []IdsDistinct
<1> QED  BY Inductive, IInvImplies, PTL

\* A step that can touch the ids leaves those that were given out.
LEMMA StepKeepsIds ==
    ASSUME IInv, [Next]_vars
    PROVE  \A h \in Hashes : idMap[h] # 0 => idMap'[h] = idMap[h]
<1>1. IdsTyped /\ IdsOK
  BY DEF IInv, TypeOK
<1>2. ASSUME NEW t \in Actors, Store(t)
      PROVE  \A h \in Hashes : idMap[h] # 0 => idMap'[h] = idMap[h]
  <2> DEFINE s == Stores(t, at[t].call)[at[t].step]
  <2>1. ThreadOK(t) /\ at[t].call \in Calls
    BY DEF IInv, TypeOK, LocalsTyped, Frame
  <2>2. /\ Stores(t, at[t].call) \in Seq(Assignment)
        /\ at[t].step \in 1 .. Len(Stores(t, at[t].call))
    BY <1>2, <2>1, StoresType DEF Store, ThreadOK, SlotOK
  <2>3. s \in Assignment
    BY <2>2
  <2>4. CASE s.isRef
    BY <1>1, <1>2, <2>3, <2>4, ObjectIdOK DEF Store, Assignment
  <2>5. CASE ~s.isRef
    BY <1>2, <2>5 DEF Store
  <2> QED  BY <2>4, <2>5
<1>3. ASSUME NEW t \in Actors, Put(t)
      PROVE  \A h \in Hashes : idMap[h] # 0 => idMap'[h] = idMap[h]
  <2>1. at[t].call.obj \in Objects
    BY ConstantsAssumption DEF IInv, TypeOK, LocalsTyped, Frame, CallType
  <2> QED  BY <1>1, <1>3, <2>1, ObjectIdOK DEF Put
<1>4. ASSUME NEW t \in Actors, Throw(t)
      PROVE  \A h \in Hashes : idMap[h] # 0 => idMap'[h] = idMap[h]
  BY <1>4, ThrowIds
<1>5. \/ idMap' = idMap
      \/ \E t \in Actors : Store(t) \/ Put(t) \/ Throw(t)
  BY DEF Next, HandlerStep, Enter, Lock, Check, Claim, Unlock, Clear, FlushLock,
         FlushRecord, FlushReset, FlushUnlock, FlushFinally, HandlerFinally,
         HookStart, Halt, Halted, vars
<1> QED  BY <1>2, <1>3, <1>4, <1>5

\* An object keeps its id for the whole run of the program.
THEOREM StableIds == Spec => IdsKept
<1> QED  BY Inductive, StepKeepsIds, PTL DEF Spec, IdsKept

------------------------------------------------------------------------------
(* The records.  The second invariant says what the slots and the file hold *)
(* for the claims in the log.  Core holds whether there are Errors or not;  *)
(* on it rest what is not lost when there are, and the whole file when      *)
(* there are none.                                                          *)

\* What an assignment writes; the id it needs, if any, has been given out.
Value(s) == IF s.isRef THEN idMap[Hash[s.ref]] ELSE s.val
Known(s) == s.isRef => idMap[Hash[s.ref]] # 0

\* Every assignment of a record but the one to dims has been made in slot j.
Made(j, t, c) ==
    \A p \in 1 .. Len(Stores(t, c)) :
       LET s == Stores(t, c)[p] IN
       Known(s) /\ (s.field # "dims" => buf[s.field][j] = Value(s))

\* The one to dims, which only arrays have.
DimsMade(j, t, c) ==
    \A p \in 1 .. Len(Stores(t, c)) :
       LET s == Stores(t, c)[p] IN s.field = "dims" => buf["dims"][j] = Value(s)

\* The ids the record of claim k needs; its slot; its line.
Complete(k) ==
    \A p \in 1 .. Len(Stores(log[k].thread, log[k].call)) :
       Known(Stores(log[k].thread, log[k].call)[p])

SlotMade(k) == Made(k - base - 1, log[k].thread, log[k].call)
DimsIn(k)   == DimsMade(k - base - 1, log[k].thread, log[k].call)
InFile(k)   == \E j \in 1 .. Len(trace) : trace[j] = IdLine(k)

Whole == (1 .. Filled) \ broken
Sound == (1 .. Filled) \ (broken \cup {b + 1 : b \in broken} \cup cut)

\* A thread that fills a slot fills the newest one, with its own call.
WriterOK(t) ==
    at[t].pc = "store" =>
       /\ at[t].slot = ptr - 1
       /\ log[Len(log)] = [thread |-> t, call |-> at[t].call]
       /\ \A p \in 1 .. at[t].step - 1 :
             LET s == Stores(t, at[t].call)[p] IN
             Known(s) /\ buf[s.field][at[t].slot] = Value(s)

\* The witness handler, and no other, records nothing in the buffers.
RecorderOK(t) ==
    t \in Threads =>
       /\ at[t].pc \in {"check", "claim", "store", "flock", "flush", "funlock"} => Recording(t)
       /\ at[t].pc = "put" => ~Recording(t)

\* A flush covers the slots in use.
FlusherOK(t) == at[t].pc = "flush" => at[t].size = ptr /\ at[t].i <= ptr

LogOK ==
    /\ ptr = Len(log) - base
    /\ \A k \in 1 .. Len(log) : /\ log[k].thread \in Threads
                                /\ log[k].call.op # "witnessObjectAliveVer2"

RecordsOK == \A k \in Whole : Complete(k) /\ (k > base => SlotMade(k))

Core ==
    /\ \A t \in Actors : WriterOK(t) /\ RecorderOK(t) /\ FlusherOK(t)
    /\ LogOK
    /\ RecordsOK

\* A sound record is in the file or it is still to be flushed, dims included.
SoundOK == \A k \in Sound : InFile(k) \/ (k > base + Flushed /\ DimsIn(k))

\* The file ends in a text without newline only where the next line to be
\* printed may be lost: it follows a broken record, it is one that an Error cut
\* in its line, or it is there already.
TailOK ==
    trace # << >> /\ Open(trace[Len(trace)]) =>
       \/ base + Flushed \in broken
       \/ Flushed = 0 /\ base + 1 \in 1 .. Filled /\ (base + 1 \in Sound => InFile(base + 1))

Kept == SoundOK /\ TailOK

\* Without Errors the file is the log up to the flush, and the slots the rest.
Exact ==
    /\ broken = {}
    /\ Len(trace) = base + Flushed
    /\ \A k \in 1 .. Len(trace) : trace[k] = IdLine(k)
    /\ \A k \in Len(trace) + 1 .. Filled : DimsIn(k)

\* What flushBuffer prints for a slot that is filled is the line of the call.
LEMMA PrintedIsLine ==
    ASSUME NEW j \in Slots, NEW t \in Actors, NEW c \in Calls,
           c.op # "witnessObjectAliveVer2", Made(j, t, c)
    PROVE  /\ Printed(j).kind = Line(t, c, ObjectId, 0).kind
           /\ DimsMade(j, t, c) => Printed(j) = Line(t, c, ObjectId, 0)
<1>0. t \in Objects /\ c \in CallType /\ Null \in Objects
  BY ConstantsAssumption
<1> DEFINE id(o) == idMap[Hash[o]]
<1>1. \A o \in Objects : ObjectId[o] = id(o)
  BY DEF ObjectId
<1>2. ASSUME NEW p \in 1 .. Len(Stores(t, c))
      PROVE  /\ Known(Stores(t, c)[p])
             /\ Stores(t, c)[p].field # "dims" =>
                   buf[Stores(t, c)[p].field][j] = Value(Stores(t, c)[p])
  BY DEF Made
<1>3. CASE c.op = "onEntry"
  <2>1. Stores(t, c) = EntryStores(t, c)
    BY <1>3 DEF Stores
  <2>2. 1 \in 1 .. Len(Stores(t, c)) /\ 2 \in 1 .. Len(Stores(t, c)) /\ 3 \in 1 .. Len(Stores(t, c))
        /\ 4 \in 1 .. Len(Stores(t, c))
    BY <2>1 DEF EntryStores
  <2>3. /\ buf["first"][j] = c.id
        /\ buf["second"][j] = IF c.obj = Null THEN 0 ELSE id(c.obj)
        /\ buf["type"][j] = 1 /\ buf["tid"][j] = id(t)
    BY <1>2, <2>1, <2>2 DEF EntryStores, Set, SetId, Value
  <2>4. Printed(j) = [kind |-> "M", args |-> <<c.id, IF c.obj = Null THEN 0 ELSE id(c.obj), id(t)>>]
    BY <2>3 DEF Printed
  <2>5. Line(t, c, ObjectId, 0) = Printed(j)
    BY <1>0, <1>1, <1>3, <2>4 DEF Line, CallType
  <2> QED  BY <2>5
<1>4. CASE c.op = "onExit"
  <2>1. Stores(t, c) = ExitStores(t, c)
    BY <1>4 DEF Stores
  <2>2. 1 \in 1 .. Len(Stores(t, c)) /\ 2 \in 1 .. Len(Stores(t, c)) /\ 3 \in 1 .. Len(Stores(t, c))
    BY <2>1 DEF ExitStores
  <2>3. buf["first"][j] = c.id /\ buf["type"][j] = 2 /\ buf["tid"][j] = id(t)
    BY <1>2, <2>1, <2>2 DEF ExitStores, Set, SetId, Value
  <2>4. Printed(j) = [kind |-> "E", args |-> <<c.id, id(t)>>]
    BY <2>3 DEF Printed
  <2>5. Line(t, c, ObjectId, 0) = Printed(j)
    BY <1>0, <1>1, <1>4, <2>4 DEF Line, CallType
  <2> QED  BY <2>5
<1>5. CASE c.op = "onObjectAlloc"
  <2>1. Stores(t, c) = AllocStores(t, c)
    BY <1>5 DEF Stores
  <2>2. \A p \in 1 .. 6 : p \in 1 .. Len(Stores(t, c))
    BY <2>1 DEF AllocStores
  <2>3. /\ buf["first"][j] = id(c.obj) /\ buf["type"][j] = 3 /\ buf["second"][j] = c.id
        /\ buf["third"][j] = c.site /\ buf["fourth"][j] = c.size /\ buf["tid"][j] = id(t)
    <3>1. 1 \in 1 .. 6 /\ 2 \in 1 .. 6 /\ 3 \in 1 .. 6 /\ 4 \in 1 .. 6 /\ 5 \in 1 .. 6 /\ 6 \in 1 .. 6
      OBVIOUS
    <3> QED  BY <1>2, <2>1, <2>2, <3>1 DEF AllocStores, Set, SetId, Value
  <2>4. Printed(j) = [kind |-> "N", args |-> <<id(c.obj), c.size, c.id, c.site, 0, id(t)>>]
    BY <2>3 DEF Printed
  <2>5. Line(t, c, ObjectId, 0) = Printed(j)
    BY <1>0, <1>1, <1>5, <2>4 DEF Line, CallType
  <2> QED  BY <2>5
<1>6. CASE c.op = "onPutField"
  <2>1. Stores(t, c) = PutFieldStores(t, c)
    BY <1>6 DEF Stores
  <2>2. \A p \in 1 .. 5 : p \in 1 .. Len(Stores(t, c))
    BY <2>1 DEF PutFieldStores
  <2>3. /\ buf["first"][j] = id(c.tgt) /\ buf["type"][j] = 7 /\ buf["second"][j] = c.id
        /\ buf["third"][j] = id(c.obj) /\ buf["tid"][j] = id(t)
    <3>1. 1 \in 1 .. 5 /\ 2 \in 1 .. 5 /\ 3 \in 1 .. 5 /\ 4 \in 1 .. 5 /\ 5 \in 1 .. 5
      OBVIOUS
    <3> QED  BY <1>2, <2>1, <2>2, <3>1 DEF PutFieldStores, Set, SetId, Value
  <2>4. Printed(j) = [kind |-> "U", args |-> <<id(c.obj), id(c.tgt), c.id, id(t)>>]
    BY <2>3 DEF Printed
  <2>5. Line(t, c, ObjectId, 0) = Printed(j)
    BY <1>0, <1>1, <1>6, <2>4 DEF Line, CallType
  <2> QED  BY <2>5
<1>7. CASE c.op = "onArrayAlloc"
  <2>1. Stores(t, c) = ArrayStores(t, c)
    BY <1>7 DEF Stores
  <2>2. \A p \in 1 .. 8 : p \in 1 .. Len(Stores(t, c))
    BY <2>1 DEF ArrayStores
  <2>3. /\ buf["type"][j] = 4 /\ buf["first"][j] = id(c.obj) /\ buf["second"][j] = c.id
        /\ buf["third"][j] = c.len /\ buf["fourth"][j] = c.size /\ buf["fifth"][j] = c.site
        /\ buf["tid"][j] = id(t)
    <3>1. 1 \in 1 .. 8 /\ 2 \in 1 .. 8 /\ 3 \in 1 .. 8 /\ 4 \in 1 .. 8 /\ 5 \in 1 .. 8
          /\ 6 \in 1 .. 8 /\ 7 \in 1 .. 8
      OBVIOUS
    <3> QED  BY <1>2, <2>1, <2>2, <3>1 DEF ArrayStores, Set, SetId, Value
  <2>4. DimsMade(j, t, c) => buf["dims"][j] = c.dims
    BY <2>1, <2>2 DEF DimsMade, ArrayStores, Set, SetId, Value
  <2>5. Printed(j) = [kind |-> "A", args |-> <<id(c.obj), c.size, c.id, c.site, c.len, id(t),
                                              buf["dims"][j]>>]
    BY <2>3 DEF Printed
  <2>6. Line(t, c, ObjectId, 0) =
          [kind |-> "A", args |-> <<id(c.obj), c.size, c.id, c.site, c.len, id(t), c.dims>>]
    BY <1>0, <1>1, <1>7 DEF Line, CallType
  <2> QED  BY <2>4, <2>5, <2>6
<1> QED  BY <1>0, <1>3, <1>4, <1>5, <1>6, <1>7 DEF CallType, Handlers

\* Ids that are given out stay, and so do the lines that name them.
IdsStay == \A h \in Hashes : idMap[h] # 0 => idMap'[h] = idMap[h]

LEMMA KnownStays ==
    ASSUME IdsStay, NEW s \in Assignment, Known(s)
    PROVE  Known(s)' /\ Value(s)' = Value(s)
<1>1. s.isRef => Hash[s.ref] \in Hashes
  BY DEF Assignment, Hashes
<1> QED  BY <1>1 DEF IdsStay, Known, Value

LEMMA LineStays ==
    ASSUME NEW t \in Actors, NEW c \in Calls, c.op # "witnessObjectAliveVer2", IdsStay,
           \A p \in 1 .. Len(Stores(t, c)) : Known(Stores(t, c)[p])
    PROVE  Line(t, c, ObjectId', 0) = Line(t, c, ObjectId, 0)
<1>0. t \in Objects /\ c \in CallType /\ Null \in Objects
  BY ConstantsAssumption
<1>1. ASSUME NEW o \in Objects, idMap[Hash[o]] # 0 PROVE ObjectId'[o] = ObjectId[o]
  BY <1>1 DEF ObjectId, IdsStay, Hashes
<1>2. ASSUME NEW p \in 1 .. Len(Stores(t, c)), Stores(t, c)[p].isRef
      PROVE  idMap[Hash[Stores(t, c)[p].ref]] # 0
  BY <1>2 DEF Known
<1>3. CASE c.op = "onEntry"
  <2>1. Stores(t, c) = EntryStores(t, c)
    BY <1>3 DEF Stores
  <2>2. 2 \in 1 .. Len(Stores(t, c)) /\ 4 \in 1 .. Len(Stores(t, c))
    BY <2>1 DEF EntryStores
  <2>3. (c.obj # Null => ObjectId'[c.obj] = ObjectId[c.obj]) /\ ObjectId'[t] = ObjectId[t]
    BY <1>0, <1>1, <1>2, <2>1, <2>2 DEF EntryStores, Set, SetId, CallType
  <2> QED  BY <1>3, <2>3 DEF Line
<1>4. CASE c.op = "onExit"
  <2>1. Stores(t, c) = ExitStores(t, c)
    BY <1>4 DEF Stores
  <2>2. 3 \in 1 .. Len(Stores(t, c))
    BY <2>1 DEF ExitStores
  <2>3. ObjectId'[t] = ObjectId[t]
    BY <1>0, <1>1, <1>2, <2>1, <2>2 DEF ExitStores, Set, SetId
  <2> QED  BY <1>4, <2>3 DEF Line
<1>5. CASE c.op = "onObjectAlloc"
  <2>1. Stores(t, c) = AllocStores(t, c)
    BY <1>5 DEF Stores
  <2>2. 1 \in 1 .. Len(Stores(t, c)) /\ 6 \in 1 .. Len(Stores(t, c))
    BY <2>1 DEF AllocStores
  <2>3. ObjectId'[c.obj] = ObjectId[c.obj] /\ ObjectId'[t] = ObjectId[t]
    BY <1>0, <1>1, <1>2, <2>1, <2>2 DEF AllocStores, Set, SetId, CallType
  <2> QED  BY <1>5, <2>3 DEF Line
<1>6. CASE c.op = "onPutField"
  <2>1. Stores(t, c) = PutFieldStores(t, c)
    BY <1>6 DEF Stores
  <2>2. 2 \in 1 .. Len(Stores(t, c)) /\ 4 \in 1 .. Len(Stores(t, c)) /\ 5 \in 1 .. Len(Stores(t, c))
    BY <2>1 DEF PutFieldStores
  <2>3. /\ ObjectId'[c.obj] = ObjectId[c.obj] /\ ObjectId'[c.tgt] = ObjectId[c.tgt]
        /\ ObjectId'[t] = ObjectId[t]
    BY <1>0, <1>1, <1>2, <2>1, <2>2 DEF PutFieldStores, Set, SetId, CallType
  <2> QED  BY <1>6, <2>3 DEF Line
<1>7. CASE c.op = "onArrayAlloc"
  <2>1. Stores(t, c) = ArrayStores(t, c)
    BY <1>7 DEF Stores
  <2>2. 2 \in 1 .. Len(Stores(t, c)) /\ 7 \in 1 .. Len(Stores(t, c))
    BY <2>1 DEF ArrayStores
  <2>3. ObjectId'[c.obj] = ObjectId[c.obj] /\ ObjectId'[t] = ObjectId[t]
    BY <1>0, <1>1, <1>2, <2>1, <2>2 DEF ArrayStores, Set, SetId, CallType
  <2> QED  BY <1>7, <2>3 DEF Line
<1> QED  BY <1>0, <1>3, <1>4, <1>5, <1>6, <1>7 DEF CallType, Handlers

------------------------------------------------------------------------------
\* Filled and Flushed, read off the thread that writes or flushes: there is at
\* most one, since it owns mx.
CountsOK ==
    /\ Filled \in 0 .. Len(log) /\ Flushed \in Nat
    /\ \A t \in Actors : /\ at[t].pc = "store" => Filled = Len(log) - 1
                         /\ at[t].pc = "flush" => Flushed = at[t].i
    /\ (\A t \in Actors : at[t].pc # "store") => Filled = Len(log)
    /\ (\A t \in Actors : at[t].pc # "flush") => Flushed = 0
    /\ \A t, u \in Actors : at[t].pc \in Inside /\ at[u].pc \in Inside => t = u

LEMMA CountsKnown == IInv => CountsOK
<1> SUFFICES ASSUME IInv PROVE CountsOK
  OBVIOUS
<1>1. Len(log) \in Nat /\ \A t \in Actors : at[t].i \in Nat
  BY DEF IInv, TypeOK, HistoryTyped, LocalsTyped, Frame
<1>2. \A t \in Actors : MxOK(t) /\ SlotOK(t) /\ NoOne # t
  BY ConstantsAssumption DEF IInv, ThreadOK
<1>3. \A t, u \in Actors : at[t].pc \in Inside /\ at[u].pc \in Inside => t = u
  BY <1>2 DEF MxOK
<1>4. \A t \in Actors : at[t].pc = "store" => Len(log) >= 1 /\ Filled = Len(log) - 1
  BY <1>2 DEF SlotOK, Filled
<1>5. (\A t \in Actors : at[t].pc # "store") => Filled = Len(log)
  BY DEF Filled
<1>6. \A t \in Actors : at[t].pc = "flush" => Flushed = at[t].i
  BY <1>2 DEF MxOK, Inside, Flushed
<1>7. (\A t \in Actors : at[t].pc # "flush") => Flushed = 0
  <2>1. owner \in Actors \cup {NoOne}
    BY DEF IInv, TypeOK, MxTyped
  <2> QED  BY <2>1 DEF Flushed
<1>8. Filled \in 0 .. Len(log) /\ Flushed \in Nat
  BY <1>1, <1>4, <1>5, <1>6, <1>7
<1> QED  BY <1>3, <1>4, <1>5, <1>6, <1>7, <1>8 DEF CountsOK

LEMMA CountsKnownNext == IInv' => CountsOK'
<1> QED  BY CountsKnown, PTL

\* A step of t moves the counts only when t starts or ends a record or a flush.
LEMMA CountsStay ==
    ASSUME IInv, IInv', NEW t \in Actors, \A u \in Actors \ {t} : at'[u] = at[u]
    PROVE  /\ log' = log /\ (at[t].pc = "store" <=> at'[t].pc = "store") => Filled' = Filled
           /\ at[t].pc # "flush" /\ at'[t].pc # "flush" => Flushed' = Flushed
<1>1. CountsOK /\ CountsOK'
  BY CountsKnown, CountsKnownNext
<1>2. ASSUME log' = log, at[t].pc = "store" <=> at'[t].pc = "store"
      PROVE  Filled' = Filled
  <2>1. CASE \E u \in Actors : at[u].pc = "store"
    <3>1. PICK u \in Actors : at[u].pc = "store"
      BY <2>1
    <3>2. at'[u].pc = "store"
      BY <1>2, <3>1
    <3> QED  BY <1>1, <1>2, <3>1, <3>2 DEF CountsOK
  <2>2. CASE \A u \in Actors : at[u].pc # "store"
    <3>1. \A u \in Actors : at'[u].pc # "store"
      BY <1>2, <2>2
    <3> QED  BY <1>1, <1>2, <2>2, <3>1 DEF CountsOK
  <2> QED  BY <2>1, <2>2
<1>3. ASSUME at[t].pc # "flush", at'[t].pc # "flush"
      PROVE  Flushed' = Flushed
  <2>1. CASE \E u \in Actors : at[u].pc = "flush"
    <3>1. PICK u \in Actors : at[u].pc = "flush"
      BY <2>1
    <3>2. at'[u] = at[u]
      BY <1>3, <3>1
    <3> QED  BY <1>1, <3>1, <3>2 DEF CountsOK
  <2>2. CASE \A u \in Actors : at[u].pc # "flush"
    <3>1. \A u \in Actors : at'[u].pc # "flush"
      BY <1>3, <2>2
    <3> QED  BY <1>1, <2>2, <3>1 DEF CountsOK
  <2> QED  BY <2>1, <2>2
<1> QED  BY <1>2, <1>3

------------------------------------------------------------------------------
(* What a step leaves true of the records it does not write.               *)

\* The typing facts about a claim that the proofs below need.
LEMMA ClaimTyped ==
    ASSUME IInv, NEW k \in 1 .. Len(log)
    PROVE  log[k].thread \in Actors /\ log[k].call \in Calls
<1>1. log \in Seq([thread : Actors, call : Calls])
  BY DEF IInv, TypeOK, HistoryTyped
<1>2. log[k] \in [thread : Actors, call : Calls]
  BY ONLY <1>1, k \in 1 .. Len(log), ElementOfSeq
<1> QED  BY <1>2

LEMMA MadeStays ==
    ASSUME NEW j, NEW t \in Actors, NEW c \in Calls, IdsStay,
           \A p \in 1 .. Len(Stores(t, c)) : Known(Stores(t, c)[p])
    PROVE  /\ \A p \in 1 .. Len(Stores(t, c)) : Known(Stores(t, c)[p])'
           /\ Made(j, t, c) /\ (\A f \in Fields \ {"dims"} : buf'[f][j] = buf[f][j])
              => Made(j, t, c)'
           /\ DimsMade(j, t, c) /\ buf'["dims"][j] = buf["dims"][j] => DimsMade(j, t, c)'
<1>1. Stores(t, c) \in Seq(Assignment)
  BY StoresType
<1>2. ASSUME NEW p \in 1 .. Len(Stores(t, c))
      PROVE  /\ Stores(t, c)[p] \in Assignment /\ Stores(t, c)[p].field \in Fields
             /\ Known(Stores(t, c)[p])'
             /\ Value(Stores(t, c)[p])' = Value(Stores(t, c)[p])
  <2>1. Stores(t, c)[p] \in Assignment
    BY <1>1
  <2> QED  BY <2>1, KnownStays DEF Assignment
<1>3. \A p \in 1 .. Len(Stores(t, c)) : Known(Stores(t, c)[p])'
  BY <1>2
<1>4. ASSUME Made(j, t, c), \A f \in Fields \ {"dims"} : buf'[f][j] = buf[f][j]
      PROVE  Made(j, t, c)'
  BY <1>2, <1>4 DEF Made
<1>5. ASSUME DimsMade(j, t, c), buf'["dims"][j] = buf["dims"][j]
      PROVE  DimsMade(j, t, c)'
  BY <1>2, <1>5 DEF DimsMade
<1> QED  BY <1>3, <1>4, <1>5

\* A record whose slot, if it has one, is not written to.
LEMMA RecordStays ==
    ASSUME IInv, LogOK, IdsStay, NEW k \in 1 .. Len(log), Complete(k),
           log'[k] = log[k]
    PROVE  /\ Complete(k)' /\ IdLine(k)' = IdLine(k)
           /\ base' = base /\ SlotMade(k)
              /\ (\A f \in Fields \ {"dims"} : buf'[f][k - base - 1] = buf[f][k - base - 1])
              => SlotMade(k)'
           /\ base' = base /\ DimsIn(k) /\ buf'["dims"][k - base - 1] = buf["dims"][k - base - 1]
              => DimsIn(k)'
<1>1. PICK t \in Actors, c \in Calls : t = log[k].thread /\ c = log[k].call
  BY ClaimTyped
<1>2. c.op # "witnessObjectAliveVer2"
  BY <1>1 DEF LogOK
<1>3. log'[k].thread = t /\ log'[k].call = c
  BY <1>1
<1>4. \A p \in 1 .. Len(Stores(t, c)) : Known(Stores(t, c)[p])
  BY <1>1 DEF Complete
<1>5. Complete(k)'
  <2>1. \A p \in 1 .. Len(Stores(t, c)) : Known(Stores(t, c)[p])'
    BY <1>4, MadeStays
  <2> QED  BY <1>3, <2>1 DEF Complete
<1>6. IdLine(k)' = IdLine(k)
  <2>1. Line(t, c, ObjectId', 0) = Line(t, c, ObjectId, 0)
    BY <1>2, <1>4, LineStays
  <2> QED  BY <1>1, <1>3, <2>1 DEF IdLine
<1>7. ASSUME base' = base, SlotMade(k),
             \A f \in Fields \ {"dims"} : buf'[f][k - base - 1] = buf[f][k - base - 1]
      PROVE  SlotMade(k)'
  <2>1. PICK j : j = k - base - 1
    OBVIOUS
  <2>2. Made(j, t, c)
    BY <1>1, <1>7, <2>1 DEF SlotMade
  <2>3. Made(j, t, c)'
    BY <1>4, <1>7, <2>1, <2>2, MadeStays
  <2>4. j = k - base' - 1
    BY <1>7, <2>1
  <2> QED  BY <1>3, <2>3, <2>4 DEF SlotMade, Made
<1>8. ASSUME base' = base, DimsIn(k), buf'["dims"][k - base - 1] = buf["dims"][k - base - 1]
      PROVE  DimsIn(k)'
  <2>1. PICK j : j = k - base - 1
    OBVIOUS
  <2>2. DimsMade(j, t, c)
    BY <1>1, <1>8, <2>1 DEF DimsIn
  <2>3. DimsMade(j, t, c)'
    BY <1>4, <1>8, <2>1, <2>2, MadeStays
  <2>4. j = k - base' - 1
    BY <1>8, <2>1
  <2> QED  BY <1>3, <2>3, <2>4 DEF DimsIn, DimsMade
<1> QED  BY <1>5, <1>6, <1>7, <1>8

\* What has been flushed is filled.
LEMMA FlushedInLog ==
    ASSUME IInv, Core
    PROVE  base + Flushed <= Filled
<1>1. base \in Nat /\ ptr \in Nat /\ Len(log) \in Nat /\ ptr = Len(log) - base
  BY DEF IInv, TypeOK, HistoryTyped, BuffersTyped, Core, LogOK
<1>2. CountsOK
  BY CountsKnown
<1>3. CASE \E t \in Actors : at[t].pc = "flush"
  <2>1. PICK t \in Actors : at[t].pc = "flush"
    BY <1>3
  <2>2. Flushed = at[t].i /\ at[t].i <= ptr /\ at[t].i \in Nat
    BY <1>2, <2>1 DEF CountsOK, Core, FlusherOK
  <2>3. \A u \in Actors : at[u].pc # "store"
    BY <1>2, <2>1 DEF CountsOK, Inside
  <2>4. Filled = Len(log)
    BY <1>2, <2>3 DEF CountsOK
  <2> QED  BY <1>1, <2>2, <2>4
<1>4. CASE \A t \in Actors : at[t].pc # "flush"
  <2>1. Flushed = 0
    BY <1>2, <1>4 DEF CountsOK
  <2>2. CASE \E t \in Actors : at[t].pc = "store"
    <3>1. PICK t \in Actors : at[t].pc = "store"
      BY <2>2
    <3>2. at[t].slot \in Nat /\ at[t].slot = ptr - 1
      BY <3>1 DEF Core, WriterOK, IInv, TypeOK, LocalsTyped, Frame
    <3>3. Filled = Len(log) - 1
      BY <1>2, <3>1 DEF CountsOK
    <3> QED  BY <1>1, <2>1, <3>2, <3>3
  <2>3. CASE \A t \in Actors : at[t].pc # "store"
    BY <1>1, <1>2, <2>1, <2>3 DEF CountsOK
  <2> QED  BY <2>2, <2>3
<1> QED  BY <1>3, <1>4

\* The threads that take no step: only the owner of mx touches the buffers.
LEMMA OthersRecord ==
    ASSUME IInv, NEW t \in Actors, NEW u \in Actors \ {t}, at'[u] = at[u], IdsStay,
           WriterOK(u), RecorderOK(u), FlusherOK(u),
           UNCHANGED <<ptr, log, buf>> \/ at[t].pc \in Inside
    PROVE  WriterOK(u)' /\ RecorderOK(u)' /\ FlusherOK(u)'
<1>1. at[u].pc \in Inside => UNCHANGED <<ptr, log, buf>>
  BY CountsKnown DEF CountsOK
<1>2. RecorderOK(u)'
  BY DEF RecorderOK, Recording
<1>3. FlusherOK(u)'
  BY <1>1 DEF FlusherOK, Inside
<1>4. WriterOK(u)'
  <2> SUFFICES ASSUME at[u].pc = "store" PROVE WriterOK(u)'
    BY DEF WriterOK
  <2>1. UNCHANGED <<ptr, log, buf>>
    BY <1>1 DEF Inside
  <2>2. PICK c \in Calls : c = at[u].call
    BY DEF IInv, TypeOK, LocalsTyped, Frame
  <2>3. Stores(u, c) \in Seq(Assignment) /\ at[u].step \in 1 .. Len(Stores(u, c))
    BY <2>2, StoresType DEF IInv, ThreadOK, SlotOK
  <2>4. ASSUME NEW p \in 1 .. at[u].step - 1
        PROVE  /\ Known(Stores(u, c)[p])'
               /\ buf'[Stores(u, c)[p].field][at[u].slot] = Value(Stores(u, c)[p])'
    <3>1. p \in 1 .. Len(Stores(u, c))
      BY <2>3
    <3>2. Stores(u, c)[p] \in Assignment
      BY <2>3, <3>1, ElementOfSeq
    <3>3. /\ Known(Stores(u, c)[p])
          /\ buf[Stores(u, c)[p].field][at[u].slot] = Value(Stores(u, c)[p])
      BY <2>2 DEF WriterOK
    <3>4. Known(Stores(u, c)[p])' /\ Value(Stores(u, c)[p])' = Value(Stores(u, c)[p])
      BY <3>2, <3>3, KnownStays
    <3> QED  BY <2>1, <3>3, <3>4
  <2>5. /\ at[u].slot = ptr - 1
        /\ log[Len(log)] = [thread |-> u, call |-> c]
    BY <2>2 DEF WriterOK
  <2> QED  BY <2>1, <2>2, <2>4, <2>5 DEF WriterOK
<1> QED  BY <1>2, <1>3, <1>4

LEMMA ThreadsRecord ==
    ASSUME IInv, Core, NEW t \in Actors, \A u \in Actors \ {t} : at'[u] = at[u], IdsStay,
           WriterOK(t)', RecorderOK(t)', FlusherOK(t)',
           UNCHANGED <<ptr, log, buf>> \/ at[t].pc \in Inside
    PROVE  \A u \in Actors : WriterOK(u)' /\ RecorderOK(u)' /\ FlusherOK(u)'
BY OthersRecord DEF Core

\* Steps that add nothing to the file: the records stay, or one is completed.
LEMMA SameFile ==
    ASSUME IInv, Core, UNCHANGED <<trace, base, broken, cut>>, Flushed' = Flushed,
           1 .. Filled \subseteq 1 .. Filled',
           \A k \in Whole : IdLine(k)' = IdLine(k) /\ (k > base /\ DimsIn(k) => DimsIn(k)'),
           \A k \in 1 .. Filled' : k \in 1 .. Filled \/ (k > Filled /\ DimsIn(k)')
    PROVE  (Kept => Kept') /\ (Exact => Exact')
<1>1. /\ base + Flushed <= Filled /\ Filled \in Nat /\ Flushed \in Nat /\ base \in Nat
      /\ Len(trace) \in Nat
  BY FlushedInLog, CountsKnown DEF CountsOK, IInv, TypeOK, HistoryTyped
<1>2. ASSUME NEW k \in Whole PROVE InFile(k) => InFile(k)'
  BY DEF InFile
<1>3. \A k \in Sound' : k \in Sound \/ (k > Filled /\ DimsIn(k)')
  BY DEF Sound
<1>4. Sound \subseteq Whole
  BY DEF Sound, Whole
<1>5. ASSUME Kept PROVE Kept'
  <2>1. ASSUME NEW k \in Sound'
        PROVE  InFile(k)' \/ (k > base' + Flushed' /\ DimsIn(k)')
    <3>1. CASE k \in Sound
      <4>1. k \in Nat /\ (InFile(k) \/ (k > base + Flushed /\ DimsIn(k)))
        BY <1>5, <3>1 DEF Kept, SoundOK, Sound
      <4>2. k > base + Flushed => k > base
        BY <1>1, <4>1
      <4> QED  BY <1>2, <1>4, <3>1, <4>1, <4>2
    <3>2. CASE k > Filled /\ DimsIn(k)'
      <4>1. k \in Nat
        BY DEF Sound
      <4> QED  BY <1>1, <3>2, <4>1
    <3> QED  BY <1>3, <3>1, <3>2
  <2>2. SoundOK'
    BY <2>1 DEF SoundOK
  <2>3. TailOK'
    <3> SUFFICES ASSUME trace # << >>, Open(trace[Len(trace)]),
                        base + Flushed \notin broken
                 PROVE  /\ Flushed' = 0 /\ base' + 1 \in 1 .. Filled'
                        /\ base' + 1 \in Sound' => InFile(base + 1)'
      BY DEF TailOK
    <3>1. Flushed = 0 /\ base + 1 \in 1 .. Filled /\ (base + 1 \in Sound => InFile(base + 1))
      BY <1>5 DEF Kept, TailOK
    <3>2. PICK k \in 1 .. Filled : k = base + 1
      BY <3>1
    <3>3. k \in Sound' => k \in Sound
      BY <1>1, <1>3
    <3>4. k \in Sound' => InFile(k)'
      BY <1>2, <1>4, <3>1, <3>2, <3>3
    <3>5. k = base' + 1
      BY <3>2
    <3> QED  BY <3>1, <3>4, <3>5 DEF InFile
  <2> QED  BY <2>2, <2>3 DEF Kept
<1>6. ASSUME Exact PROVE Exact'
  <2>1. broken' = {} /\ Len(trace) = base + Flushed /\ \A k \in 1 .. Filled : k \in Whole
    BY <1>6 DEF Exact, Whole
  <2>2. \A k \in 1 .. Len(trace) : k \in Whole
    BY <1>1, <2>1
  <2>3. \A k \in 1 .. Len(trace) : trace'[k] = IdLine(k)'
    BY <1>6, <2>2 DEF Exact
  <2>4. ASSUME NEW k \in Len(trace) + 1 .. Filled' PROVE DimsIn(k)'
    <3>1. CASE k \in 1 .. Filled
      <4>1. k \in Len(trace) + 1 .. Filled /\ k \in Whole /\ k > base
        BY <1>1, <2>1, <3>1
      <4> QED  BY <1>6, <4>1 DEF Exact
    <3>2. CASE k \notin 1 .. Filled
      <4>1. k \in 1 .. Filled'
        BY <1>1
      <4> QED  BY <3>2, <4>1
    <3> QED  BY <3>1, <3>2
  <2> QED  BY <2>1, <2>3, <2>4 DEF Exact
<1> QED  BY <1>5, <1>6

\* Steps that leave the buffers, the file and the log alone, whatever they do
\* to the lock and to the locals of their thread.
Quiet(t) ==
    /\ UNCHANGED <<ptr, buf, trace, log, base, broken, cut>>
    /\ \A u \in Actors \ {t} : at'[u] = at[u]
    /\ at[t].pc \notin {"store", "flush"} /\ at'[t].pc # "store"
    /\ at'[t].pc = "flush" => at'[t].i = 0 /\ at'[t].size = ptr
    /\ RecorderOK(t)'

LEMMA QuietRecords ==
    ASSUME IInv, IInv', Core, IdsStay, NEW t \in Actors, Quiet(t)
    PROVE  Core' /\ (Kept => Kept') /\ (Exact => Exact')
<1>1. Filled' = Filled
  BY CountsStay DEF Quiet
<1>2. Flushed' = Flushed
  <2>1. CASE at'[t].pc # "flush"
    BY <2>1, CountsStay DEF Quiet
  <2>2. CASE at'[t].pc = "flush"
    <3>1. Flushed' = 0
      BY <2>2, CountsKnownNext DEF CountsOK, Quiet
    <3>2. \A u \in Actors : at[u].pc # "flush"
      BY <2>2, CountsKnownNext DEF CountsOK, Quiet, Inside
    <3> QED  BY <3>1, <3>2, CountsKnown DEF CountsOK
  <2> QED  BY <2>1, <2>2
<1>3. \A k \in Whole : k \in 1 .. Len(log)
  BY CountsKnown DEF CountsOK, Whole
<1>4. ASSUME NEW k \in Whole
      PROVE  /\ Complete(k)' /\ IdLine(k)' = IdLine(k)
             /\ SlotMade(k) => SlotMade(k)'
             /\ DimsIn(k) => DimsIn(k)'
             /\ InFile(k) => InFile(k)'
  <2>1. Complete(k) /\ LogOK /\ k \in 1 .. Len(log)
    BY <1>3 DEF Core, RecordsOK
  <2>2. /\ log'[k] = log[k] /\ base' = base /\ trace' = trace
        /\ \A f \in Fields : buf'[f][k - base - 1] = buf[f][k - base - 1]
    BY DEF Quiet
  <2>3. Complete(k)' /\ IdLine(k)' = IdLine(k) /\ (SlotMade(k) => SlotMade(k)')
        /\ (DimsIn(k) => DimsIn(k)')
    BY <2>1, <2>2, RecordStays DEF Fields
  <2> QED  BY <2>2, <2>3 DEF InFile
<1>5. Whole' = Whole /\ Sound' = Sound /\ Sound \subseteq Whole
  BY <1>1 DEF Quiet, Whole, Sound
<1>6. Core'
  <2>1. WriterOK(t)' /\ RecorderOK(t)' /\ FlusherOK(t)'
    <3>1. ptr' \in Nat /\ ptr' = ptr
      BY DEF IInv, TypeOK, BuffersTyped, Quiet
    <3> QED  BY <3>1 DEF Quiet, WriterOK, FlusherOK
  <2>2. \A u \in Actors : WriterOK(u)' /\ RecorderOK(u)' /\ FlusherOK(u)'
    BY <2>1, ThreadsRecord DEF Quiet
  <2>3. LogOK'
    BY DEF Core, Quiet, LogOK
  <2>4. RecordsOK'
    BY <1>4, <1>5 DEF Core, RecordsOK, Quiet
  <2> QED  BY <2>2, <2>3, <2>4 DEF Core
<1>7. (Kept => Kept') /\ (Exact => Exact')
  <2>1. UNCHANGED <<trace, base, broken, cut>>
    BY DEF Quiet
  <2> QED  BY <1>1, <1>2, <1>4, <2>1, SameFile
<1> QED  BY <1>6, <1>7

------------------------------------------------------------------------------
(* The steps that write the buffers, the file or the log.                  *)

LEMMA ClaimRecords ==
    ASSUME IInv, IInv', Core, IdsStay, NEW t \in Actors, Claim(t)
    PROVE  Core' /\ (Kept => Kept') /\ (Exact => Exact')
<1>1. /\ t \in Threads /\ at[t].pc = "claim"
      /\ ptr \in Nat /\ base \in Nat /\ Len(log) \in Nat /\ log \in Seq([thread : Actors, call : Calls])
      /\ at[t].call \in Calls
  <2>1. t # Hook
    BY DEF Claim, IInv, ThreadOK, FlushOK
  <2> QED  BY <2>1 DEF Claim, Actors, IInv, TypeOK, BuffersTyped, HistoryTyped, LocalsTyped, Frame
<1>2. /\ \A u \in Actors \ {t} : at'[u] = at[u]
      /\ at'[t].pc = "store" /\ at'[t].slot = ptr /\ at'[t].step = 1
      /\ at'[t].call = at[t].call
  BY <1>1 DEF Claim, IInv, TypeOK, LocalsTyped, Frame, PCs
<1> DEFINE r == [thread |-> t, call |-> at[t].call]
<1>3. /\ Len(log') = Len(log) + 1 /\ log'[Len(log) + 1] = r
      /\ \A k \in 1 .. Len(log) : log'[k] = log[k]
  <2>1. log' = Append(log, r) /\ r \in [thread : Actors, call : Calls]
    BY <1>1 DEF Claim
  <2> HIDE DEF r
  <2> QED  BY <1>1, <2>1, AppendProperties
<1>4. Filled' = Filled /\ Filled = Len(log) /\ Flushed' = Flushed
  <2>1. \A u \in Actors : at[u].pc # "store"
    BY <1>1, CountsKnown DEF CountsOK, Inside
  <2>2. Filled = Len(log) /\ Filled' = Len(log')- 1
    BY <1>2, <2>1, CountsKnown, CountsKnownNext DEF CountsOK
  <2>3. Flushed' = Flushed
    BY <1>1, <1>2, CountsStay
  <2> QED  BY <1>1, <1>3, <2>2, <2>3
<1>5. \A k \in Whole : k \in 1 .. Len(log)
  BY <1>4 DEF Whole
<1>6. ASSUME NEW k \in Whole
      PROVE  /\ Complete(k)' /\ IdLine(k)' = IdLine(k)
             /\ SlotMade(k) => SlotMade(k)'
             /\ DimsIn(k) => DimsIn(k)'
  <2>1. Complete(k) /\ LogOK /\ k \in 1 .. Len(log)
    BY <1>5 DEF Core, RecordsOK
  <2>2. log'[k] = log[k] /\ base' = base
        /\ \A f \in Fields : buf'[f][k - base - 1] = buf[f][k - base - 1]
    BY <1>3, <2>1 DEF Claim
  <2> QED  BY <2>1, <2>2, RecordStays DEF Fields
<1>7. Whole' = Whole
  BY <1>4 DEF Claim, Whole
<1>8. Core'
  <2>1. WriterOK(t)'
    <3>0. ptr' = ptr + 1
      BY DEF Claim
    <3>1. at'[t].slot = ptr' - 1 /\ \A p \in 1 .. at'[t].step - 1 : FALSE
      BY <1>1, <1>2, <3>0
    <3>2. log'[Len(log')] = [thread |-> t, call |-> at'[t].call]
      BY <1>2, <1>3
    <3> QED  BY <3>1, <3>2 DEF WriterOK
  <2>2. Recording(t)
    BY <1>1 DEF Core, RecorderOK
  <2>3. RecorderOK(t)' /\ FlusherOK(t)'
    BY <1>2, <2>2 DEF RecorderOK, FlusherOK, Recording
  <2>4. \A u \in Actors : WriterOK(u)' /\ RecorderOK(u)' /\ FlusherOK(u)'
    BY <1>1, <1>2, <2>1, <2>3, ThreadsRecord DEF Inside
  <2>5. LogOK'
    <3>1. ptr' = Len(log') - base'
      BY <1>1, <1>3 DEF Claim, Core, LogOK
    <3>2. \A k \in 1 .. Len(log') : k \in 1 .. Len(log) \/ k = Len(log) + 1
      BY <1>1, <1>3
    <3> QED  BY <1>1, <1>3, <2>2, <3>1, <3>2 DEF Core, LogOK, Recording
  <2>6. RecordsOK'
    BY <1>6, <1>7 DEF Core, RecordsOK, Claim
  <2> QED  BY <2>4, <2>5, <2>6 DEF Core
<1>9. (Kept => Kept') /\ (Exact => Exact')
  <2>1. UNCHANGED <<trace, base, broken, cut>>
    BY DEF Claim
  <2> QED  BY <1>4, <1>6, <2>1, SameFile
<1> QED  BY <1>8, <1>9

\* No record assigns to the same field twice.
LEMMA StoresApart ==
    ASSUME NEW t \in Actors, NEW c \in Calls,
           NEW p \in 1 .. Len(Stores(t, c)), NEW q \in 1 .. Len(Stores(t, c)), p # q
    PROVE  Stores(t, c)[p].field # Stores(t, c)[q].field
<1> DEFINE Apart(S) == \A i, j \in 1 .. Len(S) : i # j => S[i].field # S[j].field
<1>1. Apart(EntryStores(t, c))
  BY DEF EntryStores, Set, SetId
<1>2. Apart(ExitStores(t, c))
  BY DEF ExitStores, Set, SetId
<1>3. Apart(AllocStores(t, c))
  BY DEF AllocStores, Set, SetId
<1>4. Apart(PutFieldStores(t, c))
  BY DEF PutFieldStores, Set, SetId
<1>5. Apart(ArrayStores(t, c))
  BY DEF ArrayStores, Set, SetId
<1>6. Stores(t, c) \in {EntryStores(t, c), ExitStores(t, c), AllocStores(t, c),
                        PutFieldStores(t, c), ArrayStores(t, c)}
  BY DEF Stores
<1> HIDE DEF Apart
<1>7. Apart(Stores(t, c))
  BY <1>1, <1>2, <1>3, <1>4, <1>5, <1>6
<1> QED  BY <1>7 DEF Apart

LEMMA StoreRecords ==
    ASSUME IInv, IInv', Core, IdsStay, NEW t \in Actors, Store(t)
    PROVE  Core' /\ (Kept => Kept') /\ (Exact => Exact')
<1>1. /\ t \in Threads /\ at[t].pc = "store"
      /\ ptr \in Nat /\ base \in Nat /\ Len(log) \in Nat /\ Len(log) >= 1
      /\ at[t] \in Frame /\ at[t].slot \in Slots
  <2>1. t # Hook /\ Len(log) >= 1
    BY DEF Store, IInv, ThreadOK, FlushOK, SlotOK
  <2>2. ptr \in Nat /\ base \in Nat /\ Len(log) \in Nat
    BY DEF IInv, TypeOK, BuffersTyped, HistoryTyped
  <2>3. at[t] \in Frame
    BY DEF IInv, TypeOK, LocalsTyped
  <2>4. at[t].pc = "store" /\ at[t].slot \in Slots
    BY DEF Store
  <2> QED  BY <2>1, <2>2, <2>3, <2>4 DEF Actors
<1>2. PICK c \in Calls, n \in Nat, j \in Slots :
           c = at[t].call /\ n = at[t].step /\ j = at[t].slot
  BY <1>1 DEF Frame
<1>3. Stores(t, c) \in Seq(Assignment) /\ n \in 1 .. Len(Stores(t, c))
  BY <1>1, <1>2, StoresType DEF IInv, ThreadOK, SlotOK
<1>4. PICK s \in Assignment : s = Stores(t, c)[n]
  BY <1>3, ElementOfSeq
<1>5. /\ \A u \in Actors \ {t} : at'[u] = at[u]
      /\ at'[t].pc = IF n = Len(Stores(t, c)) THEN "unlock" ELSE "store"
      /\ at'[t].slot = j /\ at'[t].step = n + 1 /\ at'[t].call = c
  <2> DEFINE there == IF n = Len(Stores(t, c)) THEN "unlock" ELSE "store"
  <2>1. at' = [at EXCEPT ![t].step = @ + 1, ![t].pc = there]
    BY <1>2 DEF Store
  <2> HIDE DEF there
  <2>2. at \in [Actors -> Frame]
    BY DEF IInv, TypeOK, LocalsTyped
  <2>3. /\ \A u \in Actors \ {t} : at'[u] = at[u]
        /\ at'[t].pc = there /\ at'[t].slot = j /\ at'[t].step = n + 1 /\ at'[t].call = c
    BY <1>1, <1>2, <2>1, <2>2 DEF Frame
  <2> QED  BY <2>3 DEF there
<1>6. /\ buf' = [buf EXCEPT ![s.field][j] = IF s.isRef THEN idMap'[Hash[s.ref]] ELSE s.val]
      /\ s.isRef => idMap' = IdMapWith(s.ref) /\ nextId' = NextIdWith(s.ref)
      /\ UNCHANGED <<ptr, trace, log, base, broken, cut>>
  BY <1>2, <1>4 DEF Store
<1>7. Known(s)'
  <2>1. CASE s.isRef
    <3>1. IdsTyped /\ IdsOK /\ s.ref \in Objects
      BY DEF IInv, TypeOK, Assignment
    <3>2. idMap'[Hash[s.ref]] \in 1 .. nextId' /\ nextId' \in Nat
      BY <1>6, <2>1, <3>1, ObjectIdOK
    <3> QED  BY <3>2 DEF Known
  <2> QED  BY <2>1 DEF Known
<1>8. \A f \in Fields, i \in Slots :
         buf'[f][i] = IF f = s.field /\ i = j THEN Value(s)' ELSE buf[f][i]
  <2>1. buf \in [Fields -> [Slots -> Nat]] /\ s.field \in Fields
    BY DEF IInv, TypeOK, BuffersTyped, Assignment
  <2>2. Value(s)' = IF s.isRef THEN idMap'[Hash[s.ref]] ELSE s.val
    BY DEF Value
  <2> QED  BY <1>6, <2>1, <2>2
<1>9. ASSUME NEW p \in 1 .. n
      PROVE  Known(Stores(t, c)[p])' /\ buf'[Stores(t, c)[p].field][j] = Value(Stores(t, c)[p])'
  <2>1. p \in 1 .. Len(Stores(t, c))
    BY <1>3
  <2>2. PICK q \in Assignment : q = Stores(t, c)[p]
    BY <1>3, <2>1, ElementOfSeq
  <2>3. q.field \in Fields /\ s.field \in Fields
    BY DEF Assignment
  <2>4. CASE p = n
    BY <1>4, <1>7, <1>8, <2>2, <2>3, <2>4
  <2>5. CASE p # n
    <3>1. q.field # s.field
      BY <1>3, <1>4, <2>1, <2>2, <2>5, StoresApart
    <3>2. p \in 1 .. at[t].step - 1
      BY <1>2, <2>5
    <3>3. Known(q) /\ buf[q.field][j] = Value(q)
      BY <1>1, <1>2, <2>2, <3>2 DEF Core, WriterOK
    <3>4. Known(q)' /\ Value(q)' = Value(q)
      BY <3>3, KnownStays
    <3>5. buf'[q.field][j] = Value(q)'
      BY <1>8, <2>3, <3>1, <3>3, <3>4
    <3> QED  BY <2>2, <3>4, <3>5
  <2> QED  BY <2>4, <2>5
<1>10. j = ptr - 1 /\ ptr = Len(log) - base /\ log[Len(log)] = [thread |-> t, call |-> c]
  BY <1>1, <1>2 DEF Core, WriterOK, LogOK
<1>11. Filled = Len(log) - 1 /\ Flushed' = Flushed
  BY <1>1, <1>5, CountsKnown, CountsStay DEF CountsOK
<1>12. Filled' = IF n = Len(Stores(t, c)) THEN Len(log) ELSE Len(log) - 1
  <2>1. \A u \in Actors \ {t} : at[u].pc # "store"
    BY <1>1, CountsKnown DEF CountsOK, Inside
  <2>2. CASE n = Len(Stores(t, c))
    <3>1. \A u \in Actors : at'[u].pc # "store"
      BY <1>5, <2>1, <2>2
    <3> QED  BY <1>6, <2>2, <3>1, CountsKnownNext DEF CountsOK
  <2>3. CASE n # Len(Stores(t, c))
    BY <1>5, <1>6, <2>3, CountsKnownNext DEF CountsOK
  <2> QED  BY <2>2, <2>3
<1>13. ASSUME NEW k \in Whole
       PROVE  /\ Complete(k)' /\ IdLine(k)' = IdLine(k)
              /\ k > base /\ SlotMade(k) => SlotMade(k)'
              /\ k > base /\ DimsIn(k) => DimsIn(k)'
  <2>1. k \in 1 .. Len(log) - 1 /\ Complete(k) /\ LogOK
    BY <1>1, <1>11 DEF Whole, Core, RecordsOK
  <2>2. ASSUME k > base, NEW f \in Fields
        PROVE  buf'[f][k - base - 1] = buf[f][k - base - 1]
    <3>1. BUFMAX \in Nat /\ j \in 0 .. BUFMAX
      BY ConstantsAssumption DEF Slots
    <3>2. k - base - 1 \in 0 .. BUFMAX /\ k - base - 1 # j
      BY <1>1, <1>10, <2>1, <2>2, <3>1
    <3> QED  BY <1>8, <3>2 DEF Slots
  <2>3. k \in 1 .. Len(log) /\ log'[k] = log[k] /\ base' = base
    BY <1>1, <1>6, <2>1
  <2> QED  BY <2>1, <2>2, <2>3, RecordStays DEF Fields
<1>14. ASSUME n = Len(Stores(t, c)), NEW k, k = Len(log)
       PROVE  Complete(k)' /\ SlotMade(k)' /\ DimsIn(k)'
  <2>1. log'[k].thread = t /\ log'[k].call = c /\ k - base' - 1 = j
    BY <1>1, <1>6, <1>10, <1>14
  <2>2. \A p \in 1 .. Len(Stores(t, c)) : 
           Known(Stores(t, c)[p])' /\ buf'[Stores(t, c)[p].field][j] = Value(Stores(t, c)[p])'
    BY <1>9, <1>14
  <2> QED  BY <2>1, <2>2 DEF Complete, SlotMade, DimsIn, Made, DimsMade
<1>15. Core'
  <2>1. WriterOK(t)'
    <3>1. at'[t].slot = ptr' - 1 /\ log'[Len(log')] = [thread |-> t, call |-> at'[t].call]
      BY <1>5, <1>6, <1>10
    <3>2. at'[t].step - 1 = n
      BY <1>2, <1>5
    <3> QED  BY <1>5, <1>9, <3>1, <3>2 DEF WriterOK
  <2>2. Recording(t)
    BY <1>1 DEF Core, RecorderOK
  <2>3. RecorderOK(t)' /\ FlusherOK(t)'
    BY <1>2, <1>5, <2>2 DEF RecorderOK, FlusherOK, Recording
  <2>4. \A u \in Actors : WriterOK(u)' /\ RecorderOK(u)' /\ FlusherOK(u)'
    BY <1>1, <1>5, <2>1, <2>3, ThreadsRecord DEF Inside
  <2>5. LogOK'
    BY <1>6 DEF Core, LogOK
  <2>6. RecordsOK'
    <3> SUFFICES ASSUME NEW k \in Whole'
                 PROVE  Complete(k)' /\ (k > base => SlotMade(k)')
      BY <1>6 DEF RecordsOK
    <3>1. k \in Whole \/ (n = Len(Stores(t, c)) /\ k = Len(log))
      BY <1>1, <1>6, <1>11, <1>12 DEF Whole
    <3> QED  BY <1>13, <1>14, <3>1 DEF Core, RecordsOK
  <2> QED  BY <2>4, <2>5, <2>6 DEF Core
<1>16. (Kept => Kept') /\ (Exact => Exact')
  <2>1. \A k \in 1 .. Filled' : k \in 1 .. Filled \/ (k > Filled /\ DimsIn(k)')
    <3> SUFFICES ASSUME NEW k \in 1 .. Filled', k \notin 1 .. Filled
                 PROVE  k > Filled /\ DimsIn(k)'
      OBVIOUS
    <3>1. n = Len(Stores(t, c)) /\ k = Len(log)
      BY <1>1, <1>11, <1>12
    <3> QED  BY <1>1, <1>11, <1>14, <3>1
  <2>2. 1 .. Filled \subseteq 1 .. Filled'
    BY <1>1, <1>11, <1>12
  <2> QED  BY <1>6, <1>11, <1>13, <2>1, <2>2, SameFile
<1> QED  BY <1>15, <1>16

LEMMA LineIsExpected ==
    ASSUME NEW t, NEW c, c.op \in Handlers
    PROVE  ~Open(Line(t, c, ObjectId, 0))
BY DEF Line, Handlers, Open

\* A line that is printed leaves those before it, but for an unfinished text.
LEMMA PrintingKeeps ==
    ASSUME NEW line \in FileLine, trace \in Seq(FileLine)
    PROVE  /\ \A j \in 1 .. Len(trace) :
                 ~Open(trace[j]) =>
                    j \in 1 .. Len(Printing(line)) /\ Printing(line)[j] = trace[j]
           /\ ~(trace # << >> /\ Open(trace[Len(trace)])) =>
                 /\ Len(Printing(line)) = Len(trace) + 1
                 /\ Printing(line)[Len(trace) + 1] = line
           /\ Open(Printing(line)[Len(Printing(line))]) => Open(line)
<1>0. Len(trace) \in Nat /\ Printing(line) \in Seq(FileLine)
  BY PrintingType
<1>1. CASE trace # << >> /\ Open(trace[Len(trace)])
  <2> DEFINE glued == IF Open(line) THEN Half ELSE [kind |-> "Glued", args |-> << >>]
  <2>1. Printing(line) = [trace EXCEPT ![Len(trace)] = glued]
    BY <1>1 DEF Printing
  <2>2. Open(glued) => Open(line)
    BY DEF Open, Half
  <2> HIDE DEF glued
  <2>3. Len(trace) \in 1 .. Len(trace)
    BY <1>1
  <2>4. Len(Printing(line)) = Len(trace)
    BY <1>0, <2>1
  <2>5. \A j \in 1 .. Len(trace) :
           Printing(line)[j] = IF j = Len(trace) THEN glued ELSE trace[j]
    BY <1>0, <2>1
  <2> QED  BY <1>1, <2>2, <2>3, <2>4, <2>5
<1>2. CASE ~(trace # << >> /\ Open(trace[Len(trace)]))
  <2>1. Printing(line) = Append(trace, line)
    BY <1>2 DEF Printing
  <2>2. /\ Len(Printing(line)) = Len(trace) + 1
        /\ Printing(line)[Len(trace) + 1] = line
        /\ \A j \in 1 .. Len(trace) : Printing(line)[j] = trace[j]
    BY <2>1, AppendProperties
  <2> QED  BY <1>0, <2>2
<1> QED  BY <1>1, <1>2

\* A line that is in the file stays there, whatever is printed.
LEMMA InFileStays ==
    ASSUME IInv, NEW k \in 1 .. Len(log), IdLine(k)' = IdLine(k),
           trace' = trace \/ \E line \in FileLine : trace' = Printing(line)
    PROVE  /\ ~Open(IdLine(k))
           /\ InFile(k) => InFile(k)'
<1>1. log[k].call.op \in Handlers
  BY ConstantsAssumption, ClaimTyped DEF CallType
<1>2. ~Open(IdLine(k))
  BY <1>1, LineIsExpected DEF IdLine
<1>3. ASSUME InFile(k) PROVE InFile(k)'
  <2>1. PICK j \in 1 .. Len(trace) : trace[j] = IdLine(k)
    BY <1>3 DEF InFile
  <2>2. trace \in Seq(FileLine)
    BY DEF IInv, TypeOK, HistoryTyped
  <2>3. j \in 1 .. Len(trace') /\ trace'[j] = trace[j]
    BY <1>2, <2>1, <2>2, PrintingKeeps
  <2>4. trace'[j] = IdLine(k)'
    BY <2>1, <2>3
  <2> QED  BY <2>3, <2>4 DEF InFile
<1> QED  BY <1>2, <1>3

\* What is printed for a record that no Error cut short.
LEMMA WholePrinted ==
    ASSUME IInv, Core, NEW i \in Slots, NEW k \in 1 .. Len(log), k = base + i + 1, k \in Whole
    PROVE  /\ ~Open(Printed(i))
           /\ DimsIn(k) => Printed(i) = IdLine(k)
<1>0. i \in Nat /\ base \in Nat
  BY DEF Slots, IInv, TypeOK, HistoryTyped
<1>1. PICK u \in Actors, c \in Calls : u = log[k].thread /\ c = log[k].call
  BY ClaimTyped
<1>2. c.op # "witnessObjectAliveVer2" /\ k - base - 1 = i /\ k > base
  BY <1>0, <1>1 DEF Core, LogOK
<1>3. Made(i, u, c)
  BY <1>1, <1>2 DEF Core, RecordsOK, SlotMade
<1>4. /\ Printed(i).kind = Line(u, c, ObjectId, 0).kind
      /\ DimsMade(i, u, c) => Printed(i) = Line(u, c, ObjectId, 0)
  BY <1>2, <1>3, PrintedIsLine
<1>5. IdLine(k) = Line(u, c, ObjectId, 0) /\ (DimsIn(k) => DimsMade(i, u, c))
  BY <1>1, <1>2 DEF IdLine, DimsIn
<1>6. c.op \in Handlers
  BY ConstantsAssumption DEF CallType
<1> QED  BY <1>4, <1>5, <1>6, LineIsExpected DEF Open

LEMMA FlushRecordRecords ==
    ASSUME IInv, IInv', Core, IdsStay, NEW t \in Actors, FlushRecord(t)
    PROVE  Core' /\ (Kept => Kept') /\ (Exact => Exact')
<1>1. /\ at[t].pc = "flush" /\ at[t] \in Frame
      /\ ptr \in 0 .. BUFMAX /\ BUFMAX \in Nat /\ base \in Nat /\ Len(log) \in Nat
      /\ trace \in Seq(FileLine) /\ Len(trace) \in Nat
      /\ buf \in [Fields -> [Slots -> Nat]]
  <2>1. at[t] \in Frame
    BY DEF IInv, TypeOK, LocalsTyped
  <2> QED  BY <2>1, ConstantsAssumption
           DEF FlushRecord, IInv, TypeOK, BuffersTyped, HistoryTyped
<1>2. PICK i \in Nat, size \in Nat : i = at[t].i /\ size = at[t].size
  BY <1>1 DEF Frame
<1>3. size = ptr /\ i < ptr /\ ptr = Len(log) - base
  BY <1>1, <1>2 DEF Core, FlusherOK, LogOK, FlushRecord
<1>4. /\ \A u \in Actors \ {t} : at'[u] = at[u]
      /\ at'[t].pc = "flush" /\ at'[t].i = i + 1 /\ at'[t].size = size
      /\ at'[t].call = at[t].call
  <2>1. at' = [at EXCEPT ![t].i = @ + 1] /\ at \in [Actors -> Frame]
    BY DEF FlushRecord, IInv, TypeOK, LocalsTyped
  <2> QED  BY <1>1, <1>2, <2>1 DEF Frame
<1>5. /\ trace' = Printing(Printed(i))
      /\ buf' = [buf EXCEPT !["dims"][i] = 0]
      /\ UNCHANGED <<ptr, idMap, log, base, broken, cut>>
  BY <1>2 DEF FlushRecord
<1>6. Filled = Len(log) /\ Filled' = Filled /\ Flushed = i /\ Flushed' = i + 1
  <2>1. \A u \in Actors : at[u].pc # "store" /\ at'[u].pc # "store"
    BY <1>1, <1>4, CountsKnown DEF CountsOK, Inside
  <2> QED  BY <1>1, <1>2, <1>4, <1>5, <2>1, CountsKnown, CountsKnownNext DEF CountsOK
<1>7. i \in Slots
  BY <1>1, <1>3 DEF Slots
<1>8. PICK k0 \in 1 .. Len(log) : k0 = base + i + 1
  BY <1>1, <1>3
<1>9. Printed(i) \in FileLine
  BY <1>1, <1>7, PrintedType
<1>10. Whole' = Whole /\ Sound' = Sound /\ Sound \subseteq Whole
  BY <1>5, <1>6 DEF Whole, Sound
<1>11. \A f \in Fields, j \in Slots : f # "dims" \/ j # i => buf'[f][j] = buf[f][j]
  BY <1>1, <1>5, <1>7 DEF Fields
<1>12. ASSUME NEW k \in 1 .. Len(log)
       PROVE  /\ IdLine(k)' = IdLine(k)
              /\ ~Open(IdLine(k))
              /\ InFile(k) => InFile(k)'
  <2>1. IdLine(k)' = IdLine(k)
    BY <1>5 DEF IdLine, ObjectId
  <2> QED  BY <1>5, <1>9, <2>1, InFileStays
<1>13. ASSUME NEW k \in Whole
       PROVE  /\ Complete(k)'
              /\ k > base /\ SlotMade(k) => SlotMade(k)'
              /\ k > base /\ k # k0 /\ DimsIn(k) => DimsIn(k)'
  <2>1. k \in 1 .. Len(log) /\ Complete(k) /\ LogOK
    BY <1>1, <1>6 DEF Whole, Core, RecordsOK
  <2>2. log'[k] = log[k] /\ base' = base
    BY <1>5
  <2>3. k > base => k - base - 1 \in Slots
    BY <1>1, <1>3, <2>1 DEF Slots
  <2>4. k > base => \A f \in Fields \ {"dims"} : buf'[f][k - base - 1] = buf[f][k - base - 1]
    BY <1>11, <2>3
  <2>5. k > base /\ k # k0 => buf'["dims"][k - base - 1] = buf["dims"][k - base - 1]
    <3>0. k \in Nat /\ base \in Nat /\ k0 = base + i + 1
      BY <1>1, <1>8, <2>1
    <3>1. k # k0 => k - base - 1 # i
      BY <3>0
    <3> QED  BY <1>11, <2>3, <3>1 DEF Fields
  <2> QED  BY <2>1, <2>2, <2>4, <2>5, RecordStays
<1>14. ASSUME k0 \in Whole
       PROVE  /\ ~Open(Printed(i))
              /\ DimsIn(k0) => Printed(i) = IdLine(k0)
  BY <1>7, <1>8, <1>14, WholePrinted
<1>15. Core'
  <2>1. WriterOK(t)' /\ FlusherOK(t)'
    BY <1>1, <1>3, <1>4, <1>5 DEF WriterOK, FlusherOK
  <2>2. RecorderOK(t)'
    BY <1>1, <1>4 DEF Core, RecorderOK, Recording
  <2>3. \A u \in Actors : WriterOK(u)' /\ RecorderOK(u)' /\ FlusherOK(u)'
    BY <1>1, <1>4, <2>1, <2>2, ThreadsRecord DEF Inside
  <2>4. LogOK'
    BY <1>5 DEF Core, LogOK
  <2>5. RecordsOK'
    BY <1>5, <1>10, <1>13 DEF Core, RecordsOK
  <2> QED  BY <2>3, <2>4, <2>5 DEF Core
<1>16. ASSUME Kept PROVE Kept'
  <2>1. ASSUME NEW k \in Sound
        PROVE  InFile(k)' \/ (k > base' + Flushed' /\ DimsIn(k)')
    <3>0. k \in Whole /\ k \in 1 .. Len(log) /\ k \in Nat
      BY <1>6, <1>10 DEF Whole
    <3>1. CASE InFile(k)
      BY <1>12, <3>0, <3>1
    <3>2. CASE ~InFile(k) /\ k > base + i + 1
      <4>1. DimsIn(k) /\ k > base /\ k # k0
        BY <1>1, <1>8, <1>16, <3>0, <3>2 DEF Kept, SoundOK
      <4>2. DimsIn(k)'
        BY <1>13, <3>0, <4>1
      <4> QED  BY <1>1, <1>5, <1>6, <3>0, <3>2, <4>2
    <3>3. CASE ~InFile(k) /\ k <= base + i + 1
      <4>1. DimsIn(k) /\ k > base + i
        BY <1>6, <1>16, <3>3 DEF Kept, SoundOK
      <4>2. k = k0
        BY <1>1, <1>8, <3>0, <3>3, <4>1
      <4>3. base + i \notin broken
        BY <1>1, <1>8, <4>2 DEF Sound
      <4>4. ~(trace # << >> /\ Open(trace[Len(trace)]))
        <5> SUFFICES ASSUME trace # << >> /\ Open(trace[Len(trace)]) PROVE FALSE
          OBVIOUS
        <5>1. i = 0 /\ (base + 1 \in Sound => InFile(base + 1))
          BY <1>6, <1>16, <4>3 DEF Kept, TailOK
        <5>2. k = base + 1
          BY <1>1, <1>8, <4>2, <5>1
        <5> QED  BY <3>3, <5>1, <5>2
      <4>5. Printed(i) = IdLine(k)
        BY <1>14, <3>0, <4>1, <4>2
      <4>6. Len(trace') = Len(trace) + 1 /\ trace'[Len(trace) + 1] = IdLine(k)
        BY <1>1, <1>5, <1>9, <4>4, <4>5, PrintingKeeps
      <4>7. Len(trace) + 1 \in 1 .. Len(trace') /\ trace'[Len(trace) + 1] = IdLine(k)'
        BY <1>1, <1>12, <3>0, <4>6
      <4> QED  BY <4>7 DEF InFile
    <3> QED  BY <1>1, <1>2, <3>0, <3>1, <3>2, <3>3
  <2>2. SoundOK'
    BY <1>10, <2>1 DEF SoundOK
  <2>3. TailOK'
    <3> SUFFICES ASSUME Open(trace'[Len(trace')])
                 PROVE  base' + Flushed' \in broken'
      BY DEF TailOK
    <3>1. Open(Printed(i))
      BY <1>1, <1>5, <1>9, PrintingKeeps
    <3>2. k0 \in broken
      BY <1>6, <1>8, <1>14, <3>1 DEF Whole
    <3> QED  BY <1>1, <1>5, <1>6, <1>8, <3>2
  <2> QED  BY <2>2, <2>3 DEF Kept
<1>17. ASSUME Exact PROVE Exact'
  <2>1. broken = {} /\ Len(trace) = base + i /\ k0 = Len(trace) + 1
    BY <1>1, <1>6, <1>8, <1>17 DEF Exact
  <2>2. \A k \in 1 .. Len(log) : k \in Whole
    BY <1>6, <2>1 DEF Whole
  <2>3. \A k \in 1 .. Len(trace) : k \in 1 .. Len(log) /\ trace[k] = IdLine(k)
    BY <1>1, <1>3, <1>17, <2>1 DEF Exact
  <2>4. ~(trace # << >> /\ Open(trace[Len(trace)]))
    <3> SUFFICES ASSUME trace # << >> PROVE ~Open(trace[Len(trace)])
      OBVIOUS
    <3>1. Len(trace) \in 1 .. Len(trace)
      BY <1>1
    <3> QED  BY <1>12, <2>3, <3>1
  <2>5. DimsIn(k0) /\ k0 \in Whole
    BY <1>1, <1>6, <1>8, <1>17, <2>1, <2>2 DEF Exact
  <2>6. Printed(i) = IdLine(k0)
    BY <1>14, <2>5
  <2>7. Len(trace') = Len(trace) + 1 /\ trace'[Len(trace) + 1] = IdLine(k0)
    BY <1>1, <1>5, <1>9, <2>4, <2>6, PrintingKeeps
  <2>8. \A k \in 1 .. Len(trace) : trace'[k] = trace[k]
    BY <1>1, <1>5, <1>9, <1>12, <2>3, PrintingKeeps
  <2>9. \A k \in 1 .. Len(trace') : trace'[k] = IdLine(k)'
    <3> SUFFICES ASSUME NEW k \in 1 .. Len(trace') PROVE trace'[k] = IdLine(k)'
      OBVIOUS
    <3>1. CASE k \in 1 .. Len(trace)
      BY <1>12, <2>3, <2>8, <3>1
    <3>2. CASE k = k0
      BY <1>12, <2>1, <2>7, <3>2
    <3> QED  BY <1>1, <2>1, <2>7, <3>1, <3>2
  <2>10. \A k \in Len(trace') + 1 .. Filled' : DimsIn(k)'
    <3> SUFFICES ASSUME NEW k \in Len(trace') + 1 .. Filled' PROVE DimsIn(k)'
      OBVIOUS
    <3>1. k \in Len(trace) + 1 .. Filled /\ k # k0 /\ k > base /\ k \in 1 .. Len(log)
      BY <1>1, <1>6, <2>1, <2>7
    <3>2. DimsIn(k) /\ k \in Whole
      BY <1>17, <2>2, <3>1 DEF Exact
    <3> QED  BY <1>13, <3>1, <3>2
  <2>11. broken' = {} /\ Len(trace') = base' + Flushed'
    BY <1>1, <1>5, <1>6, <2>1, <2>7
  <2> QED  BY <2>9, <2>10, <2>11 DEF Exact
<1> QED  BY <1>15, <1>16, <1>17

LEMMA FlushResetRecords ==
    ASSUME IInv, IInv', Core, IdsStay, NEW t \in Actors, FlushReset(t)
    PROVE  Core' /\ (Kept => Kept') /\ (Exact => Exact')
<1>1. /\ at[t].pc = "flush" /\ LocalsTyped
      /\ ptr \in Nat /\ base \in Nat /\ Len(log) \in Nat
      /\ at[t].i \in Nat /\ at[t].size \in Nat
  <2>1. at[t] \in Frame /\ LocalsTyped
    BY DEF IInv, TypeOK, LocalsTyped
  <2>2. ptr \in Nat /\ base \in Nat /\ Len(log) \in Nat
    BY DEF IInv, TypeOK, BuffersTyped, HistoryTyped
  <2> QED  BY <2>1, <2>2 DEF FlushReset, Frame
<1>2. at[t].i = ptr /\ ptr = Len(log) - base
  BY <1>1 DEF Core, FlusherOK, LogOK, FlushReset
<1>3. /\ \A u \in Actors \ {t} : at'[u] = at[u]
      /\ at'[t].pc = "funlock" /\ at'[t] = [at[t] EXCEPT !.pc = "funlock"]
  BY <1>1, GotoLocals DEF FlushReset, PCs
<1>4. ptr' = 0 /\ base' = Len(log) /\ UNCHANGED <<buf, idMap, trace, log, broken, cut>>
  BY DEF FlushReset
<1>5. Filled = Len(log) /\ Filled' = Filled /\ Flushed = ptr /\ Flushed' = 0
  <2>1. \A u \in Actors : at[u].pc # "store" /\ at'[u].pc # "store" /\ at'[u].pc # "flush"
    <3>1. \A u \in Actors : at[u].pc \in Inside => u = t
      BY <1>1, CountsKnown DEF CountsOK, Inside
    <3>2. \A u \in Actors \ {t} : at[u].pc \notin {"store", "flush"} /\ at'[u] = at[u]
      BY <1>3, <3>1 DEF Inside
    <3>3. at[t].pc = "flush" /\ at'[t].pc = "funlock"
      BY <1>1, <1>3
    <3> QED  BY ONLY <3>2, <3>3
  <2> QED  BY <1>1, <1>2, <1>4, <2>1, CountsKnown, CountsKnownNext DEF CountsOK
<1>6. Whole' = Whole /\ Sound' = Sound /\ Sound \subseteq Whole
  BY <1>4, <1>5 DEF Whole, Sound
<1>7. ASSUME NEW k \in Whole
      PROVE  /\ k \in 1 .. Len(log) /\ Complete(k)' /\ IdLine(k)' = IdLine(k)
             /\ InFile(k) => InFile(k)'
  <2>1. k \in 1 .. Len(log) /\ Complete(k) /\ LogOK
    BY <1>5 DEF Whole, Core, RecordsOK
  <2>2. Complete(k)' /\ IdLine(k)' = IdLine(k)
    BY <1>4, <2>1, RecordStays
  <2> QED  BY <1>4, <2>1, <2>2 DEF InFile
<1>8. Core'
  <2>1. WriterOK(t)' /\ FlusherOK(t)'
    BY <1>3 DEF WriterOK, FlusherOK
  <2>2. RecorderOK(t)'
    <3>1. at'[t].call = at[t].call
      BY <1>1, <1>3 DEF LocalsTyped, Frame
    <3> QED  BY <1>1, <1>3, <3>1 DEF Core, RecorderOK, Recording
  <2>3. \A u \in Actors : WriterOK(u)' /\ RecorderOK(u)' /\ FlusherOK(u)'
    BY <1>1, <1>3, <2>1, <2>2, ThreadsRecord DEF Inside
  <2>4. LogOK'
    BY <1>1, <1>4 DEF Core, LogOK
  <2>5. RecordsOK'
    <3>1. \A k \in Whole' : Complete(k)' /\ ~(k > base')
      BY <1>1, <1>4, <1>6, <1>7
    <3> QED  BY <3>1 DEF RecordsOK
  <2> QED  BY <2>3, <2>4, <2>5 DEF Core
<1>9. ASSUME Kept PROVE Kept'
  <2>1. \A k \in Sound' : InFile(k)'
    <3> SUFFICES ASSUME NEW k \in Sound PROVE InFile(k)'
      BY <1>6
    <3>1. k \in 1 .. Len(log) /\ (InFile(k) => InFile(k)')
      BY <1>6, <1>7
    <3>2. ~(k > base + Flushed)
      BY <1>1, <1>2, <1>5, <3>1
    <3> QED  BY <1>9, <3>1, <3>2 DEF Kept, SoundOK
  <2>2. SoundOK'
    BY <2>1 DEF SoundOK
  <2>3. TailOK'
    <3> SUFFICES ASSUME trace # << >>, Open(trace[Len(trace)])
                 PROVE  base' + Flushed' \in broken'
      BY <1>4 DEF TailOK
    <3>1. base + Flushed = Len(log) /\ base' + Flushed' = Len(log)
      BY <1>1, <1>2, <1>4, <1>5
    <3>2. base + Flushed \in broken \/ (Flushed = 0 /\ base + 1 \in 1 .. Filled)
      BY <1>9 DEF Kept, TailOK
    <3>3. ~(Flushed = 0 /\ base + 1 \in 1 .. Filled)
      BY <1>1, <1>5, <3>1
    <3> QED  BY <1>4, <3>1, <3>2, <3>3
  <2> QED  BY <2>2, <2>3 DEF Kept
<1>10. ASSUME Exact PROVE Exact'
  <2>1. broken = {} /\ Len(trace) = Len(log) /\ \A k \in 1 .. Len(trace) : trace[k] = IdLine(k)
    BY <1>1, <1>2, <1>5, <1>10 DEF Exact
  <2>2. \A k \in 1 .. Len(trace) : k \in Whole
    BY <1>5, <2>1 DEF Whole
  <2>3. Len(trace') + 1 .. Filled' = {}
    BY <1>1, <1>4, <1>5, <2>1
  <2>4. Len(trace') = base' + Flushed' /\ broken' = {}
    BY <1>1, <1>4, <1>5, <2>1
  <2>5. \A k \in 1 .. Len(trace') : trace'[k] = IdLine(k)'
    BY <1>4, <1>7, <2>1, <2>2
  <2> QED  BY <2>3, <2>4, <2>5 DEF Exact
<1> QED  BY <1>8, <1>9, <1>10

\* An Error in a flush: if it leaves a text without newline at the end of the
\* file, the first record of the buffers may be lost, or it is there already.
LEMMA CutTail ==
    ASSUME IInv, Core, SoundOK, NEW t \in Actors, Throw(t), at[t].pc = "flush",
           trace' # << >>, Open(trace'[Len(trace')]), trace' # trace \/ cut' # cut,
           NEW k, k = base + 1, IdLine(k)' = IdLine(k)
    PROVE  /\ k \in 1 .. Len(log)
           /\ k \in Sound /\ k \notin cut' => InFile(k)'
<1>1. LineCut(t)
  BY DEF Throw
<1>2. PICK i \in Nat : i = at[t].i
  BY DEF IInv, TypeOK, LocalsTyped, Frame
<1>3. /\ ptr \in 0 .. BUFMAX /\ BUFMAX \in Nat /\ base \in Nat /\ Len(log) \in Nat
      /\ trace \in Seq(FileLine)
  BY ConstantsAssumption DEF IInv, TypeOK, BuffersTyped, HistoryTyped
<1>4. i < ptr /\ ptr = Len(log) - base
  BY <1>1, <1>2 DEF LineCut, Core, FlusherOK, LogOK
<1>5. k \in 1 .. Len(log) /\ k = base + 1
  BY <1>3, <1>4
<1>6. Filled = Len(log) /\ Flushed = i
  <2>1. \A u \in Actors : at[u].pc # "store"
    BY CountsKnown DEF CountsOK, Inside
  <2> QED  BY <1>2, <2>1, CountsKnown DEF CountsOK
<1>7. ASSUME k \in Sound, k \notin cut' PROVE InFile(k)'
  <2>1. CASE i > 0
    <3>1. ~(k > base + Flushed)
      BY <1>3, <1>5, <1>6, <2>1
    <3>2. InFile(k)
      BY <1>7, <3>1 DEF SoundOK
    <3>3. trace' = trace \/ \E line \in FileLine : trace' = Printing(line)
      BY ThrowFile
    <3> QED  BY <1>5, <3>2, <3>3, InFileStays
  <2>2. CASE i = 0
    <3>1. trace' = Printing(Printed(i))
      BY <1>1, <1>2, <1>5, <1>7, <2>2 DEF LineCut
    <3>2. i \in Slots
      BY <1>3, <1>4 DEF Slots
    <3>3. Printed(i) \in FileLine
      BY <3>2, PrintedType DEF IInv, TypeOK, BuffersTyped
    <3>4. Open(Printed(i))
      BY <1>3, <3>1, <3>3, PrintingKeeps
    <3>5. k \in Whole /\ k = base + i + 1
      BY <1>3, <1>5, <1>7, <2>2 DEF Sound, Whole
    <3> QED  BY <1>5, <3>2, <3>4, <3>5, WholePrinted
  <2> QED  BY <1>2, <2>1, <2>2
<1> QED  BY <1>5, <1>7

\* An Error in the middle of a record, or of a flush.
LEMMA ThrowRecords ==
    ASSUME IInv, IInv', Core, IdsStay, NEW t \in Actors, Throw(t)
    PROVE  Core' /\ (Kept => Kept')
<1>1. /\ ptr \in Nat /\ base \in Nat /\ Len(log) \in Nat /\ broken \subseteq 1 .. Len(log)
      /\ LocalsTyped /\ saved[t] = << >>
  BY DEF IInv, TypeOK, LocalsTyped, BuffersTyped, HistoryTyped, ThreadOK, ReentryOK, Throw
<1>2. /\ \A u \in Actors \ {t} : at'[u] = at[u]
      /\ at'[t].pc \in {"app", "done", "ffail", "fail"}
  BY <1>1, UnwindLocals DEF Throw
<1>3. UNCHANGED <<ptr, buf, log, base>>
  BY DEF Throw
<1>4. RecorderOK(t)'
  BY <1>2 DEF RecorderOK
<1>5. CASE at[t].pc \notin {"store", "flush"}
  <2>1. trace' = trace /\ cut' = cut
    BY <1>5, ThrowFile
  <2>2. Quiet(t)
    BY <1>2, <1>3, <1>4, <1>5, <2>1 DEF Quiet, Throw
  <2> QED  BY <2>2, QuietRecords
<1>6. ASSUME at[t].pc \in {"store", "flush"}
      PROVE  Core' /\ (Kept => Kept')
  <2>1. Filled' = Len(log) /\ Flushed' = 0
    <3>1. \A u \in Actors : at'[u].pc \notin {"store", "flush"}
      BY <1>2, <1>6, CountsKnown DEF CountsOK, Inside
    <3> QED  BY <1>3, <3>1, CountsKnownNext DEF CountsOK
  <2>2. /\ at[t].pc = "store" => Filled = Len(log) - 1 /\ Flushed = 0
                                 /\ broken' = broken \cup {Len(log)}
        /\ at[t].pc = "flush" => Filled = Len(log) /\ broken' = broken
    <3>1. broken' = IF at[t].pc = "store" THEN broken \cup {Len(log)} ELSE broken
      BY DEF Throw
    <3>2. at[t].pc = "store" => \A u \in Actors : at[u].pc # "flush"
      BY CountsKnown DEF CountsOK, Inside
    <3>3. at[t].pc = "flush" => \A u \in Actors : at[u].pc # "store"
      BY CountsKnown DEF CountsOK, Inside
    <3> QED  BY <3>1, <3>2, <3>3, CountsKnown DEF CountsOK
  <2>3. Whole' = Whole
    <3>1. CASE at[t].pc = "store"
      <4>1. \A k \in 1 .. Len(log) : k # Len(log) => k \in 1 .. Len(log) - 1
        BY <1>1
      <4>2. 1 .. Len(log) - 1 \subseteq 1 .. Len(log) /\ Len(log) \notin 1 .. Len(log) - 1
        BY <1>1
      <4> QED  BY <2>1, <2>2, <3>1, <4>1, <4>2 DEF Whole
    <3>2. CASE at[t].pc = "flush"
      BY <2>1, <2>2, <3>2 DEF Whole
    <3> QED  BY <1>6, <3>1, <3>2
  <2>4. Sound' \subseteq Sound /\ Sound' \cap cut' = {} /\ Sound \subseteq Whole /\ Filled <= Filled' /\ Filled \in Nat
    <3>1. broken \subseteq broken' /\ cut \subseteq cut'
      BY <1>6, <2>2 DEF Throw, LineCut
    <3>2. Sound' \subseteq Whole'
      BY DEF Sound, Whole
    <3> QED  BY <1>1, <1>6, <2>1, <2>2, <2>3, <3>1, <3>2, CountsKnown DEF Sound, Whole, CountsOK
  <2>5. ASSUME NEW k \in Whole
        PROVE  /\ k \in 1 .. Len(log) /\ Complete(k)' /\ IdLine(k)' = IdLine(k)
               /\ SlotMade(k) => SlotMade(k)'
               /\ DimsIn(k) => DimsIn(k)'
               /\ InFile(k) => InFile(k)'
    <3>1. k \in 1 .. Len(log) /\ Complete(k) /\ LogOK
      BY <2>1, <2>3 DEF Whole, Core, RecordsOK
    <3>2. log'[k] = log[k] /\ base' = base
          /\ \A f \in Fields : buf'[f][k - base - 1] = buf[f][k - base - 1]
      BY <1>3
    <3>3. Complete(k)' /\ IdLine(k)' = IdLine(k) /\ (SlotMade(k) => SlotMade(k)')
          /\ (DimsIn(k) => DimsIn(k)')
      BY <3>1, <3>2, RecordStays DEF Fields
    <3> QED  BY <3>1, <3>3, ThrowFile, InFileStays
  <2>6. Core'
    <3>1. WriterOK(t)' /\ FlusherOK(t)'
      BY <1>2 DEF WriterOK, FlusherOK
    <3>2. \A u \in Actors : WriterOK(u)' /\ RecorderOK(u)' /\ FlusherOK(u)'
      BY <1>2, <1>3, <1>4, <3>1, ThreadsRecord
    <3>3. LogOK'
      BY <1>3 DEF Core, LogOK
    <3>4. RecordsOK'
      BY <1>3, <2>3, <2>5 DEF Core, RecordsOK
    <3> QED  BY <3>2, <3>3, <3>4 DEF Core
  <2>7. ASSUME Kept PROVE Kept'
    <3>1. ASSUME NEW k \in Sound
          PROVE  InFile(k)' \/ (k > base' + Flushed' /\ DimsIn(k)')
      <4>1. k \in Whole /\ k \in 1 .. Len(log) /\ Flushed \in Nat
        BY <2>4, <2>5, CountsKnown DEF CountsOK
      <4>2. InFile(k) \/ (k > base + Flushed /\ DimsIn(k))
        BY <2>7 DEF Kept, SoundOK
      <4> QED  BY <1>1, <1>3, <2>1, <2>5, <4>1, <4>2
    <3>2. SoundOK'
      BY <2>4, <3>1 DEF SoundOK
    <3>3. TailOK'
      <4> SUFFICES ASSUME trace' # << >>, Open(trace'[Len(trace')]),
                          base \notin broken', NEW k, k = base + 1
                   PROVE  k \in 1 .. Filled' /\ (k \in Sound' => InFile(k)')
        <5>1. base' + Flushed' = base /\ base' + 1 = base + 1
          BY <1>1, <1>3, <2>1
        <5> QED  BY <2>1, <5>1 DEF TailOK, InFile
      <4>1. base \notin broken /\ Flushed \in Nat
        BY <1>6, <2>2, CountsKnown DEF CountsOK
      <4>2. CASE trace' = trace /\ cut' = cut
        <5>1. base + Flushed \in broken \/
                (Flushed = 0 /\ k \in 1 .. Filled /\ (k \in Sound => InFile(k)))
          BY <2>7, <4>2 DEF Kept, TailOK
        <5>2. k \in 1 .. Filled /\ (k \in Sound => InFile(k))
          <6>1. CASE base + Flushed \in broken
            <7>1. Flushed >= 1
              BY <1>1, <4>1, <6>1
            <7>2. k \in 1 .. Filled
              BY <1>1, <2>4, <7>1, <4>1, FlushedInLog
            <7>3. ~(k > base + Flushed)
              BY <1>1, <4>1, <7>1
            <7> QED  BY <2>7, <7>2, <7>3 DEF Kept, SoundOK
          <6> QED  BY <5>1, <6>1
        <5>3. k \in Sound' => InFile(k)'
          BY <2>4, <2>5, <5>2
        <5>4. k \in 1 .. Filled'
          BY <1>1, <2>1, <2>4, <5>2
        <5> QED  BY <5>3, <5>4
      <4>3. CASE ~(trace' = trace /\ cut' = cut)
        <5>1. at[t].pc = "flush"
          BY <4>3, ThrowFile
        <5>2. IdLine(k)' = IdLine(k)
          <6>1. idMap' = idMap /\ log' = log
            BY <1>3, <4>3, <5>1 DEF Throw
          <6> QED  BY <6>1 DEF IdLine, ObjectId
        <5>3. k \in 1 .. Len(log) /\ (k \in Sound /\ k \notin cut' => InFile(k)')
          BY <2>7, <4>3, <5>1, <5>2, CutTail DEF Kept
        <5> QED  BY <2>1, <2>4, <5>3
      <4> QED  BY <4>2, <4>3
    <3> QED  BY <3>2, <3>3 DEF Kept
  <2> QED  BY <2>6, <2>7
<1> QED  BY <1>5, <1>6

------------------------------------------------------------------------------
(* The remaining steps.                                                    *)

\* A step of t to a point pc of its handler that records nothing.
LEMMA GotoQuiet ==
    ASSUME IInv, Core, NEW t \in Actors, NEW pc \in PCs \ {"store", "flush"}, Goto(t, pc),
           at[t].pc \notin {"store", "flush"},
           UNCHANGED <<ptr, buf, trace, log, base, broken, cut>>,
           t \in Threads => CASE pc \in {"check", "claim", "flock", "funlock"} -> Recording(t)
                              [] pc = "put" -> ~Recording(t)
                              [] OTHER -> TRUE
    PROVE  Quiet(t)
<1>1. /\ \A u \in Actors \ {t} : at'[u] = at[u]
      /\ at'[t] = [at[t] EXCEPT !.pc = pc] /\ at'[t].pc = pc
  BY GotoLocals DEF IInv, TypeOK
<1>2. at'[t].call = at[t].call
  BY <1>1 DEF IInv, TypeOK, LocalsTyped, Frame
<1> QED  BY <1>1, <1>2 DEF Quiet, RecorderOK, Recording

LEMMA QuietSteps ==
    ASSUME IInv, Core, NEW t \in Actors,
           \/ Lock(t) \/ Check(t) \/ Put(t) \/ Unlock(t) \/ Clear(t)
           \/ FlushLock(t) \/ FlushUnlock(t) \/ FlushFinally(t) \/ HandlerFinally(t)
    PROVE  Quiet(t)
<1>1. CASE Lock(t)
  <2>1. Recording(t) <=> at[t].call.op # "witnessObjectAliveVer2"
    BY DEF Recording
  <2> QED  BY <1>1, <2>1, GotoQuiet DEF Lock, PCs
<1>2. CASE Check(t)
  <2>1. t \in Threads => Recording(t)
    BY <1>2 DEF Core, RecorderOK, Check
  <2> QED  BY <1>2, <2>1, GotoQuiet DEF Check, PCs
<1>3. CASE Put(t)
  BY <1>3, GotoQuiet DEF Put, PCs
<1>4. CASE Unlock(t)
  BY <1>4, GotoQuiet DEF Unlock, PCs
<1>5. CASE Clear(t)
  <2>1. saved[t] = << >> /\ at \in [Actors -> Frame]
    BY DEF IInv, ThreadOK, ReentryOK, TypeOK, LocalsTyped
  <2>2. at' = [at EXCEPT ![t] = Resting] /\ at[t].pc = "clear"
    BY <1>5, <2>1 DEF Clear
  <2>3. at'[t].pc = "app" /\ \A u \in Actors \ {t} : at'[u] = at[u]
    BY <2>1, <2>2 DEF Resting
  <2> QED  BY <1>5, <2>2, <2>3 DEF Clear, Quiet, RecorderOK
<1>6. CASE FlushLock(t)
  <2>1. at \in [Actors -> Frame] /\ at[t].pc = "flock" /\ ptr \in 0 .. BUFMAX /\ BUFMAX \in Nat
    BY <1>6, ConstantsAssumption DEF FlushLock, IInv, TypeOK, LocalsTyped, BuffersTyped
  <2>2. FlushSize = ptr
    BY <2>1 DEF FlushSize
  <2>3. at' = [at EXCEPT ![t].pc = "flush", ![t].i = 0, ![t].size = ptr]
    BY <1>6, <2>2 DEF FlushLock
  <2>4. /\ \A u \in Actors \ {t} : at'[u] = at[u]
        /\ at'[t].pc = "flush" /\ at'[t].i = 0 /\ at'[t].size = ptr /\ at'[t].call = at[t].call
    BY <2>1, <2>3 DEF Frame
  <2>5. t \in Threads => Recording(t)
    BY <2>1 DEF Core, RecorderOK
  <2> QED  BY <1>6, <2>1, <2>4, <2>5 DEF FlushLock, Quiet, RecorderOK, Recording
<1>7. CASE FlushUnlock(t)
  <2>1. t \in Threads => Recording(t)
    BY <1>7 DEF Core, RecorderOK, FlushUnlock
  <2> QED  BY <1>7, <2>1, GotoQuiet DEF FlushUnlock, PCs
<1>8. CASE FlushFinally(t) \/ HandlerFinally(t)
  <2>1. LocalsTyped /\ saved[t] = << >> /\ at[t].pc \in {"ffail", "fail"}
    BY <1>8 DEF FlushFinally, HandlerFinally, IInv, TypeOK, ThreadOK, ReentryOK
  <2>2. Leave(t) \/ (Goto(t, "fail") /\ UNCHANGED saved)
    BY <1>8 DEF FlushFinally, HandlerFinally
  <2>3. /\ \A u \in Actors \ {t} : at'[u] = at[u]
        /\ at'[t].pc \in {"app", "done", "fail"}
    <3>1. CASE Leave(t)
      BY <2>1, <3>1, LeaveLocals
    <3>2. CASE Goto(t, "fail") /\ UNCHANGED saved
      BY <2>1, <3>2, FailLocals
    <3> QED  BY <2>2, <3>1, <3>2
  <2> QED  BY <1>8, <2>1, <2>3 DEF FlushFinally, HandlerFinally, Quiet, RecorderOK
<1> QED  BY <1>1, <1>2, <1>3, <1>4, <1>5, <1>6, <1>7, <1>8

LEMMA EnterQuiet ==
    ASSUME IInv, NEW t \in Threads, NEW c \in Calls, Enter(t, c), ~InHandler(t)
    PROVE  Quiet(t) /\ at[t].pc = "app" /\ at'[t].pc = "lock" /\ at'[t].call = c
<1>1. t \in Actors /\ at \in [Actors -> Frame] /\ at[t].pc = "app"
  BY DEF Actors, IInv, TypeOK, LocalsTyped, InHandler, ThreadOK, ReentryOK
<1> DEFINE ts == IF c.op = "witnessObjectAliveVer2" THEN made ELSE 0
<1>2. at' = [at EXCEPT ![t] = [Resting EXCEPT !.pc = "lock", !.call = c, !.ts = ts]]
  BY DEF Enter, InHandler
<1> HIDE DEF ts
<1>3. /\ \A u \in Actors \ {t} : at'[u] = at[u]
      /\ at'[t].pc = "lock" /\ at'[t].call = c
  BY <1>1, <1>2 DEF Resting
<1> QED  BY <1>1, <1>3 DEF Enter, InHandler, Quiet, RecorderOK

LEMMA HookQuiet ==
    ASSUME IInv, Core, HookStart \/ Halt
    PROVE  Quiet(Hook)
<1>1. Hook \in Actors /\ Hook \notin Threads
  BY ConstantsAssumption DEF Actors
<1>2. CASE HookStart
  BY <1>1, <1>2, GotoQuiet DEF HookStart, PCs
<1>3. CASE Halt
  BY <1>1, <1>3 DEF Halt, Quiet, RecorderOK
<1> QED  BY <1>2, <1>3

LEMMA StutterRecords ==
    ASSUME Core, UNCHANGED vars
    PROVE  Core' /\ (Kept => Kept') /\ (Exact => Exact')
<1>1. Filled' = Filled /\ Flushed' = Flushed
  BY DEF vars, Filled, Flushed
<1>2. Whole' = Whole /\ Sound' = Sound
  BY <1>1 DEF vars, Whole, Sound
<1>3. \A k : /\ Complete(k)' <=> Complete(k)
             /\ SlotMade(k)' <=> SlotMade(k)
             /\ DimsIn(k)' <=> DimsIn(k)
             /\ IdLine(k)' = IdLine(k)
             /\ InFile(k)' <=> InFile(k)
  <2> SUFFICES ASSUME NEW k
               PROVE  /\ Complete(k)' <=> Complete(k)
                      /\ SlotMade(k)' <=> SlotMade(k)
                      /\ DimsIn(k)' <=> DimsIn(k)
                      /\ IdLine(k)' = IdLine(k)
                      /\ InFile(k)' <=> InFile(k)
    OBVIOUS
  <2>1. idMap' = idMap /\ buf' = buf /\ base' = base /\ log' = log /\ trace' = trace
    BY DEF vars
  <2>2. IdLine(k)' = IdLine(k)
    BY <2>1 DEF IdLine, ObjectId
  <2>3. InFile(k)' <=> InFile(k)
    BY <2>1, <2>2 DEF InFile
  <2>4. Complete(k)' <=> Complete(k)
    BY <2>1 DEF Complete, Known
  <2>5. SlotMade(k)' <=> SlotMade(k)
    BY <2>1 DEF SlotMade, Made, Known, Value
  <2>6. DimsIn(k)' <=> DimsIn(k)
    BY <2>1 DEF DimsIn, DimsMade, Value
  <2> QED  BY <2>2, <2>3, <2>4, <2>5, <2>6
<1>4. \A t \in Actors : WriterOK(t)' /\ RecorderOK(t)' /\ FlusherOK(t)'
  BY DEF vars, Core, WriterOK, RecorderOK, FlusherOK, Recording, Known, Value
<1>5. Core'
  BY <1>2, <1>3, <1>4 DEF vars, Core, LogOK, RecordsOK
<1>6. (Kept => Kept') /\ (Exact => Exact')
  BY <1>1, <1>2, <1>3 DEF vars, Kept, SoundOK, TailOK, Exact
<1> QED  BY <1>5, <1>6

LEMMA InitRecords == Init => Core /\ Kept /\ Exact
<1> SUFFICES ASSUME Init PROVE Core /\ Kept /\ Exact
  OBVIOUS
<1>1. \A t \in Actors : at[t].pc = "app"
  BY DEF Init, Resting
<1>2. Filled = 0 /\ Flushed = 0 /\ Len(log) = 0 /\ Len(trace) = 0 /\ trace = << >>
  BY <1>1 DEF Init, Filled, Flushed
<1>3. Whole = {} /\ Sound = {}
  BY <1>2 DEF Whole, Sound
<1>4. \A t \in Actors : WriterOK(t) /\ RecorderOK(t) /\ FlusherOK(t)
  BY <1>1 DEF WriterOK, RecorderOK, FlusherOK
<1>5. Core
  BY <1>2, <1>3, <1>4 DEF Init, Core, LogOK, RecordsOK
<1>6. Kept
  BY <1>2, <1>3 DEF Kept, SoundOK, TailOK
<1>7. Exact
  BY <1>2 DEF Init, Exact
<1> QED  BY <1>5, <1>6, <1>7

LEMMA NextRecords ==
    ASSUME IInv, IInv', Core, [Next]_vars
    PROVE  Core' /\ (Kept => Kept') /\ (Faults = FALSE /\ Exact => Exact')
<1>0. IdsStay
  BY StepKeepsIds DEF IdsStay
<1>1. ASSUME NEW t \in Threads, NEW c \in Calls, Enter(t, c)
      PROVE  Core' /\ (Kept => Kept') /\ (Exact => Exact')
  <2>1. CASE InHandler(t)
    BY <1>1, <2>1, StutterRecords DEF Enter
  <2>2. CASE ~InHandler(t)
    BY <1>0, <1>1, <2>2, EnterQuiet, QuietRecords DEF Actors
  <2> QED  BY <2>1, <2>2
<1>2. ASSUME NEW t \in Actors, HandlerStep(t)
      PROVE  Core' /\ (Kept => Kept') /\ (Exact => Exact')
  <2>1. CASE Claim(t)
    BY <1>0, <2>1, ClaimRecords
  <2>2. CASE Store(t)
    BY <1>0, <2>2, StoreRecords
  <2>3. CASE FlushRecord(t)
    BY <1>0, <2>3, FlushRecordRecords
  <2>4. CASE FlushReset(t)
    BY <1>0, <2>4, FlushResetRecords
  <2>5. CASE \/ Lock(t) \/ Check(t) \/ Put(t) \/ Unlock(t) \/ Clear(t)
             \/ FlushLock(t) \/ FlushUnlock(t) \/ FlushFinally(t) \/ HandlerFinally(t)
    <3>1. Quiet(t)
      BY <2>5, QuietSteps
    <3> QED  BY <1>0, <3>1, QuietRecords
  <2> QED  BY <1>2, <2>1, <2>2, <2>3, <2>4, <2>5 DEF HandlerStep
<1>3. ASSUME NEW t \in Actors, Throw(t)
      PROVE  Core' /\ (Kept => Kept') /\ (Faults = FALSE => FALSE)
  <2>1. Faults
    BY <1>3 DEF Throw
  <2> QED  BY <1>0, <1>3, <2>1, ThrowRecords
<1>4. CASE HookStart \/ Halt
  <2>1. Quiet(Hook) /\ Hook \in Actors
    BY <1>4, HookQuiet DEF Actors
  <2> QED  BY <1>0, <2>1, QuietRecords
<1>5. CASE Halted \/ UNCHANGED vars
  BY <1>5, StutterRecords DEF Halted
<1> QED  BY <1>1, <1>2, <1>3, <1>4, <1>5 DEF Next

LEMMA CoreInductive == Spec => [](Core /\ Kept)
<1>1. IInv /\ IInv' /\ Core /\ Kept /\ [Next]_vars => (Core /\ Kept)'
  BY NextRecords
<1> QED  BY Inductive, InitRecords, <1>1, PTL DEF Spec

LEMMA ExactInductive == Faults = FALSE => (Spec => []Exact)
<1> SUFFICES ASSUME Faults = FALSE PROVE Spec => []Exact
  OBVIOUS
<1>1. IInv /\ IInv' /\ Core /\ Exact /\ [Next]_vars => Exact'
  BY NextRecords
<1> QED  BY Inductive, CoreInductive, InitRecords, <1>1, PTL DEF Spec

\* What the invariants say of the slots and the file.
LEMMA FilledSlot ==
    ASSUME IInv, Core, NEW k \in Whole, k > base
    PROVE  /\ k - base - 1 \in Slots /\ k - base - 1 < ptr
           /\ DimsIn(k) => Printed(k - base - 1) = IdLine(k)
<1>1. /\ ptr \in 0 .. BUFMAX /\ BUFMAX \in Nat /\ base \in Nat /\ Len(log) \in Nat
      /\ ptr = Len(log) - base
  BY ConstantsAssumption DEF IInv, TypeOK, BuffersTyped, HistoryTyped, Core, LogOK
<1>2. k \in 1 .. Len(log)
  BY <1>1, CountsKnown DEF CountsOK, Whole
<1>3. PICK j \in Slots : j = k - base - 1
  BY <1>1, <1>2 DEF Slots
<1>4. PICK t \in Actors, c \in Calls : t = log[k].thread /\ c = log[k].call
  BY <1>2, ClaimTyped
<1>5. c.op # "witnessObjectAliveVer2" /\ Made(j, t, c)
  BY <1>2, <1>3, <1>4 DEF Core, LogOK, RecordsOK, SlotMade
<1>6. IdLine(k) = Line(t, c, ObjectId, 0) /\ (DimsIn(k) => DimsMade(j, t, c))
  BY <1>3, <1>4 DEF IdLine, DimsIn
<1>7. DimsMade(j, t, c) => Printed(j) = Line(t, c, ObjectId, 0)
  BY <1>5, PrintedIsLine
<1> QED  BY <1>1, <1>2, <1>3, <1>6, <1>7

LEMMA ExactImplies == IInv /\ Core /\ Exact => TraceFaithful /\ ShutdownFlushesAll
<1> SUFFICES ASSUME IInv, Core, Exact PROVE TraceFaithful /\ ShutdownFlushesAll
  OBVIOUS
<1>1. /\ base \in Nat /\ Len(log) \in Nat /\ Len(trace) \in Nat /\ Flushed \in Nat
      /\ Filled \in 0 .. Len(log)
  BY CountsKnown DEF CountsOK, IInv, TypeOK, HistoryTyped
<1>2. TraceFaithful
  <2>1. ptr = Len(log) - base /\ Len(trace) = base + Flushed
    BY DEF Core, LogOK, Exact
  <2>2. \A k \in 1 .. Len(trace) : trace[k] = IdLine(k)
    BY DEF Exact
  <2>3. ASSUME NEW k \in Len(trace) + 1 .. Filled
        PROVE  Printed(k - base - 1) = IdLine(k)
    <3>1. k \in 1 .. Filled /\ k > base
      BY <1>1, <2>1
    <3>2. k \in Whole /\ DimsIn(k)
      BY <3>1 DEF Exact, Whole
    <3> QED  BY <3>1, <3>2, FilledSlot
  <2> QED  BY <2>1, <2>2, <2>3 DEF TraceFaithful
<1>3. ShutdownFlushesAll
  <2> SUFFICES ASSUME at[Hook].pc = "funlock" PROVE ptr = 0 /\ Len(trace) = Len(log)
    BY DEF ShutdownFlushesAll
  <2>1. Hook \in Actors
    BY DEF Actors
  <2>2. ptr = 0
    BY <2>1 DEF IInv, ThreadOK, SlotOK
  <2>3. \A t \in Actors : at[t].pc # "flush"
    BY <2>1, CountsKnown DEF CountsOK, Inside
  <2>4. Flushed = 0
    BY <2>3, CountsKnown DEF CountsOK
  <2> QED  BY <1>1, <2>2, <2>4 DEF Core, LogOK, Exact
<1> QED  BY <1>2, <1>3

LEMMA KeptImplies == IInv /\ Core /\ Kept => CompletedNotLost
<1> SUFFICES ASSUME IInv, Core, Kept, NEW k \in Sound
             PROVE  \/ InFile(k)
                    \/ k > base /\ k - base - 1 < ptr
                         /\ Printed(k - base - 1) = IdLine(k)
  BY DEF CompletedNotLost, Sound, InFile
<1>1. k \in Whole /\ k \in Nat /\ base \in Nat /\ Flushed \in Nat
  BY CountsKnown DEF CountsOK, Sound, Whole, IInv, TypeOK, HistoryTyped
<1>2. InFile(k) \/ (k > base /\ DimsIn(k))
  BY <1>1 DEF Kept, SoundOK
<1> QED  BY <1>1, <1>2, FilledSlot

LEMMA MxOKImplies == IInv => MxNotLeaked
<1> SUFFICES ASSUME IInv, NEW t \in Actors, owner = t PROVE holds \in 1 .. UnlocksAhead(t)
  BY DEF MxNotLeaked
<1>1. MxOK(t) /\ FlushOK(t)
  BY DEF IInv, ThreadOK
<1>2. at[t].pc \in Inside \cup {"flock", "ffail", "fail"}
  BY <1>1 DEF MxOK
<1>3. CASE at[t].pc = "ffail"
  BY <1>1, <1>3 DEF MxOK, UnlocksAhead
<1>4. CASE at[t].pc \in {"flush", "funlock"}
  BY <1>1, <1>4 DEF MxOK, UnlocksAhead
<1>5. CASE at[t].pc \in {"check", "claim", "store", "put", "unlock", "flock", "fail"}
  BY <1>1, <1>5 DEF MxOK, UnlocksAhead
<1> QED  BY <1>2, <1>3, <1>4, <1>5 DEF Inside

\* Errors or not, a thread that holds mx has an unlock ahead of it for each time
\* it holds it, through both finally blocks: no way out of a handler keeps mx.
THEOREM LockNotLeaked == Spec => []MxNotLeaked
<1> QED  BY Inductive, MxOKImplies, PTL

\* Without Errors the trace is the log of the calls: nothing is lost, repeated,
\* reordered or taken from an older record, however the threads interleave and
\* whatever the size of the buffers.
THEOREM FaithfulTrace == Faults = FALSE => (Spec => []TraceFaithful)
<1> SUFFICES ASSUME Faults = FALSE PROVE Spec => []TraceFaithful
  OBVIOUS
<1> QED  BY Inductive, CoreInductive, ExactInductive, ExactImplies, PTL

\* Without Errors the shutdown hook's flush leaves no claimed record out.
THEOREM ShutdownComplete == Faults = FALSE => (Spec => []ShutdownFlushesAll)
<1> SUFFICES ASSUME Faults = FALSE PROVE Spec => []ShutdownFlushesAll
  OBVIOUS
<1> QED  BY Inductive, CoreInductive, ExactInductive, ExactImplies, PTL

\* With Errors too, a record that was filled reaches the file, or the next
\* flush finds it whole, unless it follows one that an Error cut short or was
\* first in the buffers when an Error left half of its line.
THEOREM CompletedKept == Spec => []CompletedNotLost
<1> QED  BY Inductive, CoreInductive, KeptImplies, PTL

------------------------------------------------------------------------------
(* QTRProxy implements TraceLog, step by step.                             *)

LogLine(k) == HashLine(log[k].thread, log[k].call)

\* An id that was given out is read back as the hash it was given to.
LEMMA IdReadBack ==
    ASSUME IInv, NEW h \in Hashes, idMap[h] # 0
    PROVE  HashOfId(idMap[h]) = h
<1>1. \A g \in Hashes : idMap[g] = idMap[h] => g = h
  BY DEF IInv, IdsOK, IdsDistinct
<1> QED  BY <1>1 DEF HashOfId

LEMMA DecodedIs ==
    ASSUME NEW kind, NEW a
    PROVE  Decoded([kind |-> kind, args |-> a]) =
             [kind |-> kind,
              args |-> [p \in DOMAIN a |-> IF p \in IdArgs(kind) THEN HashOfId(a[p]) ELSE a[p]]]
BY DEF Decoded

LEMMA DecodedLine ==
    ASSUME IInv, NEW t \in Actors, NEW c \in Calls, c.op # "witnessObjectAliveVer2",
           \A p \in 1 .. Len(Stores(t, c)) : Known(Stores(t, c)[p])
    PROVE  Decoded(Line(t, c, ObjectId, 0)) = HashLine(t, c)
<1>0. t \in Objects /\ c \in CallType /\ Null \in Objects
  BY ConstantsAssumption
<1>1. ASSUME NEW o \in Objects, idMap[Hash[o]] # 0 PROVE HashOfId(ObjectId[o]) = Hash[o]
  BY <1>1, IdReadBack DEF ObjectId, Hashes
<1>2. ASSUME NEW p \in 1 .. Len(Stores(t, c)), Stores(t, c)[p].isRef
      PROVE  idMap[Hash[Stores(t, c)[p].ref]] # 0
  BY <1>2 DEF Known
<1>3. CASE c.op = "onEntry"
  <2>1. Stores(t, c) = EntryStores(t, c)
    BY <1>3 DEF Stores
  <2>2. 2 \in 1 .. Len(Stores(t, c)) /\ 4 \in 1 .. Len(Stores(t, c))
    BY <2>1 DEF EntryStores
  <2>3. /\ c.obj # Null => HashOfId(ObjectId[c.obj]) = Hash[c.obj]
        /\ HashOfId(ObjectId[t]) = Hash[t] /\ HashOfId(0) = NoHash
    BY <1>0, <1>1, <1>2, <2>1, <2>2 DEF EntryStores, Set, SetId, CallType, HashOfId
  <2> DEFINE a == <<c.id, IF c.obj = Null THEN 0 ELSE ObjectId[c.obj], ObjectId[t]>>
  <2>4. Line(t, c, ObjectId, 0) = [kind |-> "M", args |-> a]
    BY <1>3 DEF Line
  <2>5. [p \in DOMAIN a |-> IF p \in IdArgs("M") THEN HashOfId(a[p]) ELSE a[p]]
          = <<c.id, HashOfId(a[2]), HashOfId(a[3])>>
    BY DEF IdArgs
  <2>6. <<c.id, HashOfId(a[2]), HashOfId(a[3])>>
          = <<c.id, IF c.obj = Null THEN NoHash ELSE Hash[c.obj], Hash[t]>>
    BY <2>3
  <2>7. HashLine(t, c) = [kind |-> "M", args |-> <<c.id, HashOfId(a[2]), HashOfId(a[3])>>]
    BY <1>3, <2>6 DEF HashLine, Line
  <2> HIDE DEF a
  <2>8. Decoded([kind |-> "M", args |-> a]) =
          [kind |-> "M",
           args |-> [p \in DOMAIN a |-> IF p \in IdArgs("M") THEN HashOfId(a[p]) ELSE a[p]]]
    BY DecodedIs
  <2> QED  BY <2>4, <2>5, <2>7, <2>8
<1>4. CASE c.op = "onExit"
  <2>1. Stores(t, c) = ExitStores(t, c)
    BY <1>4 DEF Stores
  <2>2. 3 \in 1 .. Len(Stores(t, c))
    BY <2>1 DEF ExitStores
  <2>3. HashOfId(ObjectId[t]) = Hash[t]
    BY <1>0, <1>1, <1>2, <2>1, <2>2 DEF ExitStores, Set, SetId, CallType
  <2> DEFINE a == <<c.id, ObjectId[t]>>
  <2>4. Line(t, c, ObjectId, 0) = [kind |-> "E", args |-> a]
    BY <1>4 DEF Line
  <2>5. [p \in DOMAIN a |-> IF p \in IdArgs("E") THEN HashOfId(a[p]) ELSE a[p]]
          = <<c.id, HashOfId(a[2])>>
    BY DEF IdArgs
  <2>6. <<c.id, HashOfId(a[2])>>
          = <<c.id, Hash[t]>>
    BY <2>3
  <2>7. HashLine(t, c) = [kind |-> "E", args |->
          <<c.id, HashOfId(a[2])>>]
    BY <1>4, <2>6 DEF HashLine, Line
  <2> HIDE DEF a
  <2>8. Decoded([kind |-> "E", args |-> a]) =
          [kind |-> "E",
           args |-> [p \in DOMAIN a |-> IF p \in IdArgs("E") THEN HashOfId(a[p]) ELSE a[p]]]
    BY DecodedIs
  <2> QED  BY <2>4, <2>5, <2>7, <2>8
<1>5. CASE c.op = "onObjectAlloc"
  <2>1. Stores(t, c) = AllocStores(t, c)
    BY <1>5 DEF Stores
  <2>2. 1 \in 1 .. Len(Stores(t, c)) /\ 6 \in 1 .. Len(Stores(t, c))
    BY <2>1 DEF AllocStores
  <2>3. HashOfId(ObjectId[c.obj]) = Hash[c.obj] /\ HashOfId(ObjectId[t]) = Hash[t]
    BY <1>0, <1>1, <1>2, <2>1, <2>2 DEF AllocStores, Set, SetId, CallType
  <2> DEFINE a == <<ObjectId[c.obj], c.size, c.id, c.site, 0, ObjectId[t]>>
  <2>4. Line(t, c, ObjectId, 0) = [kind |-> "N", args |-> a]
    BY <1>5 DEF Line
  <2>5. [p \in DOMAIN a |-> IF p \in IdArgs("N") THEN HashOfId(a[p]) ELSE a[p]]
          = <<HashOfId(a[1]), c.size, c.id, c.site, 0, HashOfId(a[6])>>
    BY DEF IdArgs
  <2>6. <<HashOfId(a[1]), c.size, c.id, c.site, 0, HashOfId(a[6])>>
          = <<Hash[c.obj], c.size, c.id, c.site, 0, Hash[t]>>
    BY <2>3
  <2>7. HashLine(t, c) = [kind |-> "N", args |->
          <<HashOfId(a[1]), c.size, c.id, c.site, 0, HashOfId(a[6])>>]
    BY <1>5, <2>6 DEF HashLine, Line
  <2> HIDE DEF a
  <2>8. Decoded([kind |-> "N", args |-> a]) =
          [kind |-> "N",
           args |-> [p \in DOMAIN a |-> IF p \in IdArgs("N") THEN HashOfId(a[p]) ELSE a[p]]]
    BY DecodedIs
  <2> QED  BY <2>4, <2>5, <2>7, <2>8
<1>6. CASE c.op = "onPutField"
  <2>1. Stores(t, c) = PutFieldStores(t, c)
    BY <1>6 DEF Stores
  <2>2. 2 \in 1 .. Len(Stores(t, c)) /\ 4 \in 1 .. Len(Stores(t, c)) /\ 5 \in 1 .. Len(Stores(t, c))
    BY <2>1 DEF PutFieldStores
  <2>3. HashOfId(ObjectId[c.obj]) = Hash[c.obj] /\ HashOfId(ObjectId[c.tgt]) = Hash[c.tgt] /\ HashOfId(ObjectId[t]) = Hash[t]
    BY <1>0, <1>1, <1>2, <2>1, <2>2 DEF PutFieldStores, Set, SetId, CallType
  <2> DEFINE a == <<ObjectId[c.obj], ObjectId[c.tgt], c.id, ObjectId[t]>>
  <2>4. Line(t, c, ObjectId, 0) = [kind |-> "U", args |-> a]
    BY <1>6 DEF Line
  <2>5. [p \in DOMAIN a |-> IF p \in IdArgs("U") THEN HashOfId(a[p]) ELSE a[p]]
          = <<HashOfId(a[1]), HashOfId(a[2]), c.id, HashOfId(a[4])>>
    BY DEF IdArgs
  <2>6. <<HashOfId(a[1]), HashOfId(a[2]), c.id, HashOfId(a[4])>>
          = <<Hash[c.obj], Hash[c.tgt], c.id, Hash[t]>>
    BY <2>3
  <2>7. HashLine(t, c) = [kind |-> "U", args |->
          <<HashOfId(a[1]), HashOfId(a[2]), c.id, HashOfId(a[4])>>]
    BY <1>6, <2>6 DEF HashLine, Line
  <2> HIDE DEF a
  <2>8. Decoded([kind |-> "U", args |-> a]) =
          [kind |-> "U",
           args |-> [p \in DOMAIN a |-> IF p \in IdArgs("U") THEN HashOfId(a[p]) ELSE a[p]]]
    BY DecodedIs
  <2> QED  BY <2>4, <2>5, <2>7, <2>8
<1>7. CASE c.op = "onArrayAlloc"
  <2>1. Stores(t, c) = ArrayStores(t, c)
    BY <1>7 DEF Stores
  <2>2. 2 \in 1 .. Len(Stores(t, c)) /\ 7 \in 1 .. Len(Stores(t, c))
    BY <2>1 DEF ArrayStores
  <2>3. HashOfId(ObjectId[c.obj]) = Hash[c.obj] /\ HashOfId(ObjectId[t]) = Hash[t]
    BY <1>0, <1>1, <1>2, <2>1, <2>2 DEF ArrayStores, Set, SetId, CallType
  <2> DEFINE a == <<ObjectId[c.obj], c.size, c.id, c.site, c.len, ObjectId[t], c.dims>>
  <2>4. Line(t, c, ObjectId, 0) = [kind |-> "A", args |-> a]
    BY <1>7 DEF Line
  <2>5. [p \in DOMAIN a |-> IF p \in IdArgs("A") THEN HashOfId(a[p]) ELSE a[p]]
          = <<HashOfId(a[1]), c.size, c.id, c.site, c.len, HashOfId(a[6]), c.dims>>
    BY DEF IdArgs
  <2>6. <<HashOfId(a[1]), c.size, c.id, c.site, c.len, HashOfId(a[6]), c.dims>>
          = <<Hash[c.obj], c.size, c.id, c.site, c.len, Hash[t], c.dims>>
    BY <2>3
  <2>7. HashLine(t, c) = [kind |-> "A", args |->
          <<HashOfId(a[1]), c.size, c.id, c.site, c.len, HashOfId(a[6]), c.dims>>]
    BY <1>7, <2>6 DEF HashLine, Line
  <2> HIDE DEF a
  <2>8. Decoded([kind |-> "A", args |-> a]) =
          [kind |-> "A",
           args |-> [p \in DOMAIN a |-> IF p \in IdArgs("A") THEN HashOfId(a[p]) ELSE a[p]]]
    BY DecodedIs
  <2> QED  BY <2>4, <2>5, <2>7, <2>8
<1> QED  BY <1>0, <1>3, <1>4, <1>5, <1>6, <1>7 DEF CallType, Handlers

\* In the file and in the log there are the same lines.
TraceRead == [k \in 1 .. Len(trace) |-> Decoded(trace[k])]
LogRead   == [k \in 1 .. Filled |-> LogLine(k)]
Pendings  == [t \in Threads |-> PendingLine(t)]

LEMMA TraceIsLogRead ==
    IInv /\ Core /\ Exact => /\ TraceRead = [k \in 1 .. Len(trace) |-> LogLine(k)]
                             /\ Len(trace) \in 0 .. Filled /\ Filled \in 0 .. Len(log)
<1> SUFFICES ASSUME IInv, Core, Exact
             PROVE  /\ TraceRead = [k \in 1 .. Len(trace) |-> LogLine(k)]
                    /\ Len(trace) \in 0 .. Filled /\ Filled \in 0 .. Len(log)
  OBVIOUS
<1>1. Len(trace) \in 0 .. Filled /\ Filled \in 0 .. Len(log) /\ Len(log) \in Nat
  BY FlushedInLog, CountsKnown DEF Exact, CountsOK, IInv, TypeOK, HistoryTyped
<1>2. ASSUME NEW k \in 1 .. Len(trace) PROVE Decoded(trace[k]) = LogLine(k)
  <2>1. k \in 1 .. Len(log) /\ k \in Whole /\ trace[k] = IdLine(k)
    BY <1>1 DEF Exact, Whole
  <2>2. PICK t \in Actors, c \in Calls : t = log[k].thread /\ c = log[k].call
    BY <2>1, ClaimTyped
  <2>3. c.op # "witnessObjectAliveVer2" /\ \A p \in 1 .. Len(Stores(t, c)) : Known(Stores(t, c)[p])
    BY <2>1, <2>2 DEF Core, LogOK, RecordsOK, Complete
  <2>4. Decoded(Line(t, c, ObjectId, 0)) = HashLine(t, c)
    BY <2>3, DecodedLine
  <2> QED  BY <2>1, <2>2, <2>4 DEF LogLine, IdLine
<1>3. TraceRead = [k \in 1 .. Len(trace) |-> LogLine(k)]
  BY <1>2 DEF TraceRead
<1> QED  BY <1>1, <1>3

LEMMA TraceIsLogReadNext ==
    (IInv /\ Core /\ Exact)' => /\ TraceRead' = [k \in 1 .. Len(trace') |-> LogLine(k)']
                                /\ Len(trace') \in 0 .. Filled' /\ Filled' \in 0 .. Len(log')
<1>1. (IInv /\ Core /\ Exact)' =>
        (/\ TraceRead = [k \in 1 .. Len(trace) |-> LogLine(k)]
         /\ Len(trace) \in 0 .. Filled /\ Filled \in 0 .. Len(log))'
  BY TraceIsLogRead, PTL
<1> QED  BY <1>1

\* Lines that stay in the log are the same before and after a step.
LEMMA LogReadStays ==
    ASSUME IInv, IInv', Core, Core', Exact, Exact', UNCHANGED trace, Filled' = Filled,
           \A k \in 1 .. Filled : log'[k] = log[k]
    PROVE  LogRead' = LogRead /\ TraceRead' = TraceRead
<1>1. \A k \in 1 .. Filled : LogLine(k)' = LogLine(k)
  BY DEF LogLine
<1>2. LogRead' = LogRead
  BY <1>1 DEF LogRead
<1>3. Len(trace) \in 0 .. Filled /\ Filled \in Nat
  BY TraceIsLogRead
<1>4. \A k \in 1 .. Len(trace) : LogLine(k)' = LogLine(k)
  BY <1>1, <1>3
<1>5. /\ TraceRead = [k \in 1 .. Len(trace) |-> LogLine(k)]
      /\ TraceRead' = [k \in 1 .. Len(trace') |-> LogLine(k)']
  BY TraceIsLogRead, TraceIsLogReadNext
<1>6. TraceRead' = TraceRead
  BY <1>4, <1>5
<1> QED  BY <1>2, <1>6

\* The actions of Log, in terms of the three.
RefStep == [Log!Next]_<<Pendings, LogRead, TraceRead>>

IdleLine  == [kind |-> "idle", args |-> << >>]
BackLine  == [kind |-> "returning", args |-> << >>]

LEMMA LogVarsRead == Log!logVars = <<Pendings, LogRead, TraceRead>>
BY DEF Log!logVars, Pendings, LogRead, TraceRead, LogLine

LEMMA LogCall ==
    ASSUME NEW t \in Threads, NEW c \in Calls, Pendings[t] = IdleLine,
           Pendings' = [Pendings EXCEPT ![t] = HashLine(t, c)],
           UNCHANGED <<LogRead, TraceRead>>
    PROVE  Log!Next
<1>1. HashLine(t, c) \in HashLines[t]
  BY DEF HashLines
<1>2. Log!Call(t)
  BY <1>1 DEF Log!Call, Pendings, LogRead, TraceRead, LogLine, IdleLine
<1> QED  BY <1>2 DEF Log!Next

LEMMA LogRecord ==
    ASSUME NEW t \in Threads, NEW c \in Calls, Pendings[t] = HashLine(t, c),
           Pendings' = [Pendings EXCEPT ![t] = BackLine],
           LogRead' = Append(LogRead, HashLine(t, c)), UNCHANGED TraceRead
    PROVE  Log!Next
<1>1. HashLine(t, c) \in HashLines[t]
  BY DEF HashLines
<1>2. Log!Record(t)
  BY <1>1 DEF Log!Record, Pendings, LogRead, TraceRead, LogLine, BackLine
<1> QED  BY <1>2 DEF Log!Next

LEMMA LogReturn ==
    ASSUME NEW t \in Threads, Pendings[t] = BackLine,
           Pendings' = [Pendings EXCEPT ![t] = IdleLine], UNCHANGED <<LogRead, TraceRead>>
    PROVE  Log!Next
<1>1. Log!Return(t)
  BY DEF Log!Return, Pendings, LogRead, TraceRead, LogLine, BackLine, IdleLine
<1> QED  BY <1>1 DEF Log!Next

LEMMA LogWrite ==
    ASSUME Len(TraceRead) < Len(LogRead),
           TraceRead' = Append(TraceRead, LogRead[Len(TraceRead) + 1]),
           UNCHANGED <<Pendings, LogRead>>
    PROVE  Log!Next
<1>1. Log!WriteLine
  BY DEF Log!WriteLine, Pendings, LogRead, TraceRead, LogLine
<1> QED  BY <1>1 DEF Log!Next

\* A step of t leaves the pending lines of the others.
LEMMA PendingsAfter ==
    ASSUME NEW t \in Actors, \A u \in Actors \ {t} : at'[u] = at[u]
    PROVE  /\ t \notin Threads \/ PendingLine(t)' = PendingLine(t) => Pendings' = Pendings
           /\ t \in Threads => Pendings' = [Pendings EXCEPT ![t] = PendingLine(t)']
<1>1. \A u \in Threads : u # t => PendingLine(u)' = PendingLine(u)
  BY DEF PendingLine, Recording, HashLine, Actors
<1> QED  BY <1>1 DEF Pendings

\* What a thread has pending depends on where it is and on its call.
LEMMA PendingIs ==
    ASSUME NEW t \in Threads
    PROVE  /\ at[t].pc = "app" \/ ~Recording(t) => PendingLine(t) = IdleLine
           /\ at[t].pc \in {"unlock", "clear"} /\ Recording(t) => PendingLine(t) = BackLine
           /\ at[t].pc \notin {"app", "unlock", "clear"} /\ Recording(t) =>
                 PendingLine(t) = HashLine(t, at[t].call)
BY DEF PendingLine, IdleLine, BackLine

Bridge == IInv /\ Core /\ Exact

LEMMA GotoRefines ==
    ASSUME Bridge, Bridge', NEW t \in Actors, NEW pc \in PCs, Goto(t, pc),
           UNCHANGED <<trace, log>>, at[t].pc # "store", pc # "store",
           \/ t = Hook \/ ~Recording(t)
           \/ at[t].pc \in {"unlock", "clear"} /\ pc \in {"unlock", "clear"}
           \/ at[t].pc \notin {"app", "unlock", "clear"} /\ pc \notin {"app", "unlock", "clear"}
    PROVE  RefStep
<1>1. /\ at' \in [Actors -> Frame] /\ \A u \in Actors \ {t} : at'[u] = at[u]
      /\ at'[t] = [at[t] EXCEPT !.pc = pc] /\ at'[t].pc = pc /\ at[t] \in Frame
  BY GotoLocals DEF Bridge, IInv, TypeOK, LocalsTyped
<1>2. at'[t].call = at[t].call
  BY <1>1 DEF Frame
<1>3. t \notin Threads \/ PendingLine(t)' = PendingLine(t)
  <2>1. CASE t = Hook
    BY <2>1, ConstantsAssumption
  <2>2. CASE t \in Threads /\ t # Hook
    <3>1. Recording(t)' <=> Recording(t)
      BY <1>2 DEF Recording
    <3>2. HashLine(t, at[t].call)' = HashLine(t, at[t].call)
      BY <1>2 DEF HashLine
    <3> QED  BY <1>1, <2>2, <3>1, <3>2 DEF PendingLine
  <2> QED  BY <2>1, <2>2
<1>4. Filled' = Filled
  BY <1>1, CountsStay DEF Bridge
<1>5. Pendings' = Pendings
  BY <1>1, <1>3, PendingsAfter
<1>6. LogRead' = LogRead /\ TraceRead' = TraceRead
  BY <1>4, LogReadStays DEF Bridge
<1> QED  BY <1>5, <1>6 DEF RefStep

\* Steps between a call and its return that are none to Log.
LEMMA StutterRefines ==
    ASSUME Bridge, Bridge', NEW t \in Actors,
           \/ Lock(t) \/ Check(t) \/ Put(t) \/ Unlock(t) \/ FlushUnlock(t)
    PROVE  RefStep
<1>1. RecorderOK(t) /\ (t = Hook \/ t \in Threads)
  BY DEF Bridge, Core, Actors
<1>2. CASE Lock(t)
  BY <1>2, GotoRefines DEF Lock, PCs
<1>3. CASE Check(t)
  BY <1>3, GotoRefines DEF Check, PCs
<1>4. CASE Put(t)
  BY <1>1, <1>4, GotoRefines DEF Put, PCs, RecorderOK
<1>5. CASE Unlock(t)
  BY <1>5, GotoRefines DEF Unlock, PCs
<1>6. CASE FlushUnlock(t)
  BY <1>6, GotoRefines DEF FlushUnlock, PCs
<1> QED  BY <1>2, <1>3, <1>4, <1>5, <1>6

\* The other steps that stutter: they change locals that Log does not see.
LEMMA LocalRefines ==
    ASSUME Bridge, Bridge', NEW t \in Actors, \A u \in Actors \ {t} : at'[u] = at[u],
           at[t].pc # "store", at'[t].pc # "store", at'[t].call = at[t].call,
           at[t].pc \notin {"app", "unlock", "clear"}, at'[t].pc \notin {"app", "unlock", "clear"},
           \A k \in 1 .. Len(log) : log'[k] = log[k], UNCHANGED <<trace, log>>
    PROVE  RefStep
<1>1. Recording(t)' <=> Recording(t)
  BY DEF Recording
<1>2. HashLine(t, at[t].call)' = HashLine(t, at[t].call)
  BY DEF HashLine
<1>3. PendingLine(t)' = PendingLine(t)
  BY <1>1, <1>2 DEF PendingLine
<1>4. Pendings' = Pendings
  BY <1>3, PendingsAfter
<1>5. Filled' = Filled
  BY CountsStay DEF Bridge
<1>6. LogRead' = LogRead /\ TraceRead' = TraceRead
  BY <1>5, LogReadStays DEF Bridge
<1> QED  BY <1>4, <1>6 DEF RefStep

LEMMA EnterRefines ==
    ASSUME Bridge, Bridge', NEW t \in Threads, NEW c \in Calls, Enter(t, c), ~InHandler(t)
    PROVE  RefStep
<1>1. t \in Actors /\ Quiet(t) /\ at[t].pc = "app" /\ at'[t].pc = "lock" /\ at'[t].call = c
  BY EnterQuiet DEF Bridge, Actors
<1>2. \A u \in Actors \ {t} : at'[u] = at[u]
  BY <1>1 DEF Quiet
<1>3. Filled' = Filled /\ UNCHANGED <<trace, log>>
  BY <1>1, <1>2, CountsStay DEF Bridge, Quiet
<1>4. LogRead' = LogRead /\ TraceRead' = TraceRead
  BY <1>3, LogReadStays DEF Bridge
<1>5. PendingLine(t) = IdleLine /\ Pendings[t] = IdleLine
  BY <1>1, PendingIs DEF Pendings
<1>6. Pendings' = [Pendings EXCEPT ![t] = PendingLine(t)']
  BY <1>1, <1>2, PendingsAfter
<1>7. PendingLine(t)' = IF c.op # "witnessObjectAliveVer2" THEN HashLine(t, c) ELSE IdleLine
  BY <1>1 DEF PendingLine, Recording, IdleLine, HashLine
<1>8. CASE c.op # "witnessObjectAliveVer2"
  <2>1. Log!Next
    BY <1>4, <1>5, <1>6, <1>7, <1>8, LogCall
  <2> QED  BY <2>1 DEF RefStep
<1>9. CASE c.op = "witnessObjectAliveVer2"
  <2>1. Pendings' = Pendings
    BY <1>5, <1>6, <1>7, <1>9 DEF Pendings
  <2> QED  BY <1>4, <2>1 DEF RefStep
<1> QED  BY <1>8, <1>9

LEMMA ClearRefines ==
    ASSUME Bridge, Bridge', NEW t \in Actors, Clear(t)
    PROVE  RefStep
<1>1. /\ saved[t] = << >> /\ at \in [Actors -> Frame] /\ at[t].pc = "clear"
      /\ t \in Threads
  BY DEF Bridge, IInv, ThreadOK, ReentryOK, FlushOK, TypeOK, LocalsTyped, Clear, Actors
<1>2. at' = [at EXCEPT ![t] = Resting]
  BY <1>1 DEF Clear
<1>3. at'[t].pc = "app" /\ \A u \in Actors \ {t} : at'[u] = at[u]
  BY <1>1, <1>2 DEF Resting
<1>4. Filled' = Filled /\ UNCHANGED <<trace, log>>
  BY <1>1, <1>3, CountsStay DEF Bridge, Clear
<1>5. LogRead' = LogRead /\ TraceRead' = TraceRead
  BY <1>4, LogReadStays DEF Bridge
<1>6. Pendings' = [Pendings EXCEPT ![t] = PendingLine(t)']
  BY <1>1, <1>3, PendingsAfter
<1>7. PendingLine(t)' = IdleLine
  BY <1>3 DEF PendingLine, IdleLine
<1>8. CASE Recording(t)
  <2>1. Pendings[t] = BackLine
    BY <1>1, <1>8, PendingIs DEF Pendings
  <2>2. Log!Next
    BY <1>1, <1>5, <1>6, <1>7, <2>1, LogReturn
  <2> QED  BY <2>2 DEF RefStep
<1>9. CASE ~Recording(t)
  <2>1. Pendings[t] = IdleLine
    BY <1>1, <1>9, PendingIs DEF Pendings
  <2>2. Pendings' = Pendings
    BY <1>6, <1>7, <2>1 DEF Pendings
  <2> QED  BY <1>5, <2>2 DEF RefStep
<1> QED  BY <1>8, <1>9

LEMMA ClaimRefines ==
    ASSUME Bridge, Bridge', NEW t \in Actors, Claim(t)
    PROVE  RefStep
<1>1. /\ at \in [Actors -> Frame] /\ at[t].pc = "claim" /\ log \in Seq([thread : Actors, call : Calls])
      /\ Len(log) \in Nat /\ at[t].call \in Calls
  BY DEF Bridge, IInv, TypeOK, LocalsTyped, HistoryTyped, Claim, Frame
<1>2. /\ \A u \in Actors \ {t} : at'[u] = at[u]
      /\ at'[t].pc = "store" /\ at'[t].call = at[t].call
  BY <1>1 DEF Claim, Frame
<1> DEFINE r == [thread |-> t, call |-> at[t].call]
<1>3. Len(log') = Len(log) + 1 /\ \A k \in 1 .. Len(log) : log'[k] = log[k]
  <2>1. log' = Append(log, r) /\ r \in [thread : Actors, call : Calls]
    BY <1>1 DEF Claim
  <2> HIDE DEF r
  <2> QED  BY <1>1, <2>1, AppendProperties
<1>4. Filled' = Filled /\ Filled = Len(log)
  <2>1. \A u \in Actors : at[u].pc # "store"
    BY <1>1, CountsKnown DEF Bridge, CountsOK, Inside
  <2> QED  BY <1>1, <1>2, <1>3, <2>1, CountsKnown, CountsKnownNext DEF Bridge, CountsOK
<1>5. trace' = trace
  BY DEF Claim
<1>6. LogRead' = LogRead /\ TraceRead' = TraceRead
  BY <1>3, <1>4, <1>5, LogReadStays DEF Bridge
<1>7. PendingLine(t)' = PendingLine(t)
  <2>1. (Recording(t)' <=> Recording(t)) /\ HashLine(t, at[t].call)' = HashLine(t, at[t].call)
    BY <1>2 DEF Recording, HashLine
  <2> QED  BY <1>1, <1>2, <2>1 DEF PendingLine
<1>8. Pendings' = Pendings
  BY <1>2, <1>7, PendingsAfter
<1> QED  BY <1>6, <1>8 DEF RefStep

LEMMA AppendIs ==
    ASSUME NEW n \in Nat, NEW f, f = [k \in 1 .. n + 1 |-> f[k]]
    PROVE  Append([k \in 1 .. n |-> f[k]], f[n + 1]) = f
<1> DEFINE S == {f[k] : k \in 1 .. n + 1}
           g == [k \in 1 .. n |-> f[k]]
           h == [k \in 1 .. n + 1 |-> f[k]]
<1>1. n + 1 \in Nat /\ n + 1 \in 1 .. n + 1 /\ 1 .. n \subseteq 1 .. n + 1
  OBVIOUS
<1>2. \A k \in 1 .. n + 1 : f[k] \in S
  OBVIOUS
<1>3. (\A k \in 1 .. n : g[k] = f[k]) /\ \A k \in 1 .. n + 1 : h[k] = f[k]
  OBVIOUS
<1> HIDE DEF S
<1>4. \A k \in 1 .. n : f[k] \in S
  BY <1>1, <1>2
<1>5. g \in Seq(S) /\ Len(g) = n
  <2>1. g \in [1 .. n -> S]
    BY <1>4
  <2> HIDE DEF g
  <2>2. g \in Seq(S)
    BY <2>1, SeqDef
  <2> QED  BY <2>1, <2>2, LenProperties
<1>6. h \in Seq(S) /\ Len(h) = n + 1
  <2>1. h \in [1 .. n + 1 -> S]
    BY <1>2
  <2> HIDE DEF h
  <2>2. h \in Seq(S)
    BY <1>1, <2>1, SeqDef
  <2> QED  BY <1>1, <2>1, <2>2, LenProperties
<1>7. f[n + 1] \in S
  BY <1>1, <1>2
<1>8. h = f
  OBVIOUS
<1>9. g = [k \in 1 .. n |-> f[k]]
  OBVIOUS
<1> HIDE DEF g, h
<1>10. PICK e : e = f[n + 1]
  OBVIOUS
<1>11. e \in S
  BY <1>7, <1>10
<1>12. PICK s : s = Append(g, e)
  OBVIOUS
<1>13. /\ s \in Seq(S) /\ Len(s) = Len(g) + 1
       /\ \A k \in 1 .. Len(g) : s[k] = g[k]
       /\ s[Len(g) + 1] = e
  BY ONLY <1>5, <1>11, <1>12, AppendProperties
<1>14. ASSUME NEW k \in 1 .. n + 1 PROVE s[k] = h[k]
  <2>1. CASE k \in 1 .. n
    BY <1>3, <1>5, <1>13, <2>1
  <2>2. CASE k = n + 1
    BY <1>3, <1>5, <1>10, <1>13, <2>2
  <2> QED  BY <2>1, <2>2
<1>15. s = h
  BY <1>5, <1>6, <1>13, <1>14, SeqEqual
<1> QED  BY <1>8, <1>9, <1>10, <1>12, <1>15

\* The last assignment of a record is the moment its line is logged.
LEMMA StoreRefines ==
    ASSUME Bridge, Bridge', NEW t \in Actors, Store(t)
    PROVE  RefStep
<1>1. /\ at \in [Actors -> Frame] /\ at[t].pc = "store" /\ Len(log) \in Nat /\ t \in Threads
      /\ at[t].call \in Calls
  <2>1. at \in [Actors -> Frame] /\ Len(log) \in Nat
    BY DEF Bridge, IInv, TypeOK, LocalsTyped, HistoryTyped
  <2>2. at[t].pc = "store" /\ t # Hook
    BY DEF Bridge, IInv, ThreadOK, FlushOK, Store
  <2>3. at[t].call \in Calls
    BY <2>1 DEF Frame
  <2> QED  BY <2>1, <2>2, <2>3 DEF Actors
<1>2. PICK c \in Calls : c = at[t].call
  BY <1>1
<1> DEFINE last == at[t].step = Len(Stores(t, at[t].call))
<1>3. /\ \A u \in Actors \ {t} : at'[u] = at[u]
      /\ at'[t].pc = IF last THEN "unlock" ELSE "store"
      /\ at'[t].call = c
  <2> DEFINE there == IF last THEN "unlock" ELSE "store"
  <2>1. at' = [at EXCEPT ![t].step = @ + 1, ![t].pc = there]
    BY DEF Store
  <2> HIDE DEF there
  <2>2. /\ \A u \in Actors \ {t} : at'[u] = at[u]
        /\ at'[t].pc = there /\ at'[t].call = c
    BY <1>1, <1>2, <2>1 DEF Frame
  <2> QED  BY <2>2 DEF there
<1>4. UNCHANGED <<trace, log>>
  BY DEF Store
<1>5. Recording(t) /\ log[Len(log)].thread = t /\ log[Len(log)].call = c /\ Len(log) >= 1
  <2>1. WriterOK(t) /\ RecorderOK(t) /\ SlotOK(t)
    BY DEF Bridge, Core, IInv, ThreadOK
  <2>2. Recording(t)
    BY <1>1, <2>1 DEF RecorderOK
  <2>3. log[Len(log)] = [thread |-> t, call |-> c]
    BY <1>1, <1>2, <2>1 DEF WriterOK
  <2>4. Len(log) >= 1
    BY <1>1, <2>1 DEF SlotOK
  <2> QED  BY <2>2, <2>3, <2>4
<1>6. Pendings[t] = HashLine(t, c)
  BY <1>1, <1>2, <1>5, PendingIs DEF Pendings
<1> HIDE DEF last
<1>7. CASE ~last
  <2>1. Filled' = Filled
    BY <1>1, <1>3, <1>4, <1>7, CountsStay DEF Bridge
  <2>2. LogRead' = LogRead /\ TraceRead' = TraceRead
    BY <1>4, <2>1, LogReadStays DEF Bridge
  <2>3. PendingLine(t)' = PendingLine(t)
    <3>1. (Recording(t)' <=> Recording(t)) /\ HashLine(t, at[t].call)' = HashLine(t, at[t].call)
      BY <1>2, <1>3 DEF Recording, HashLine
    <3> QED  BY <1>1, <1>3, <1>7, <3>1 DEF PendingLine
  <2>4. Pendings' = Pendings
    BY <1>3, <2>3, PendingsAfter
  <2> QED  BY <2>2, <2>4 DEF RefStep
<1>8. CASE last
  <2>1. Filled = Len(log) - 1 /\ Filled' = Len(log)
    <3>1. \A u \in Actors : at'[u].pc # "store"
      BY <1>1, <1>3, <1>8, CountsKnown DEF Bridge, CountsOK, Inside
    <3> QED  BY <1>1, <1>4, <3>1, CountsKnown, CountsKnownNext DEF Bridge, CountsOK
  <2>2. \A k \in 1 .. Len(log) : LogLine(k)' = LogLine(k)
    BY <1>4 DEF LogLine
  <2>3. LogLine(Len(log)) = HashLine(t, c)
    BY <1>5 DEF LogLine
  <2>4. LogRead' = Append(LogRead, HashLine(t, c))
    <3>1. LogRead = [k \in 1 .. Len(log) - 1 |-> LogLine(k)]
      BY <2>1 DEF LogRead
    <3>2. LogRead' = [k \in 1 .. Len(log) |-> LogLine(k)]
      <4>1. LogRead' = [k \in 1 .. Len(log) |-> LogLine(k)']
        BY <2>1 DEF LogRead
      <4> QED  BY <2>2, <4>1
    <3>3. Append(LogRead, LogLine(Len(log))) = [k \in 1 .. Len(log) |-> LogLine(k)]
      <4>1. PICK f : f = [k \in 1 .. Len(log) |-> LogLine(k)]
        OBVIOUS
      <4>2. PICK n \in Nat : n = Len(log) - 1
        BY <1>1, <1>5
      <4>3. DOMAIN f = 1 .. n + 1 /\ f = [k \in 1 .. n + 1 |-> f[k]]
        BY <1>1, <4>1, <4>2
      <4>4. LogRead = [k \in 1 .. n |-> f[k]] /\ f[n + 1] = LogLine(Len(log))
        BY <1>1, <1>5, <3>1, <4>1, <4>2
      <4> QED  BY <4>1, <4>3, <4>4, AppendIs
    <3> QED  BY <2>3, <3>2, <3>3
  <2>5. TraceRead' = TraceRead
    <3>1. /\ TraceRead = [k \in 1 .. Len(trace) |-> LogLine(k)]
          /\ TraceRead' = [k \in 1 .. Len(trace') |-> LogLine(k)']
      BY TraceIsLogRead, TraceIsLogReadNext DEF Bridge
    <3>2. Len(trace) \in 0 .. Filled
      BY TraceIsLogRead DEF Bridge
    <3>3. 1 .. Len(trace) \subseteq 1 .. Len(log)
      BY <1>1, <2>1, <3>2
    <3> QED  BY <1>4, <2>2, <3>1, <3>3
  <2>6. Pendings' = [Pendings EXCEPT ![t] = BackLine]
    <3>1. PendingLine(t)' = BackLine
      BY <1>3, <1>5, <1>8, <1>2 DEF PendingLine, Recording, BackLine
    <3> QED  BY <1>1, <1>3, <3>1, PendingsAfter
  <2>7. Log!Next
    BY <1>1, <1>6, <2>4, <2>5, <2>6, LogRecord
  <2> QED  BY <2>7 DEF RefStep
<1> QED  BY <1>7, <1>8

LEMMA FlushLockRefines ==
    ASSUME Bridge, Bridge', NEW t \in Actors, FlushLock(t)
    PROVE  RefStep
<1>1. /\ at \in [Actors -> Frame] /\ at[t].pc = "flock"
      /\ at' = [at EXCEPT ![t].pc = "flush", ![t].i = 0, ![t].size = FlushSize]
      /\ UNCHANGED <<trace, log>>
  BY DEF Bridge, IInv, TypeOK, LocalsTyped, FlushLock
<1>2. /\ \A u \in Actors \ {t} : at'[u] = at[u]
      /\ at'[t].pc = "flush" /\ at'[t].call = at[t].call
  BY <1>1 DEF Frame
<1> QED  BY <1>1, <1>2, LocalRefines

LEMMA FlushResetRefines ==
    ASSUME Bridge, Bridge', NEW t \in Actors, FlushReset(t)
    PROVE  RefStep
<1>1. t = Hook \/ t \in Threads
  BY DEF Actors
<1> QED  BY <1>1, GotoRefines DEF FlushReset, PCs

\* A record that is flushed is the next line of the log.
LEMMA FlushRecordRefines ==
    ASSUME Bridge, Bridge', NEW t \in Actors, FlushRecord(t)
    PROVE  RefStep
<1>1. /\ at \in [Actors -> Frame] /\ at[t].pc = "flush" /\ at[t] \in Frame
      /\ at' = [at EXCEPT ![t].i = @ + 1] /\ log' = log
  BY DEF Bridge, IInv, TypeOK, LocalsTyped, FlushRecord
<1>2. /\ \A u \in Actors \ {t} : at'[u] = at[u]
      /\ at'[t].pc = "flush" /\ at'[t].call = at[t].call /\ at'[t].i = at[t].i + 1
      /\ at[t].i \in Nat
  BY <1>1 DEF Frame
<1>3. PendingLine(t)' = PendingLine(t)
  <2>1. (Recording(t)' <=> Recording(t)) /\ HashLine(t, at[t].call)' = HashLine(t, at[t].call)
    BY <1>2 DEF Recording, HashLine
  <2> QED  BY <1>1, <1>2, <2>1 DEF PendingLine
<1>4. Pendings' = Pendings
  BY <1>2, <1>3, PendingsAfter
<1>5. Filled' = Filled /\ Filled \in Nat
  BY <1>1, <1>2, CountsStay, CountsKnown DEF Bridge, CountsOK
<1>6. \A k : LogLine(k)' = LogLine(k)
  BY <1>1 DEF LogLine
<1>7. LogRead' = LogRead
  BY <1>5, <1>6 DEF LogRead
<1>8. Len(trace) \in Nat /\ Len(trace') = Len(trace) + 1 /\ Len(trace') \in 0 .. Filled
  <2>1. Flushed = at[t].i /\ Flushed' = at[t].i + 1
    BY <1>1, <1>2, CountsKnown, CountsKnownNext DEF Bridge, CountsOK
  <2>2. Len(trace) = base + Flushed /\ Len(trace') = base' + Flushed' /\ base' = base
    BY DEF Bridge, Exact, FlushRecord
  <2>3. Len(trace) \in Nat /\ base \in Nat
    BY DEF Bridge, IInv, TypeOK, HistoryTyped
  <2>4. Len(trace') \in 0 .. Filled'
    BY TraceIsLogReadNext DEF Bridge
  <2> QED  BY <1>2, <1>5, <2>1, <2>2, <2>3, <2>4
<1>9. PICK n \in Nat : n = Len(trace)
  BY <1>8
<1>10. TraceRead = [k \in 1 .. n |-> LogLine(k)] /\ TraceRead' = [k \in 1 .. n + 1 |-> LogLine(k)]
  <2>1. TraceRead = [k \in 1 .. n |-> LogLine(k)]
    BY <1>9, TraceIsLogRead DEF Bridge
  <2>2. TraceRead' = [k \in 1 .. Len(trace') |-> LogLine(k)']
    BY TraceIsLogReadNext DEF Bridge
  <2> QED  BY <1>6, <1>8, <1>9, <2>1, <2>2
<1>11. TraceRead' = Append(TraceRead, LogLine(n + 1))
  <2>1. PICK f : f = [k \in 1 .. n + 1 |-> LogLine(k)]
    OBVIOUS
  <2>2. f = [k \in 1 .. n + 1 |-> f[k]] /\ f[n + 1] = LogLine(n + 1)
    BY <2>1
  <2>3. TraceRead = [k \in 1 .. n |-> f[k]] /\ TraceRead' = f
    BY <1>10, <2>1
  <2> QED  BY <2>2, <2>3, AppendIs
<1>12. LogRead[n + 1] = LogLine(n + 1) /\ Len(LogRead) = Filled
  <2>1. n + 1 \in 1 .. Filled
    BY <1>5, <1>8, <1>9
  <2> QED  BY <1>5, <2>1 DEF LogRead
<1>13. Len(TraceRead) = n
  BY <1>10
<1>14. Len(TraceRead) < Len(LogRead)
  BY <1>5, <1>8, <1>9, <1>12, <1>13
<1>15. Log!Next
  BY <1>4, <1>7, <1>11, <1>12, <1>13, <1>14, LogWrite
<1> QED  BY <1>15 DEF RefStep

LEMMA InitRefines == Init => Log!Init
<1> SUFFICES ASSUME Init PROVE Log!Init
  OBVIOUS
<1>1. \A t \in Actors : at[t].pc = "app"
  BY DEF Init, Resting
<1>2. Filled = 0 /\ Len(trace) = 0
  BY <1>1 DEF Init, Filled
<1>3. \A t \in Threads : PendingLine(t) = IdleLine
  BY <1>1 DEF PendingLine, IdleLine, Actors
<1>4. Pendings = [t \in Threads |-> IdleLine]
  BY <1>3 DEF Pendings
<1>5. LogRead = << >> /\ TraceRead = << >>
  BY <1>2 DEF LogRead, TraceRead
<1> QED  BY <1>4, <1>5 DEF Log!Init, Pendings, LogRead, TraceRead, LogLine, IdleLine

\* A step that changes nothing Log sees.
LEMMA SameRefines ==
    ASSUME UNCHANGED <<at, log, trace, idMap>>
    PROVE  RefStep
<1>1. \A t \in Actors : PendingLine(t)' = PendingLine(t)
  BY DEF PendingLine, Recording, HashLine
<1>2. Pendings' = Pendings
  BY <1>1 DEF Pendings, Actors
<1>3. Filled' = Filled /\ \A k : LogLine(k)' = LogLine(k)
  BY DEF Filled, LogLine
<1>4. LogRead' = LogRead
  BY <1>3 DEF LogRead
<1>5. \A id : HashOfId(id)' = HashOfId(id)
  BY DEF HashOfId
<1>6. TraceRead' = TraceRead
  BY <1>5 DEF TraceRead, Decoded
<1> QED  BY <1>2, <1>4, <1>6 DEF RefStep

LEMMA NextRefines ==
    ASSUME Faults = FALSE, Bridge, Bridge', [Next]_vars
    PROVE  RefStep
<1>1. CASE UNCHANGED vars
  <2>1. UNCHANGED <<at, log, trace, idMap>>
    BY <1>1 DEF vars
  <2> QED  BY <2>1, SameRefines
<1>2. ASSUME NEW t \in Threads, NEW c \in Calls, Enter(t, c) PROVE RefStep
  <2>1. CASE InHandler(t)
    <3>1. UNCHANGED vars
      BY <1>2, <2>1 DEF Enter
    <3> QED  BY <1>1, <3>1
  <2>2. CASE ~InHandler(t)
    BY <1>2, <2>2, EnterRefines
  <2> QED  BY <2>1, <2>2
<1>3. ASSUME NEW t \in Actors, HandlerStep(t) PROVE RefStep
  <2>1. ~(FlushFinally(t) \/ HandlerFinally(t))
    BY DEF FlushFinally, HandlerFinally, Bridge, IInv, ThreadOK, FlushOK
  <2> QED
    BY <1>3, <2>1, StutterRefines, ClaimRefines, StoreRefines, ClearRefines, FlushLockRefines,
       FlushRecordRefines, FlushResetRefines DEF HandlerStep
<1>4. ASSUME NEW t \in Actors, Throw(t) PROVE RefStep
  BY <1>4 DEF Throw
<1>5. CASE HookStart
  <2>1. Hook \in Actors /\ at[Hook].pc # "store" /\ UNCHANGED <<trace, log>>
    BY <1>5 DEF HookStart, Actors
  <2>2. Goto(Hook, "flock") /\ "flock" \in PCs
    BY <1>5 DEF HookStart, PCs
  <2> QED  BY <2>1, <2>2, GotoRefines
<1>6. CASE Halt
  <2>1. UNCHANGED <<at, log, trace, idMap>>
    BY <1>6 DEF Halt
  <2> QED  BY <2>1, SameRefines
<1>7. CASE Halted
  BY <1>1, <1>7 DEF Halted
<1>8. CASE Next
  BY <1>2, <1>3, <1>4, <1>5, <1>6, <1>7, <1>8 DEF Next
<1> QED  BY <1>1, <1>8

\* Every handler call takes effect at one instant between call and return, in
\* the order the file shows: the recorder implements an append-only log.
THEOREM ImplementsLog == Faults = FALSE => (Spec => ImplementsTraceLog)
<1> SUFFICES ASSUME Faults = FALSE PROVE Spec => Log!Spec
  BY DEF ImplementsTraceLog
<1>1. Bridge /\ Bridge' /\ [Next]_vars => [Log!Next]_Log!logVars
  <2>1. Bridge /\ Bridge' /\ [Next]_vars => RefStep
    BY NextRefines
  <2> QED  BY <2>1 DEF RefStep, Log!logVars, Pendings, LogRead, TraceRead, LogLine
<1>2. Spec => []Bridge
  BY Inductive, CoreInductive, ExactInductive, PTL DEF Bridge
<1> QED  BY InitRefines, <1>1, <1>2, PTL DEF Spec, Log!Spec
=============================================================================
