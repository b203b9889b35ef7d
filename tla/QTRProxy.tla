------------------------------ MODULE QTRProxy ------------------------------
(***************************************************************************)
(* The javassist agent's event recorder (QTRProxy.java) together with the  *)
(* shutdown hook that drains it (DynamicInstrumenter.premain).             *)
(*                                                                         *)
(* Instrumented code calls a handler (onEntry, onExit, onObjectAlloc,      *)
(* onPutField, onArrayAlloc, witnessObjectAliveVer2) on the thread that    *)
(* runs it.  The handler leaves at once when the thread is already inside  *)
(* a handler (the thread-local inInstrumentMethod): the lock, the maps and *)
(* the writer it uses are library classes that are instrumented too.       *)
(* Otherwise it takes mx, flushes the buffers when they are full, claims   *)
(* the slot at ptr and fills the parallel arrays one assignment at a time. *)
(*                                                                         *)
(* Abstractions.  getObjectId is one step: every call of it is made with   *)
(* mx held.  synchronized(ptr) is entered only with mx held, so it is not  *)
(* a lock of its own here.  timestampBuffer is never read and left out.    *)
(* One println is one step, unless an Error strikes inside it.  Strings    *)
(* (dims) are numbers, 0 the empty one.  ReentrantLock is external: its    *)
(* unlock fails only where the caller does not hold mx, as documented.     *)
(***************************************************************************)
EXTENDS Integers, Sequences, FiniteSets, TraceFormat

CONSTANTS
    Threads,    \* threads of the traced program
    Hook,       \* the shutdown hook's thread
    Objects,    \* values a handler gets as an Object: null, threads, others
    Hash,       \* System.identityHashCode; two objects may share a value
    BUFMAX,     \* slots used before a flush; the arrays have BUFMAX + 1
    Calls,      \* handler calls the instrumented program can make
    MaxCalls,   \* bound: handler calls that pass the reentrancy test
    NoOne,      \* no thread owns mx
    Faults      \* can a handler be left by an Error (out of memory, stack)?

Actors == Threads \cup {Hook}

\* The arguments of a handler.  id: method, class or type; obj: receiver,
\* allocated, stored or witnessed object; tgt: the other object of a store.
CallType == [op : Handlers, id : Nat, obj : Objects, tgt : Objects,
             site : Nat, size : Nat, len : Nat, dims : Nat]

ASSUME ConstantsAssumption ==
    /\ Hook \notin Threads
    /\ NoOne \notin Actors
    /\ Actors \subseteq Objects
    /\ Null \in Objects
    /\ Hash \in [Objects -> Nat]
    /\ BUFMAX \in Nat \ {0}
    /\ Calls \subseteq CallType /\ Calls # {}
    /\ MaxCalls \in Nat
    /\ Faults \in BOOLEAN

Hashes == {Hash[o] : o \in Objects}
Slots  == 0 .. BUFMAX
Fields == {"type", "first", "second", "third", "fourth", "fifth", "tid", "dims"}

PCs == {"app",                                        \* in no handler
        "lock", "check", "claim", "store", "put", "unlock", "clear",
        "flock", "flush", "funlock",                  \* flushBuffer
        "ffail", "fail",                              \* an Error: at the finally of
                                                      \* flushBuffer, of the handler
        "done"}                                       \* the hook has run

\* Locals of one activation of a handler (call .. slot, step: next assignment)
\* and of the flushBuffer it calls (i, size).
Frame == [pc : PCs, call : Calls, ts : Nat, slot : Nat, step : Nat,
          i : Nat, size : Nat]

Resting == [pc |-> "app", call |-> CHOOSE c \in Calls : TRUE, ts |-> 0,
            slot |-> 0, step |-> 0, i |-> 0, size |-> 0]

VARIABLES
    flag,       \* inInstrumentMethod, per thread
    at,         \* the running activation, per thread
    saved,      \* activations it interrupted, innermost first
    owner,      \* mx: the thread that holds it
    holds,      \* mx: hold count
    ptr,
    buf,        \* the parallel arrays: buf["first"] is firstBuffer, ...
    idMap,      \* objIdMap; 0 where the key is absent
    nextId,     \* nextObjectId
    witness,    \* witnessMap: id to <<timestamp, class>>
    trace,      \* lines of the trace file
    made,       \* calls so far; also the clock that handlers read
    halted,     \* the JVM has stopped
    log,        \* history: the claims, in order
    base,       \* history: how many claims the finished flushes have covered
    broken,     \* history: the claims whose assignments an Error cut short
    cut         \* history: the claims that were first in the buffers when an
                \* Error cut their println before its newline

vars == <<flag, at, saved, owner, holds, ptr, buf, idMap, nextId, witness,
          trace, made, halted, log, base, broken, cut>>

------------------------------------------------------------------------------
(* The assignments a handler makes to its slot, in program order.          *)

Set(f, n)  == [field |-> f, isRef |-> FALSE, val |-> n, ref |-> Null]
SetId(f, o) == [field |-> f, isRef |-> TRUE, val |-> 0, ref |-> o]

EntryStores(t, c) ==
    << Set("first", c.id),
       IF c.obj = Null THEN Set("second", 0) ELSE SetId("second", c.obj),
       Set("type", 1), SetId("tid", t) >>

\* Mutant: the slot keeps the type of the record it held before.
ExitStoresNoType(t, c) == << Set("first", c.id), SetId("tid", t) >>

ExitStores(t, c) == << Set("first", c.id), Set("type", 2), SetId("tid", t) >>

AllocStores(t, c) ==
    << SetId("first", c.obj), Set("type", 3), Set("second", c.id),
       Set("third", c.site), Set("fourth", c.size), SetId("tid", t) >>

PutFieldStores(t, c) ==
    << Set("type", 7), SetId("first", c.tgt), Set("second", c.id),
       SetId("third", c.obj), SetId("tid", t) >>

\* Mutant: no saveDimsToBuffer.
ArrayStoresNoDims(t, c) ==
    << Set("type", 4), SetId("first", c.obj), Set("second", c.id),
       Set("third", c.len), Set("fourth", c.size), Set("fifth", c.site),
       SetId("tid", t) >>

ArrayStores(t, c) ==
    << Set("type", 4), SetId("first", c.obj), Set("second", c.id),
       Set("third", c.len), Set("fourth", c.size), Set("fifth", c.site),
       SetId("tid", t), Set("dims", c.dims) >>

Stores(t, c) ==
    CASE c.op = "onEntry"       -> EntryStores(t, c)
      [] c.op = "onExit"        -> ExitStores(t, c)
      [] c.op = "onObjectAlloc" -> AllocStores(t, c)
      [] c.op = "onPutField"    -> PutFieldStores(t, c)
      [] OTHER                  -> ArrayStores(t, c)

\* getObjectId: an identity hash gets the next id the first time it is seen.
IdMapWith(o)  == IF idMap[Hash[o]] # 0 THEN idMap
                 ELSE [idMap EXCEPT ![Hash[o]] = nextId]

\* Mutant: get() for getAndIncrement().
NextIdKept(o) == nextId

NextIdWith(o) == IF idMap[Hash[o]] # 0 THEN nextId ELSE nextId + 1

\* What flushBuffer prints for slot j.
Printed(j) ==
    LET b(f) == buf[f][j] IN
    CASE b("type") = 1 -> [kind |-> "M", args |-> <<b("first"), b("second"), b("tid")>>]
      [] b("type") = 2 -> [kind |-> "E", args |-> <<b("first"), b("tid")>>]
      [] b("type") = 3 -> [kind |-> "N", args |-> <<b("first"), b("fourth"),
                              b("second"), b("third"), 0, b("tid")>>]
      [] b("type") = 4 -> [kind |-> "A", args |-> <<b("first"), b("fourth"),
                              b("second"), b("fifth"), b("third"), b("tid"), b("dims")>>]
      [] b("type") = 7 -> [kind |-> "U", args |-> <<b("third"), b("first"),
                              b("second"), b("tid")>>]
      [] OTHER         -> [kind |-> "Unexpected", args |-> <<b("type"), b("first"),
                              b("second"), b("tid")>>]

\* Text that no newline has ended: the default case prints none, and an Error
\* may leave println between the two.
Half == [kind |-> "Half", args |-> << >>]
Open(line) == line.kind \in {"Unexpected", "Half"}

\* The file after that.  What is printed next is glued to an open text.
Printing(line) ==
    IF trace # << >> /\ Open(trace[Len(trace)])
    THEN [trace EXCEPT ![Len(trace)] =
            IF Open(line) THEN Half ELSE [kind |-> "Glued", args |-> << >>]]
    ELSE Append(trace, line)

------------------------------------------------------------------------------
Init ==
    /\ flag = [t \in Actors |-> FALSE]
    /\ at = [t \in Actors |-> Resting]
    /\ saved = [t \in Actors |-> << >>]
    /\ owner = NoOne /\ holds = 0
    /\ ptr = 0
    /\ buf = [f \in Fields |-> [j \in Slots |-> 0]]
    /\ idMap = [h \in Hashes |-> 0] /\ nextId = 1
    /\ witness = [k \in {} |-> <<0, 0>>]
    /\ trace = << >>
    /\ made = 0 /\ halted = FALSE
    /\ log = << >> /\ base = 0 /\ broken = {} /\ cut = {}

\* Mutant: the result of a tryLock() is not looked at.
MxFreeOrNot(t) == TRUE

MxFree(t) == owner \in {NoOne, t}          \* ReentrantLock

Acquire(t) == owner' = t /\ holds' = holds + 1

Release ==
    /\ owner' = IF holds = 1 THEN NoOne ELSE owner
    /\ holds' = holds - 1

Goto(t, pc) == at' = [at EXCEPT ![t].pc = pc]

\* Mutant: no reentrancy test.
NotTested(t) == FALSE

\* if (inInstrumentMethod.get()) return;
InHandler(t) == flag[t]

\* A call of a handler: from the program, or from the instrumented library
\* code that a handler of the same thread is executing.
Enter(t, c) ==
    /\ ~halted
    /\ at[t].pc # "done"
    /\ IF InHandler(t)
       THEN UNCHANGED vars
       ELSE /\ made < MaxCalls
            /\ made' = made + 1
            /\ flag' = [flag EXCEPT ![t] = TRUE]
            /\ saved' = IF at[t].pc = "app" THEN saved
                        ELSE [saved EXCEPT ![t] = <<at[t]>> \o @]
            /\ at' = [at EXCEPT ![t] = [Resting EXCEPT !.pc = "lock", !.call = c,
                          \* only the witness handler uses its timestamp
                          !.ts = IF c.op = "witnessObjectAliveVer2" THEN made ELSE 0]]
            /\ UNCHANGED <<owner, holds, ptr, buf, idMap, nextId, witness, trace,
                           halted, log, base, broken, cut>>

Lock(t) ==
    /\ ~halted
    /\ at[t].pc = "lock"
    /\ MxFree(t)
    /\ Acquire(t)
    /\ Goto(t, IF at[t].call.op = "witnessObjectAliveVer2" THEN "put" ELSE "check")
    /\ UNCHANGED <<flag, saved, ptr, buf, idMap, nextId, witness, trace, made,
                   halted, log, base, broken, cut>>

\* Mutant: off by one.
NeedsFlushLate == ptr > BUFMAX

\* if (ptr.get() >= BUFMAX) flushBuffer();
NeedsFlush == ptr >= BUFMAX

Check(t) ==
    /\ ~halted
    /\ at[t].pc = "check"
    /\ Goto(t, IF NeedsFlush THEN "flock" ELSE "claim")
    /\ UNCHANGED <<flag, saved, owner, holds, ptr, buf, idMap, nextId, witness,
                   trace, made, halted, log, base, broken, cut>>

\* int currPtr = ptr.getAndIncrement();
Claim(t) ==
    /\ ~halted
    /\ at[t].pc = "claim"
    /\ ptr' = ptr + 1
    /\ at' = [at EXCEPT ![t].pc = "store", ![t].slot = ptr, ![t].step = 1]
    /\ log' = Append(log, [thread |-> t, call |-> at[t].call])
    /\ UNCHANGED <<flag, saved, owner, holds, buf, idMap, nextId, witness, trace,
                   made, halted, base, broken, cut>>

\* The next assignment to the slot; the last one leads to mx.unlock().
Store(t) ==
    LET todo == Stores(t, at[t].call)
        s    == todo[at[t].step]
    IN
    /\ ~halted
    /\ at[t].pc = "store"
    /\ at[t].slot \in Slots
    /\ idMap'  = IF s.isRef THEN IdMapWith(s.ref) ELSE idMap
    /\ nextId' = IF s.isRef THEN NextIdWith(s.ref) ELSE nextId
    /\ buf' = [buf EXCEPT ![s.field][at[t].slot] =
                  IF s.isRef THEN idMap'[Hash[s.ref]] ELSE s.val]
    /\ at' = [at EXCEPT ![t].step = @ + 1,
                        ![t].pc = IF at[t].step = Len(todo) THEN "unlock" ELSE "store"]
    /\ UNCHANGED <<flag, saved, owner, holds, ptr, witness, trace, made, halted,
                   log, base, broken, cut>>

\* witnessMap.put(getObjectId(aliveObject), Pair.of(timestamp, classId));
Put(t) ==
    LET c == at[t].call IN
    /\ ~halted
    /\ at[t].pc = "put"
    /\ idMap' = IdMapWith(c.obj)
    /\ nextId' = NextIdWith(c.obj)
    /\ LET id == idMap'[Hash[c.obj]] IN
       witness' = [k \in DOMAIN witness \cup {id} |->
                     IF k = id THEN <<at[t].ts, c.id>> ELSE witness[k]]
    /\ Goto(t, "unlock")
    /\ UNCHANGED <<flag, saved, owner, holds, ptr, buf, trace, made, halted, log,
                   base, broken, cut>>

Unlock(t) ==
    /\ ~halted
    /\ at[t].pc = "unlock"
    /\ Release
    /\ Goto(t, "clear")
    /\ UNCHANGED <<flag, saved, ptr, buf, idMap, nextId, witness, trace, made,
                   halted, log, base, broken, cut>>

\* inInstrumentMethod.set(false); and the handler returns.
Clear(t) ==
    /\ ~halted
    /\ at[t].pc = "clear"
    /\ flag' = [flag EXCEPT ![t] = FALSE]
    /\ at' = [at EXCEPT ![t] = IF saved[t] = << >> THEN Resting ELSE Head(saved[t])]
    /\ saved' = [saved EXCEPT ![t] = IF @ = << >> THEN @ ELSE Tail(@)]
    /\ UNCHANGED <<owner, holds, ptr, buf, idMap, nextId, witness, trace, made,
                   halted, log, base, broken, cut>>

------------------------------------------------------------------------------
(* flushBuffer, called by a handler that holds mx or by the hook.          *)

\* Mutant: off by one.
FlushSizeShort == IF ptr < BUFMAX THEN ptr - 1 ELSE BUFMAX

FlushSize == IF ptr < BUFMAX THEN ptr ELSE BUFMAX

\* Mutant: ptr.set(0) before the records are written.
FlushLockResets(t) ==
    /\ ~halted
    /\ at[t].pc = "flock"
    /\ MxFree(t)
    /\ Acquire(t)
    /\ at' = [at EXCEPT ![t].pc = "flush", ![t].i = 0, ![t].size = FlushSize]
    /\ ptr' = 0
    /\ UNCHANGED <<flag, saved, buf, idMap, nextId, witness, trace, made,
                   halted, log, base, broken, cut>>

FlushLock(t) ==
    /\ ~halted
    /\ at[t].pc = "flock"
    /\ MxFree(t)
    /\ Acquire(t)
    /\ at' = [at EXCEPT ![t].pc = "flush", ![t].i = 0, ![t].size = FlushSize]
    /\ UNCHANGED <<flag, saved, ptr, buf, idMap, nextId, witness, trace, made,
                   halted, log, base, broken, cut>>

FlushRecord(t) ==
    /\ ~halted
    /\ at[t].pc = "flush"
    /\ at[t].i < at[t].size
    /\ trace' = Printing(Printed(at[t].i))
    /\ buf' = [buf EXCEPT !["dims"][at[t].i] = 0]
    /\ at' = [at EXCEPT ![t].i = @ + 1]
    /\ UNCHANGED <<flag, saved, owner, holds, ptr, idMap, nextId, witness, made,
                   halted, log, base, broken, cut>>

\* ptr.set(0);
FlushReset(t) ==
    /\ ~halted
    /\ at[t].pc = "flush"
    /\ at[t].i >= at[t].size
    /\ ptr' = 0
    /\ base' = Len(log)
    /\ Goto(t, "funlock")
    /\ UNCHANGED <<flag, saved, owner, holds, buf, idMap, nextId, witness, trace,
                   made, halted, log, broken, cut>>

\* Mutant: no mx.unlock() after the flush.
FlushKeepsLock(t) ==
    /\ ~halted
    /\ at[t].pc = "funlock"
    /\ Goto(t, IF t = Hook THEN "done" ELSE "claim")
    /\ UNCHANGED <<flag, saved, owner, holds, ptr, buf, idMap, nextId, witness, trace,
                   made, halted, log, base, broken, cut>>

FlushUnlock(t) ==
    /\ ~halted
    /\ at[t].pc = "funlock"
    /\ Release
    /\ Goto(t, IF t = Hook THEN "done" ELSE "claim")
    /\ UNCHANGED <<flag, saved, ptr, buf, idMap, nextId, witness, trace, made,
                   halted, log, base, broken, cut>>

------------------------------------------------------------------------------
(* Shutdown: the hook mutes its own thread, flushes, writes the id maps    *)
(* (which changes nothing here) and ends; the other threads keep running   *)
(* until the JVM stops, at any point after that.                           *)

HookStart ==
    /\ ~halted
    /\ at[Hook].pc = "app"
    /\ flag' = [flag EXCEPT ![Hook] = TRUE]
    /\ Goto(Hook, "flock")
    /\ UNCHANGED <<saved, owner, holds, ptr, buf, idMap, nextId, witness, trace,
                   made, halted, log, base, broken, cut>>

Halt ==
    /\ ~halted
    /\ at[Hook].pc = "done"
    /\ halted' = TRUE
    /\ UNCHANGED <<flag, at, saved, owner, holds, ptr, buf, idMap, nextId, witness,
                   trace, made, log, base, broken, cut>>

Halted == halted /\ UNCHANGED vars

\* The object whose id the thread is about to ask for, if any.
Wanted(t) ==
    CASE at[t].pc = "put" -> {at[t].call.obj}
      [] at[t].pc = "store" -> LET s == Stores(t, at[t].call)[at[t].step]
                               IN  IF s.isRef THEN {s.ref} ELSE {}
      [] OTHER -> {}

------------------------------------------------------------------------------
(* Errors.                                                                 *)

\* ReentrantLock.unlock(): an IllegalMonitorStateException, and nothing else,
\* for a thread that does not hold mx.
UnlockOrThrow(t) == IF owner = t THEN Release ELSE UNCHANGED <<owner, holds>>

\* The call ends with an exception.  inInstrumentMethod.set(false) is in no
\* finally, so the flag stays set.
Leave(t) ==
    /\ at' = [at EXCEPT ![t] = IF t = Hook THEN [Resting EXCEPT !.pc = "done"] ELSE Resting]
    /\ saved' = [saved EXCEPT ![t] = << >>]

\* To the innermost finally ahead.  flushBuffer locks mx inside its try, a
\* handler before it.
Unwind(t) ==
    CASE at[t].pc \in {"flock", "flush"} -> Goto(t, "ffail") /\ UNCHANGED saved
      [] at[t].pc \in {"check", "claim", "store", "put"} -> Goto(t, "fail") /\ UNCHANGED saved
      [] OTHER -> Leave(t)

\* In getObjectId, after getAndIncrement, which wastes an id, or after put.
IdCut(t) ==
    \E o \in Wanted(t) : /\ idMap[Hash[o]] = 0
                         /\ nextId' = nextId + 1
                         /\ idMap' \in {idMap, IdMapWith(o)}

\* In println, after the text or after the newline, before dims are cleared.
LineCut(t) ==
    /\ at[t].pc = "flush" /\ at[t].i < at[t].size
    /\ \/ trace' = Printing(Half) /\ cut' = IF at[t].i = 0 THEN cut \cup {base + 1} ELSE cut
       \/ trace' = Printing(Printed(at[t].i)) /\ cut' = cut

\* An Error strikes, or an exception that it causes.
Throw(t) ==
    /\ Faults
    /\ ~halted
    /\ at[t].pc \in {"lock", "check", "claim", "store", "put", "clear", "flock", "flush"}
    /\ Unwind(t)
    /\ broken' = IF at[t].pc = "store" THEN broken \cup {Len(log)} ELSE broken
    /\ \/ UNCHANGED <<idMap, nextId, trace, cut>>
       \/ IdCut(t) /\ UNCHANGED <<trace, cut>>
       \/ LineCut(t) /\ UNCHANGED <<idMap, nextId>>
    /\ UNCHANGED <<flag, owner, holds, ptr, buf, witness, made, halted, log, base>>

\* Mutant: the lock of the flush is given back on the normal path only.
FlushFinallyEmpty(t) ==
    /\ ~halted
    /\ at[t].pc = "ffail"
    /\ UNCHANGED <<owner, holds>>
    /\ IF t = Hook THEN Leave(t) ELSE Goto(t, "fail") /\ UNCHANGED saved
    /\ UNCHANGED <<flag, ptr, buf, idMap, nextId, witness, trace, made, halted, log,
                   base, broken, cut>>

\* The finally of flushBuffer, on the way out.  After an Error in its own
\* mx.lock() this takes the handler's lock away early.
FlushFinally(t) ==
    /\ ~halted
    /\ at[t].pc = "ffail"
    /\ UnlockOrThrow(t)
    /\ IF t = Hook THEN Leave(t) ELSE Goto(t, "fail") /\ UNCHANGED saved
    /\ UNCHANGED <<flag, ptr, buf, idMap, nextId, witness, trace, made, halted, log,
                   base, broken, cut>>

\* The finally of the handler, on the way out.
HandlerFinally(t) ==
    /\ ~halted
    /\ at[t].pc = "fail"
    /\ UnlockOrThrow(t)
    /\ Leave(t)
    /\ UNCHANGED <<flag, ptr, buf, idMap, nextId, witness, trace, made, halted, log,
                   base, broken, cut>>

------------------------------------------------------------------------------
HandlerStep(t) ==
    \/ Lock(t) \/ Check(t) \/ Claim(t) \/ Store(t) \/ Put(t) \/ Unlock(t) \/ Clear(t)
    \/ FlushLock(t) \/ FlushRecord(t) \/ FlushReset(t) \/ FlushUnlock(t)
    \/ FlushFinally(t) \/ HandlerFinally(t)

Next ==
    \/ \E t \in Threads, c \in Calls : Enter(t, c)
    \/ \E t \in Actors : HandlerStep(t) \/ Throw(t)
    \/ HookStart
    \/ Halt
    \/ Halted

\* A running thread is eventually scheduled; mx promises no fairness, so
\* only weak fairness of a whole thread is assumed, and none of the calls.
Fairness == \A t \in Actors : WF_vars(HandlerStep(t))

Spec == Init /\ [][Next]_vars /\ Fairness

------------------------------------------------------------------------------
(* Properties.                                                             *)

LocalsTyped ==
    /\ flag \in [Actors -> BOOLEAN]
    /\ at \in [Actors -> Frame]
    /\ saved \in [Actors -> Seq(Frame)]

MxTyped == owner \in Actors \cup {NoOne} /\ holds \in 0 .. 2

BuffersTyped == ptr \in 0 .. BUFMAX /\ buf \in [Fields -> [Slots -> Nat]]

IdsTyped ==
    /\ idMap \in [Hashes -> Nat]
    /\ nextId \in Nat \ {0}
    /\ DOMAIN witness \subseteq 1 .. nextId
    /\ \A k \in DOMAIN witness : witness[k] \in Nat \X Nat

FileLine == [kind : {"M", "E", "N", "A", "U", "Unexpected", "Half", "Glued"},
             args : Seq(Nat)]

HistoryTyped ==
    /\ trace \in Seq(FileLine)
    /\ made \in 0 .. MaxCalls
    /\ halted \in BOOLEAN
    /\ log \in Seq([thread : Actors, call : Calls])
    /\ base \in 0 .. Len(log)
    /\ broken \subseteq 1 .. Len(log) /\ cut \subseteq Nat

\* Types, and the ranges the arrays and the lock depend on: ptr never passes
\* BUFMAX, mx is never held more than twice, witnesses have known ids.
TypeOK == LocalsTyped /\ MxTyped /\ BuffersTyped /\ IdsTyped /\ HistoryTyped

\* Points of a handler where its thread must hold mx.
Inside == {"check", "claim", "store", "put", "unlock", "flush", "funlock"}

\* mx protects the buffers: between lock and unlock a thread is its owner, the
\* flush inside a handler holds it twice, and a thread holds it nowhere else but
\* where it waits for it again and on the way out after an Error.
MxProtects ==
    /\ \A t \in Actors : at[t].pc \in Inside =>
          /\ owner = t
          /\ holds = IF t # Hook /\ at[t].pc \in {"flush", "funlock"} THEN 2 ELSE 1
    /\ owner = NoOne <=> holds = 0
    /\ owner # NoOne => at[owner].pc \in Inside \cup {"flock", "ffail", "fail"}

\* The instrumented library code a handler runs never re-enters the recorder.
NoReentry ==
    \A t \in Actors : saved[t] = << >> /\ (at[t].pc # "app" => flag[t])

ObjectId == [o \in Objects |-> idMap[Hash[o]]]

IdLine(k) == Line(log[k].thread, log[k].call, ObjectId, 0)

\* How many claims have been filled; the last one may be under way.
Filled == IF \E t \in Actors : at[t].pc = "store" THEN Len(log) - 1 ELSE Len(log)

\* How far a flush under way has come.
Flushed == IF owner # NoOne /\ at[owner].pc = "flush" THEN at[owner].i ELSE 0

\* The trace is the log of the calls: line k of the file says what the k-th
\* call to claim a slot recorded, with nothing lost, repeated, reordered or
\* taken from an older record, and the filled slots say what is to follow.
TraceFaithful ==
    /\ ptr = Len(log) - base
    /\ Len(trace) = base + Flushed
    /\ \A k \in 1 .. Len(trace) : trace[k] = IdLine(k)
    /\ \A k \in Len(trace) + 1 .. Filled : Printed(k - base - 1) = IdLine(k)

\* When the hook's flush is over, every call that claimed a slot is in the
\* file: the program's threads can be anywhere, but not half way in a record.
ShutdownFlushesAll ==
    at[Hook].pc = "funlock" => ptr = 0 /\ Len(trace) = Len(log)

\* An identity hash keeps the id it was given, which no other hash has.
IdsDistinct ==
    \A h, g \in Hashes : idMap[h] # 0 /\ idMap[h] = idMap[g] => h = g

IdsKept ==
    [][\A h \in Hashes : idMap[h] # 0 => idMap'[h] = idMap[h]]_vars

\* Whoever holds mx gives it back: a flush and a handler come to an end.
MxReleased == \A t \in Actors : (owner = t /\ ~halted) ~> (owner # t \/ halted)

\* The calls of mx.unlock() that are left on t's way out of the handler, on
\* either path.
UnlocksAhead(t) ==
    CASE at[t].pc \in {"flush", "funlock", "ffail"} -> IF t = Hook THEN 1 ELSE 2
      [] at[t].pc \in {"check", "claim", "store", "put", "unlock", "flock", "fail"} -> 1
      [] OTHER -> 0

\* Errors or not, the thread that holds mx will give it back as often as it
\* holds it: the two finally blocks, one unlock each, make up for the two locks,
\* also where an Error in the second lock has the first one given back early,
\* and a thread that is out of its handler holds nothing.
MxNotLeaked == \A t \in Actors : owner = t => holds \in 1 .. UnlocksAhead(t)

\* A record whose assignments were all made is on a line of the file, or it is
\* whole in the buffers below ptr, where the next flush finds it, even when an
\* Error cut a flush short.  What can be lost is the record right after one that
\* an Error cut short, which that one's text may have swallowed, and the first
\* record of the buffers once an Error has left half of its line: the next flush
\* starts again with it and glues it to that half.
CompletedNotLost ==
    \A k \in (1 .. Filled) \ (broken \cup {b + 1 : b \in broken} \cup cut) :
        \/ \E j \in 1 .. Len(trace) : trace[j] = IdLine(k)
        \/ k > base /\ k - base - 1 < ptr /\ Printed(k - base - 1) = IdLine(k)

------------------------------------------------------------------------------
(* QTRProxy implements TraceLog, read with hashes in the place of ids.     *)

NoHash == -1

HashOfId(id) == IF id = 0 THEN NoHash ELSE CHOOSE h \in Hashes : idMap[h] = id

\* Where the ids are among the numbers of a line.
IdArgs(kind) == CASE kind = "M" -> {2, 3} [] kind = "E" -> {2} [] kind = "U" -> {1, 2, 4}
                  [] OTHER -> {1, 6}

Decoded(line) ==
    [line EXCEPT !.args = [p \in DOMAIN @ |-> IF p \in IdArgs(line.kind)
                                               THEN HashOfId(@[p]) ELSE @[p]]]

HashLine(t, c) == Line(t, c, Hash, NoHash)

HashLines == [t \in Threads |-> {HashLine(t, c) : c \in Calls}]

Recording(t) == at[t].call.op # "witnessObjectAliveVer2"

PendingLine(t) ==
    CASE at[t].pc = "app" \/ ~Recording(t) ->
            [kind |-> "idle", args |-> << >>]
      [] at[t].pc \in {"unlock", "clear"} /\ Recording(t) ->
            [kind |-> "returning", args |-> << >>]
      [] OTHER ->
            HashLine(t, at[t].call)

Log == INSTANCE TraceLog WITH
    Lines     <- HashLines,
    Idle      <- [kind |-> "idle", args |-> << >>],
    Returning <- [kind |-> "returning", args |-> << >>],
    pending   <- [t \in Threads |-> PendingLine(t)],
    recorded  <- [k \in 1 .. Filled |-> HashLine(log[k].thread, log[k].call)],
    trace     <- [k \in 1 .. Len(trace) |-> Decoded(trace[k])]

\* Every handler call takes effect at one instant between call and return, and
\* the file receives those effects in that order.
ImplementsTraceLog == Log!Spec
=============================================================================
