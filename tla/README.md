# A TLA+ model of the QTR tool

QTR records what a Java program does with its objects and replays the recording
offline to find out when each object became garbage. It has two halves that
share nothing but files:

* the **recorder**, a Java agent (`javassist-inst/qtrtool`): it weaves calls to
  `QTRProxy` into every method that is loaded, and `QTRProxy` appends records to
  fixed-size buffers and flushes them to `trace`. At JVM shutdown a hook flushes
  the rest and writes `methods.list`, `fields.list`, `class.list` and
  `witness.list`, which give the numbers of the trace their names;
* the **simulator** (`simulator/`, C++): it reads the lists, then the trace, record by
  record, into a heap of objects and an execution state (threads, stacks,
  clocks), and then runs the Merlin algorithm to compute death times.

In what follows QP is `src/javassist-inst/qtrtool/src/main/java/veroy/research/qtrtool/javassist`.
`PROJECT.json` maps every definition to the lines it stands for.

## Inventory

| Component | State | Operations | What makes it correct |
|---|---|---|---|
| Event recorder (`QP/QTRProxy.java`) | nine parallel buffers, `ptr`, the lock `mx`, one `inInstrumentMethod` flag per thread, `objIdMap` and `nextObjectId`, `witnessMap` | the handlers `onEntry`, `onExit`, `onObjectAlloc`, `onPutField`, `onArrayAlloc`, `witnessObjectAliveVer2`; `getObjectId`; `flushBuffer` | what reaches the file is what happened, once each and in one order; ids tell objects apart; no thread is left waiting |
| Agent start and shutdown (`QP/DynamicInstrumenter.java`) | the writer, the shutdown hook | `premain`, the hook | everything claimed before the hook's flush is in the file; every number has a name |
| Instrumenter and id maps (`QP/MethodInstrumenter.java`) | three maps name → id, three counters | `transform`, `instrumentMethods`, `writeMapsToFile` | one id for each name, however many threads load classes |
| Trace reader (`simulator.cpp`) | the clock, the list of records, `no_alloc_map` | one case per record kind: M, E, A, N, U, W, end | the last-seen time of every object, the records in time order |
| Heap state (`heap.cpp/.h`) | objects made, map id → object, live size, death counters and flags, edges | `allocate`, `getObject`, `makeDead`, `updateField`, `__end_of_program` | counters and live size agree with the objects |
| Execution state (`execution.cpp/.hpp`) | clocks, thread table, a method stack and two stacks of local variables per thread, call contexts of objects | `Call`, `Return`, `IncUpdateTime`, contexts at allocation and death | the stacks move together; the recorded context is the right method |
| Merlin (`simulator.cpp`) | the garbage deque, the labels, the search stack, death times | `apply_merlin`, `verify_garbage_order`, `insert_death_records_into_trace` | every object dies with the last object that can reach it |
| Class information (`classinfo.cpp`) | `TheClasses`, `rev_map`, `TheFields`, `max_class_id` | the readers of `class.list`, `fields.list`, `methods.list` | a class is found by its name, a field has one owner |
| Tokenizer (`tokenizer.hpp/.cpp`) | a line | read a line, split it | abstracted: a line is one of its possible contents |
| Overlap analysis (`analyze.cpp`) | a forest of objects: `m_parent`, `m_rank`, `m_set_size` | `make_set`, `find`, `setunion`, `get_sets` | it is a partition; sizes are right; `find` ends |
| ASM agent, tests, samples, type definitions | | | not modelled, see the end |

How they interact. Program threads call handlers; handlers of different threads,
nested flushes and the hook's flush meet at `mx`. Class-loading threads meet in
the id maps, which the hook reads while they may still grow. The trace file is
the only channel to the simulator; the order of its lines is the order in which
threads claimed slots. What the numbers of a line mean is nowhere declared: each program
has its own comments, and they differ. The simulator is one thread: its hard part is not
interleaving but long sequences of records (stubs before allocations, ids that
come again, threads first seen at a return) and the coupling between heap, clock
and contexts.

Where the code is hard to test: a record is nine assignments under a lock; a
handler may flush and so lock twice; library code called by a handler may itself
be instrumented; an Error may leave a handler anywhere; the shutdown hook runs
beside the program; ids are identity hash codes, which may coincide; the reader
accepts events on objects it has never seen; the JVM may stop between any two
lines; Merlin writes death times while
later searches still read them. `PROJECT.json` lists these hazards line by line
with the properties that would catch each.

## The modules

| Module | Models | Role |
|---|---|---|
| `TraceFormat` | `flushBuffer`'s formats | `Line`: what a call of each handler is to leave in the file; used by both programs' models |
| `TraceLog` | | abstract specification of the recorder: an append-only log of calls, of which a file holds a growing prefix |
| `QTRProxy` | `QTRProxy.java`, hook of `DynamicInstrumenter.java` | the recorder, one action per step a thread takes between two points where another may interfere; instantiates `TraceLog` with a refinement mapping |
| `Pipeline` | `sim_main`, the positions in a line of `simulator.cpp` | composes recorder and reader through the file: `Recorder == INSTANCE TraceLog`, `Reader == INSTANCE TraceReader` |
| `NameMaps` | `MethodInstrumenter.java`, `DynamicInstrumenter.java` | class loading by several threads, calls, flushes and the hook that writes the lists |
| `TraceReader` | the read loop of `simulator.cpp`, with what it uses of `heap.cpp` and `execution.cpp` | one action per record kind |
| `Merlin` | `apply_merlin` and its helpers | one action per iteration of its loops |
| `ClassInfo` | `classinfo.cpp` | one action per line of each list |
| `HeapState`, `ExecState` | `heap.cpp/.h`, `execution.cpp/.hpp` | the operations of the two classes, without a caller |
| `SimulatorState` | | composes the two: `Heap == INSTANCE HeapState`, `Exec == INSTANCE ExecState`, and lets a caller call the operations in any order |
| `Partition` | | abstract specification of a disjoint-set structure: each call takes effect at one moment and returns |
| `DisjointSets` | `DisjointSets` of `analyze.cpp` | one action per call or return of `find` and per method; implements `Partition` |

`MC<Module>` gives each module a small instance, `<Module>Proofs` holds its theorems.

### QTRProxy

`at[t]` is a thread's place in a handler and its local variables, `owner` and
`holds` are `mx`, `flag` is `inInstrumentMethod`, `buf` and `ptr` are the buffers.
A handler goes `Enter` (test and set the flag, read the clock) → `Lock` → `Check`
(flush if full) → `Claim` (`ptr.getAndIncrement`) → `Store` once per assignment, in the
source's order → `Unlock` → `Clear`; a witness has `Put` instead of a slot. `Stores` is
the list of assignments each handler makes; `SetId` calls `getObjectId`. A flush
is `FlushLock`, one `FlushRecord` for each slot, `FlushReset`, `FlushUnlock`. `HookStart`
and the same flush actions are the shutdown hook, `Halt` the end of the JVM.
`log` is history: the calls in the order they claimed slots. With `Faults` an
Error may strike at any point of a handler (`Throw`): in a lock, between two assignments, inside
`getObjectId` (an id is wasted, or put without being stored), inside a `println`. The thread then goes
through the `finally` blocks that are ahead of it, one step each: `FlushFinally`, with the flush's `unlock`, if it was in
`flushBuffer`, then `HandlerFinally` with the handler's. Each unlocks once (`UnlockOrThrow`: nothing
is given back by a thread that does not hold `mx`, and an exception takes it on). `flushBuffer` locks inside its
`try`, so an Error in that `lock` gives the handler's own hold back early. The flag stays set.
A line of `trace` is then no longer written at once: an Error after the text and before
the newline leaves `Half` of it, and so does the `default` case, which prints no newline (`Open`); what is printed next is
`Glued` to it. Since `ptr` stays as it was, the next flush starts again with the first record of the buffers,
and loses it if the file ends in half a line (`cut`).
`Enter` may also be tried by a thread that is inside a handler already (an
instrumented library method): the flag makes it return.

The instrumenter weaves only `onEntry` and `onExit` today
(the `ExprEditor` at `MethodInstrumenter.java:158` is commented out); all public
handlers of `QTRProxy` are modelled, since their bodies share the buffers.

### Pipeline

The tool from end to end. `Record` is a step of `TraceLog`, which `QTRProxy` implements (`ImplementsLog`, run
`proxy`), so the recorder's buffers and lock need not be repeated; `Stop` is the
end of the JVM at any moment: the file has the lines that were printed, each whole
(`DynamicInstrumenter.java:47`, autoflush). Then `ReadLine` takes one line: `WellFormed`
compares its number of tokens with the one the case asserts, and `EntryCase`, `ExitCase`,
`AllocCase`, `UpdateCase` hand the numbers at the positions the reader uses to the actions of
`TraceReader`. The model of the reader alone takes any line; here the lines are those of
`TraceFormat!Line`, with `Number` for what `getObjectId` gives (an object's hash may be
another's, and null has a number).

`HistoryRead` compares records with calls, not with lines: record k tells of the call that
took effect k-th, source and target in their places. `UsesInOrder` is
what Merlin rests on: of two objects, the one that the program used last has no earlier
last-seen time. (Clock values can be equal, since an allocation or an exit does not
advance the clock.)

### TraceReader, Merlin

`heap.objects` is `m_objects` (id → the latest object), `heap.made` all objects
ever allocated, with their `lastTimestamp`; `noAlloc` is `no_alloc_map`, `uptime`
the 32-bit clock with width `Word`. A line of the trace is chosen with `\E` among
all lines the format allows, so the traces need not be ones the recorder
writes. An assertion of the code that fails ends the run with `status` naming it.

Merlin is checked on **any** graph of references with any last-seen times, though
the reader never creates one (finding `reader_edges`): it is the algorithm that
would run if it did. `Sort`, then `PickRoot` / `Expand` / `Skip` / `Finish` for the
depth-first searches, then `KeepRecord` / `AddDeath` / `InsertEnd` for the merge of
death records.

### NameMaps, ClassInfo

In `NameMaps` a thread transforms a class (`Transform`, `ClassId`, one `MethodId` and
`Weave` per method, then `Install` or `LeaveUnmodified`), `Call` runs an installed
method and so puts its number into the buffers, `Flush` moves the buffers to the
file, and the hook opens, fills and closes one list after another over
synchronised maps. In `ClassInfo` each action reads one line of the class list, then the field list,
then the method list. Ids and names of a line may be any and may repeat; excluded is a class with the empty
name in the class list (`NoName`), which a class file cannot have.

### DisjointSets

`path` holds the arguments of the calls of `find` that have not returned: `Descend` is a
recursive call, `AtRoot` its end, `Compress` one return with its write to `m_parent`.
`setunion` collects two roots (`RootFound`) and links (`Union`), `get_sets` visits objects in
any order (the map is ordered by address). `chief` is history: the root of each object's
tree, which is the name `Partition` gives its set. `find` and `setunion` are called with objects
that `make_set` has seen, as `analyze2` does it.

### SimulatorState

Of the operations of `HeapState` and `ExecState` the simulator's present main path uses
`allocate`, `getObject`, `getThread`, the clocks and `setDeathTime`; the others (`Call`,
`Return`, `makeDead`, contexts, `__end_of_program`) are public and have no caller in
the repository. The composed model therefore calls them in any order, and what it
shows holds for any caller of the operations that the two modules have, in any order, one call at a
time, until the end of the program. What the modules leave out (reference fields and their updates,
`set_reason_for_cycles`, mode Full, setters other than those of `HeapCall`) such a caller does not call.
Both overloads of `allocate` are modelled: `AllocateAgain` puts an object that exists once more, whatever became
of it, and adds its size again (`again` is history: these sizes). The counters of deaths are as wide as an `unsigned int`
(`Wrapped`, `Word`), the live size saturates at an `unsigned long` (`Plus`, `Minus`, `Long`).
Reads past the end of an array (`execution.cpp:612`) are a choice from `Junk`.

## The runs

Constants are in the `.cfg` files. A run that is expected to find a violation shows a
finding (below).

| Run | Shows | Bounds |
|---|---|---|
| `proxy` | the buffers are protected, no reentry, file plus buffers = the calls in slot order, the hook leaves nothing, ids are distinct; the recorder implements `TraceLog`; `mx` is given back | 2 threads and the hook, 2 slots, 3 calls of the 6 handlers (with null arguments and an object whose hash collides) |
| `proxy_faults` | after Errors at any point the two `finally` blocks give `mx` back as often as it is held; a finished record is lost only behind a record cut short or as the first of the buffers behind half a line | 4 calls of 3 handlers, Errors anywhere |
| `pipeline` | what the simulator reads of any file the recorder leaves: no assertion fails but the one on a stale id at an exit, a prefix of the history, uses in order, read to the end unless that assertion fails | 2 threads, 3 calls of 7 (null, a shared number), the JVM stopping anywhere |
| `names` | numbers are unique; every number of the trace up to the hook's flush has a name and a class | 2 threads, 2 classes (overload, native method), 3 transformations |
| `reader` | time order, last-seen times, separate objects with separate lifetimes | every trace of ≤ 5 records over 2 ids and 0 |
| `merlin` | death times, the search invariant, death records in place, termination | every graph of 3 objects with ≤ 2 references each (one object ≤ 1), all times 1..3, 5 records |
| `classes` | classes are found, a field has one owner, at most one class is displaced | lists of ≤ 4 lines, 3 names, 3 ids, 3 fields |
| `state` | death counters agree with the objects modulo their width, the live size until it saturates, the stacks stay in step, the recorded non-library method is right | 6 calls, 3 values of an `unsigned int`, 5 of an `unsigned long`, objects of size 2, 3 objects of 2 ids, 2 threads (symmetric), a library and an application method |
| `sets` | parents, ranks and sizes, and that the forest implements `Partition`, every call returning | 4 objects, any sequence of calls |
| `reader_edges`, `reader_exit`, `classes_fields` | the findings | as above |

**Why the bounds are enough.** The hazards of the recorder need two threads, the
hook, a slot that is used again and a flush in the middle of a handler: with two
slots and three calls the buffers fill, a handler flushes and claims slot 0
again with the previous record's values still in place; the hook's flush is a
second one. With Errors the fourth call is the one whose flush comes after a flush cut in the middle
of the first line. An id needs a collision (two objects with one hash) and a
repeat, both within three calls. Three objects are the smallest heap with a
cycle that is reached from outside and an object reached along two paths; three
times give ties and strict orders. Five records let an id have a stub, an
allocation, another allocation and be seen between and after. Three calls of the pipeline
are a stub, an allocation and an update between the two, by two threads, with the file cut
before, between and after them. Four objects are the fewest for a tree of rank 2, whose paths
compression shortens. In `NameMaps`
three transformations are one class twice and another beside it. In `ClassInfo`
a displacement needs two lines, the claim that it happens once three and more.
In `SimulatorState` six calls make two objects of one id, kill one, allocate it again, and call and
return on two threads; two objects of size 2 wrap a size counter of 3 values, three saturate a live size of 5.

`Long` and, in `HeapState`, `Word` (how many values an unsigned long and an unsigned int have), `Never` (the initial
death time, larger than every clock value), `MaxTime`, `MaxObjects`, `MaxCalls`,
`MaxLoads`, `MaxLines`, `MaxTrace` and `Word` are the named bounds.

**Deadlock** is checked in every run: each system ends in a stuttering step of its own
(`Halted`, `Stopped`, `Ended`, `Done`), so a state where everyone waits on everyone
would be reported.

**Fairness.** The recorder has weak fairness for every thread's steps inside a handler: a thread that
can run is scheduled sometimes, and nothing in a handler waits but for `mx`. `mx` is
a `ReentrantLock()` without the fairness argument, so a thread may wait for ever
while others overtake it; strong fairness for `Lock` is not assumed and nothing is
claimed about a particular thread getting in. What is claimed is `MxReleased`: whoever has `mx`
gives it back. `Enter` (the program's own will to call) has no fairness. The simulator is one
thread: `Merlin` has weak fairness for its next step, `Pipeline` for reading the next line and
`DisjointSets` for the step of a call that is under way. Nobody has to call, and the JVM need not
stop.

**Mutants.** Each property of each passing run has a mutant in `PROJECT.json`, a definition
with a plausible mistake (a dropped guard, a swapped order, an off-by-one, a comment taken at its word), which
stands beside the right one in the module and makes the run fail.

## Findings

* **`reader_edges`**: `make_edge` is called only for a field that has an edge already
  (`simulator.cpp:561`), and fields start without one. No update ever makes a
  reference, so each object's death time is its own last-seen time. `NoReferenceEver`
  proves this for every trace.
* **`reader_exit`**: the E case reads `object_id`, which it never sets
  (`simulator.cpp:399`); the assertion after it depends on what the build left there.
* **`classes_fields`**: a class made up for an unknown field gets the greatest id in
  use, not the next one, and displaces a class (`classinfo.cpp:334`). That at
  most one class is lost, because the field lists QTR writes give every field
  the same empty class name, is proved (`OneDisplaced`).

Met while reading and modelled as they are, without a run of their own: `onExit` is not called when a method is left by an
exception; `inInstrumentMethod` is not cleared when an Error leaves a handler, so that its thread is not traced again;
`verify_garbage_order` expects ascending times after a descending sort (`reported` in `Merlin`) and
returns true whatever it saw; `methods.list` has the name first, the reader takes the id from column 0
and keeps nothing (`MethodLine`); the comments on the format of a line differ from the lines (the
mutants `TokensOfComment` and `UpdateCaseTargetFirst` take them at their word);
`ExecState::Return` pops the global thread stack whichever thread returns;
an object that dies by a global reference while the last event is ROOT is counted
as a stack death and printed as one that lives to the end (`CountersAgree` leaves it out); the else branches at
the end of `__end_of_program` cannot be reached.

## What is proved

All theorems hold for every value of the constants that the module's named
assumptions allow: any set of threads, any buffer size of at least one and any hash function
(`ConstantsAssumption`), any classes and methods (`NamesAssumption`), any finite heap
and any graph (`MerlinAssumption`), traces shorter than the clock is wide
(`ReaderAssumption`), any lists (`ClassInfoAssumption`), any calls and numbers (`PipelineAssumption`), any finite set of
objects (`ObjectsAssumption`), any ids, sizes, widths, threads and methods (`HeapAssumption`, `ExecAssumption`).
`TraceInOrder` says that the trace Merlin merges its death records into is in the order of its times, which the
reader's model shows of every trace it has read (`Sorted`, proved in `TraceReaderProofs`). Each proof module
defines an inductive invariant `IInv`, proves
`Init => IInv`, `IInv /\ [Next]_vars => IInv'` with one lemma per action, and draws
the properties from it. Every invariant that a passing run checks is stated by a theorem.

* **`QTRProxyProofs`** (with and without Errors): `TypeCorrect`, `LockDiscipline`,
  `NoReentrantHandler`, `DistinctIds`, `StableIds`, `LockNotLeaked`. That two threads never fill
  one slot, and that no slot lies beyond the arrays, is not inductive by itself: `IInv`
  adds, for each thread, at which places of a handler it owns `mx` and with which
  count (a flush inside a handler holds it twice, and on the way out after an Error a thread holds it as often as there are
  `finally` blocks ahead, or not at all), that `ptr` is below `BUFMAX` where
  a slot is about to be claimed, that a flush never prints more than `BUFMAX` slots, that a
  thread in a handler has its flag set, and that every id in the map is less than
  `nextObjectId`. The lemma `StepIInv` reduces
  a step of one thread to that thread's own conjuncts.

  What the slots hold is a second layer on top of `IInv`. `Core` numbers the claims: slot j holds claim
  `base + j + 1`; a thread that fills a slot fills the newest one and has made the assignments up to its place; a
  claim that is filled has every field but `dims`, its ids given out. `dims` stands apart because it is written
  for arrays only, and an older record's value may still be in the slot. On `Core` rest two further
  invariants: `Kept` (with Errors: which records are still sound, and where the
  file ends in half a line, of a record without a type or of one whose `println` an Error cut), which gives `CompletedKept` (`CompletedNotLost`); and `Exact` (without Errors: the
  file is the log up to the flush, the slots are the rest), which gives `FaithfulTrace` (`TraceFaithful`) and
  `ShutdownComplete` (`ShutdownFlushesAll`). `ImplementsLog` is the refinement: without Errors a handler's last assignment is
  the step of `TraceLog` at which its call takes effect (`Record`), `Enter` and `Clear` are its `Call` and `Return`, a line that is printed is its
  `WriteLine`, and everything else is a stutter.
* **`NameMapsProofs`**: `TypeCorrect`, `DistinctNumbers`, `StableNumbers`, `NamesListed`,
  `ClassesAlwaysListed`. The chain is: a woven number is in the map, so every record has its number in the
  map; maps only grow; the list is written from the map after the flush, so it
  holds all keys that were there at the flush.
* **`TraceReaderProofs`**: `TypeCorrect`, `TraceAlwaysVerified`, `DupeUnreachable`,
  `NoReferenceEver`, `LastSeenRecorded`, `LivesDoNotOverlap` (`LifetimesApart`), `ObjectsCounted`
  (`OneObjectPerAllocation`). `IInv` ties the map of objects to the objects made, the times of the trace to
  the clock and `no_alloc_map` to the heap. A trace of 2^32 records would make time go back, which `ReaderAssumption` excludes.
  `Lives` adds that the objects of an id follow one another, each stamped for the last time before the next is made; its one exception is
  the object that an N record has just made and is still to stamp. `Counted` compares the objects of an id
  with the records that speak of it.
* **`MerlinProofs`**: `TypeCorrect`, `SearchCorrect`, `DeathTimesCorrect`, `DeathsAlwaysPlaced`. `SearchInvariant` says what is true in the middle of a
  search: what has been expanded dies no earlier than the present root, what is still in the
  deque no later, and a reference out of an expanded object leads to one that has been expanded
  or waits on the stack and dies no earlier. Reachability is defined
  by closed sets, so the proof needs no induction over paths. `MergeOK` is the invariant of the merge: the list holds the records passed, each
  once and in order (those after the greatest last-seen time are never placed), one death record for each object that is not to come, and every record not after a death
  in front of it. The last needs `TraceInOrder`.
* **`PipelineProofs`**: `RunsTheReader` and `RunsTheRecorder` show that a step of the composition is a step
  of each part or leaves it alone, so that what is proved of a part holds in the whole; `RecorderAccepted` (`Accepted`, which
  leaves the assertion on a stale id aside),
  `HistoryAlwaysRead` (`HistoryRead`) and `UsesAlwaysInOrder` (`UsesInOrder`). The invariant adds to the parts' own what the file holds: line k is the
  line of some call, it has as many numbers as its kind's assertion asks for, and no number that
  the reader asserts on is 0; and the records of the trace are those of the lines read. `UsesInOrder` then follows
  from the reader's theorems: an object's time is that of the last record that speaks of it, and times never go back.
* **`DisjointSetsProofs`**: `TypeCorrect`, `ForestCorrect` (`SetsExact`), and `AnswersAsPartition`: every step is a step of
  `Partition` or a stutter. The invariant says that the calls of `find`
  that have not returned climb one path of one tree, with growing ranks, that the root they return with is the path's
  (`Climbing`), and what `setunion` and `get_sets` have in their local variables (`Calling`). That a root of rank k has at
  least 2^k objects rests on `TwoToIs`, that powers of two exist as the recursive function `TwoTo`.
* **`ClassInfoProofs`**: `TypeCorrect`, `ClassAlwaysFound`, `MaxAlwaysBound`, `FieldOwned`,
  `OneDisplaced`.
* **`SimulatorStateProofs`**: `TypeCorrect`, `CountersCorrect` (`CountersAgree`), `LiveSizeCorrect` (`LiveSizeExact`), `StacksCorrect`
  (`StacksInStep`), `NonLibraryCorrect` (`NonLibraryContext`, an action property). None of the invariants is inductive by itself.
  `HeapOK` adds what an object looks like before `__end_of_program` has come to it (`Unsettled`: if it is dead it died by
  `makeDead`, by one cause and not after the clock; if not, it has no flag of a death), that nothing is counted before the end, and that the end's time is the
  clock's: from an object of another kind a flag would remain and the object be counted under one cause and printed under another.
  `ExecOK` adds that a thread never seen has no frames, so that a return of an unknown thread takes nothing away, and that the contexts are finitely
  many, so that their counts have a sum. Once a counter has wrapped it no longer tells what it counted, so the invariant says that there
  are exact counters behind those of the program (`CountsExact`), which agree with the objects, and of which the program's are the
  remainders (`WrapAdd`: a sum may be wrapped at every step or once). `CountersAgree` follows from it (`CountersFollow`).

  Counters and live size are compared with sums over sets (`MapThenSumSet`). The first part of the module shows of that
  fold that it exists, does not depend on the order, and changes by one term when one element or one term does.

**Induction over data.** The library's induction theorems take an operator as a parameter and no installed prover can
instantiate one. The proofs use a least counterexample instead: `NatMin` (a set of numbers that is not empty has a
least one) follows from `NatLessThanWellFounded` and `WFMin`, which take no operator, and gives `SmallestSet` for finite
sets. With them `DisjointSetsProofs` shows that `TwoTo` satisfies its recursion, `SimulatorStateProofs` what the
sums are, and `PipelineProofs` that there is a last use.

`IdsKept`, `NumbersKept`, `MaxIsBound`, `NoDupe` and `NoReferences` are stated by theorems
(`StableIds`, `StableNumbers`, `MaxAlwaysBound`, `DupeUnreachable`, `NoReferenceEver`) and have no run.

## What is only model-checked

* **Liveness** (`MxReleased`, `Terminates`, `ReadToEnd`, and that a call of `DisjointSets` returns, the fairness part of `ImplementsPartition`): the prover
  does not handle fairness and ENABLED.
* `TraceFaithful`, `ShutdownFlushesAll` and `ImplementsTraceLog` are claimed, checked and proved for `Faults = FALSE` only: an Error in the middle of a record
  leaves a slot half filled, and what can be said then is `CompletedNotLost`.
* The pairs that findings violate.

## What is not modelled

* The rewriting of bytecode, `shouldIgnore`, `premain`'s set-up, file I/O errors,
  the writing of `witness.list` (one step of the hook), the splitting of lines.
* `flushBuffer_ver02` (`QTRProxy.java:448-537`), `read_names_file` for Elephant
  Tracks 1 and `output_all_objects2` have no caller.
* `ExecMode` Full: its first call asserts `m_curcc`, which nothing sets; the main program uses StackOnly
  unless built with `ENABLE_TYPE1`.
* `set_reason_for_cycles`, last-update counters and tables of edges.
* The ASM agent. Every handler of `ETProxy` returns at its first test: `atMain` is private and false, and
  nothing in the repository sets it (its native setter is gone), so its behaviour is to do nothing. `Instrumenter.java` weaves messages
  around calls, no handler; that its method ids are taken from an unsynchronised counter is in the list of hazards.
* The loop of `analyze2` (under `#if 0`) that would fill the disjoint sets, `compute_overlap`, the report.
* Merlin on the heap that the pipeline leaves: by `NoReferenceEver` it has no reference, so nothing would be seen there that
  `Merlin` does not show on any graph.
* `witnessMap` and `witness.list`: with the `ExprEditor` not applied nobody calls `witnessObjectAliveVer2`; the handler is
  modelled, its map has no reader.
* Tests, sample programs, the class list tool (a constant table) and the plotting script.

## Plan

Done: the modules above, in the order `TraceLog`, `QTRProxy`, `TraceReader`, `Merlin`, `NameMaps`,
`ClassInfo`, `HeapState`, `ExecState`, `SimulatorState`, `TraceFormat`, `Pipeline`, `Partition`, `DisjointSets`,
and a theorem for every invariant that a run checks.

Next, in this order:

1. The pipeline over `QTRProxy` itself: with `ImplementsLog` and `RunsTheRecorder`, that `HistoryRead` holds of the
   file `QTRProxy` writes.
2. The class and field lists that `NameMaps` writes, read by `ClassInfo`, and what then can be displaced.
