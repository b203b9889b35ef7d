------------------------------ MODULE Pipeline ------------------------------
(***************************************************************************)
(* The tool from end to end.  A program runs under the recorder, whose     *)
(* part here is what TraceLog promises (QTRProxy implements it); its JVM   *)
(* stops, and what was not written by then is lost.  Then the simulator    *)
(* reads the file line by line (TraceReader): it takes the numbers of a    *)
(* line by their positions, so what a number means is agreed on by the two *)
(* programs only in comments.                                              *)
(*                                                                         *)
(* Number stands for identityHashCode and objIdMap together: a value keeps *)
(* its number, 0 is nobody's, null has one like any other value, and two   *)
(* objects with one hash share one (QTRProxy: IdsTyped, IdsDistinct).      *)
(***************************************************************************)
EXTENDS TraceFormat, FiniteSets

CONSTANTS Threads,      \* threads of the traced program
          Objects,      \* values a handler gets as an Object
          Number,       \* the id getObjectId gives to each
          Calls,        \* calls of handlers that record a line
          MaxLines,     \* bound: calls the program makes
          Word,         \* values of an unsigned int in the simulator
          Idle, Returning

Numbers == {Number[o] : o \in Objects}

ASSUME PipelineAssumption ==
    /\ Null \in Objects /\ Threads \subseteq Objects
    /\ Number \in [Objects -> Nat \ {0}]
    /\ Calls \subseteq [op : Handlers \ {"witnessObjectAliveVer2"}, id : Nat,
                        obj : Objects, tgt : Objects, site : Nat, size : Nat,
                        len : Nat, dims : Nat]
    /\ MaxLines \in Nat /\ Word \in Nat /\ MaxLines < Word

VARIABLES
    pending, recorded, file,                \* the recorder, as TraceLog sees it
    stopped,                                \* the traced JVM is gone
    position,                               \* lines the simulator has got
    status, trace, uptime, threads,         \* the simulator
    execAlloc, heap, noAlloc

recorderVars == <<pending, recorded, file>>
readerVars   == <<status, trace, uptime, threads, execAlloc, heap, noAlloc>>
pipelineVars == <<recorderVars, stopped, position, readerVars>>

\* Mutant: null is printed as 0, as onEntry does it.
NullIsZero == [o \in Objects |-> IF o = Null THEN 0 ELSE Number[o]]

ObjectNumber == Number

CallLines == [t \in Threads |-> {Line(t, c, ObjectNumber, 0) : c \in Calls}]

Recorder == INSTANCE TraceLog WITH Lines <- CallLines, trace <- file

Reader == INSTANCE TraceReader WITH
    Ids <- Numbers, FieldIds <- {c.id : c \in Calls},
    ThreadIds <- {Number[t] : t \in Threads}, Sizes <- {c.size : c \in Calls},
    MaxTrace <- MaxLines

Init == Recorder!Init /\ stopped = FALSE /\ position = 0 /\ Reader!Init

Record ==
    /\ ~stopped
    /\ Recorder!Next
    /\ Len(recorded') + Cardinality({t \in Threads : pending'[t] \in CallLines[t]}) <= MaxLines
    /\ UNCHANGED <<stopped, position, readerVars>>

\* The JVM exits or is killed: the file has the lines that were printed.
Stop ==
    /\ ~stopped
    /\ stopped' = TRUE
    /\ UNCHANGED <<recorderVars, position, readerVars>>

------------------------------------------------------------------------------
(* The read loop: what its cases take from a line.                         *)

NumTokens(line) == Len(line.args) + 1

\* Mutant: the comment's format, <id> <size> <type> <site> <length?> <threadid>,
\* for A and N alike.
TokensOfComment == [M |-> 4, E |-> 3, A |-> 7, N |-> 7, U |-> 5]

\* The asserts on the number of tokens.
Tokens == [M |-> 4, E |-> 3, A |-> 8, N |-> 7, U |-> 5]

WellFormed(line) == NumTokens(line) = Tokens[line.kind]

EntryCase(args)        == Reader!MethodEntry(args[2], args[3])
ExitCase(args)         == \E stale \in Numbers \cup {0} : Reader!MethodExit(stale)
AllocCase(kind, args)  == Reader!Allocation(kind, args[1], args[2], args[6])

\* Mutant: the order of the comment in flushBuffer, `targetObjectHash,
\* fieldID, srcObjectHash'.
UpdateCaseTargetFirst(args) == Reader!FieldUpdate(args[2], args[1], args[3], args[4])

UpdateCase(args)       == Reader!FieldUpdate(args[1], args[2], args[3], args[4])

ReadLine ==
    LET line == file[position + 1] IN
    /\ stopped
    /\ status = "reading"
    /\ position < Len(file)
    /\ position' = position + 1
    /\ IF ~WellFormed(line) THEN Reader!BadLine
       ELSE CASE line.kind = "M"          -> EntryCase(line.args)
              [] line.kind = "E"          -> ExitCase(line.args)
              [] line.kind \in {"A", "N"} -> AllocCase(line.kind, line.args)
              [] line.kind = "U"          -> UpdateCase(line.args)
    /\ UNCHANGED <<recorderVars, stopped>>

EndOfFile ==
    /\ stopped
    /\ position = Len(file)
    /\ Reader!IsDone
    /\ UNCHANGED <<recorderVars, stopped, position>>

Ended == status # "reading" /\ UNCHANGED pipelineVars

Next == Record \/ Stop \/ ReadLine \/ EndOfFile \/ Ended

Spec == Init /\ [][Next]_pipelineVars /\ WF_pipelineVars(ReadLine \/ EndOfFile)

------------------------------------------------------------------------------
(* Properties.                                                             *)

\* The simulator's asserts on the trace hold for whatever the recorder leaves,
\* wherever the JVM stopped, with one exception: the assertion of case E reads a
\* stale id and may fail, which is the status exitObject.
Accepted == status \in {"reading", "done", "exitObject"}

\* Numbers of the objects a call handles; null is one of them in a store.
Uses(c) ==
    CASE c.op = "onExit"     -> {}
      [] c.op = "onPutField" -> {Number[c.obj], Number[c.tgt]}
      [] c.op = "onEntry" /\ c.obj = Null -> {}
      [] OTHER               -> {Number[c.obj]}

\* The record says what the call did, source and target in their places.
Tells(r, c) ==
    CASE c.op = "onExit"        -> r.type = "E"
      [] c.op = "onEntry"       -> r.type = "M" /\ {r.id} \ {0} = Uses(c)
      [] c.op = "onObjectAlloc" -> r.type = "N" /\ r.id = Number[c.obj]
      [] c.op = "onArrayAlloc"  -> r.type = "A" /\ r.id = Number[c.obj]
      [] c.op = "onPutField"    -> /\ r.type = "U"
                                   /\ r.id = Number[c.obj]
                                   /\ r.target = Number[c.tgt]

\* The calls that line k of the log can come from.
CallsOf(k) ==
    {c \in Calls : \E t \in Threads : recorded[k] = Line(t, c, ObjectNumber, 0)}

\* The simulator's trace is the program's history: record k tells of the k-th
\* call that took effect, with none left out, made up or taken for another.
HistoryRead ==
    /\ Len(trace) \in {position, position - 1} /\ position <= Len(recorded)
    /\ Len(trace) < position => status \notin {"reading", "done"}
    /\ \A k \in DOMAIN trace : \E c \in CallsOf(k) : Tells(trace[k], c)

\* The last of the calls the simulator knows of that handled object number n; 0
\* if there is none.
LastUse(n) ==
    LET uses == {k \in DOMAIN trace : \E c \in CallsOf(k) : n \in Uses(c)} IN
    IF uses = {} THEN 0 ELSE CHOOSE k \in uses : \A j \in uses : j <= k

TimeOf(n) == heap.made[heap.objects[n]].lastTimestamp

\* What Merlin is given is right about the program: the heap has the objects
\* the program used, and one the program used later is not last seen earlier.
UsesInOrder ==
    /\ DOMAIN heap.objects = {n \in Numbers : LastUse(n) # 0}
    /\ \A m, n \in DOMAIN heap.objects : LastUse(m) < LastUse(n) => TimeOf(m) <= TimeOf(n)

\* A file, however short the JVM's end has cut it, is read to its end, or up to an
\* exit whose assertion on a stale id fails.
ReadToEnd == stopped ~> status \in {"done", "exitObject"}
=============================================================================
