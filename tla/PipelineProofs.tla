--------------------------- MODULE PipelineProofs ---------------------------
(***************************************************************************)
(* Proofs about Pipeline, for any threads, objects, numbers and calls: the *)
(* tool's two programs run as TraceLog and TraceReader say, the simulator  *)
(* accepts what the recorder leaves, its trace is the program's history,   *)
(* and the times in its heap are in the order of the program's uses.       *)
(***************************************************************************)
EXTENDS Pipeline, WellFoundedInduction, TLAPS

\* The theorems about the reader, for this reader.
Facts == INSTANCE TraceReaderProofs WITH
    Ids <- Numbers, FieldIds <- {c.id : c \in Calls},
    ThreadIds <- {Number[t] : t \in Threads}, Sizes <- {c.size : c \in Calls},
    MaxTrace <- MaxLines

\* The reader's assumptions hold here.
LEMMA ReaderAssumed == Facts!ReaderAssumption
<1>1. Numbers \subseteq Nat \ {0}
  BY PipelineAssumption DEF Numbers
<1>2. {c.size : c \in Calls} \subseteq Nat
  BY PipelineAssumption
<1> QED  BY <1>1, <1>2, PipelineAssumption DEF Facts!ReaderAssumption

AnyLine == UNION {CallLines[t] : t \in Threads}

\* The recorder: the file is a prefix of the log.
LogOK ==
    /\ recorded \in Seq(AnyLine)
    /\ file \in Seq(AnyLine)
    /\ Len(file) <= Len(recorded)
    /\ \A k \in 1 .. Len(file) : file[k] = recorded[k]
    /\ position \in 0 .. Len(file)

LEMMA LogInit == Init => LogOK
<1> QED  BY DEF Init, Recorder!Init, LogOK

LEMMA LogNext == LogOK /\ [Next]_pipelineVars => LogOK'
<1> SUFFICES ASSUME LogOK, [Next]_pipelineVars PROVE LogOK'
  OBVIOUS
<1> USE DEF LogOK
<1>1. CASE Record
  <2>1. position' = position /\ Recorder!Next
    BY <1>1 DEF Record
  <2>2. CASE Recorder!WriteLine
    <3>1. Len(file) < Len(recorded) /\ recorded' = recorded
      BY <2>2 DEF Recorder!WriteLine
    <3>2. file' = Append(file, recorded[Len(file) + 1])
      BY <2>2 DEF Recorder!WriteLine
    <3>3. recorded[Len(file) + 1] \in AnyLine
      BY <3>1
    <3> QED  BY <2>1, <3>1, <3>2, <3>3
  <2>3. ASSUME NEW t \in Threads, Recorder!Record(t)
        PROVE  LogOK'
    <3>1. pending[t] \in AnyLine /\ recorded' = Append(recorded, pending[t])
      BY <2>3 DEF Recorder!Record, AnyLine
    <3>2. file' = file
      BY <2>3 DEF Recorder!Record
    <3> QED  BY <2>1, <3>1, <3>2
  <2>4. ASSUME NEW t \in Threads, Recorder!Call(t) \/ Recorder!Return(t)
        PROVE  LogOK'
    BY <2>1, <2>4 DEF Recorder!Call, Recorder!Return
  <2> QED  BY <2>1, <2>2, <2>3, <2>4 DEF Recorder!Next
<1>2. CASE ReadLine
  BY <1>2 DEF ReadLine, recorderVars
<1>3. CASE Stop \/ EndOfFile \/ Ended \/ UNCHANGED pipelineVars
  BY <1>3 DEF Stop, EndOfFile, Ended, pipelineVars, recorderVars
<1> QED  BY <1>1, <1>2, <1>3 DEF Next

\* What the positions of a line hold, for each call that may have left it.
LEMMA LineOfCall ==
    ASSUME NEW t \in Threads, NEW c \in Calls
    PROVE  LET line == Line(t, c, ObjectNumber, 0) IN
           /\ WellFormed(line)
           /\ c.op = "onEntry" => /\ line.kind = "M"
                                  /\ line.args[2] = IF c.obj = Null THEN 0 ELSE Number[c.obj]
                                  /\ line.args[3] = Number[t]
           /\ c.op = "onExit" => line.kind = "E"
           /\ c.op \in {"onObjectAlloc", "onArrayAlloc"} =>
                  /\ line.kind = IF c.op = "onObjectAlloc" THEN "N" ELSE "A"
                  /\ line.args[1] = Number[c.obj]
                  /\ line.args[2] = c.size
                  /\ line.args[6] = Number[t]
           /\ c.op = "onPutField" => /\ line.kind = "U"
                                     /\ line.args[1] = Number[c.obj]
                                     /\ line.args[2] = Number[c.tgt]
                                     /\ line.args[3] = c.id
                                     /\ line.args[4] = Number[t]
<1> USE DEF ObjectNumber
<1>0. c.op \in {"onEntry", "onExit", "onObjectAlloc", "onArrayAlloc", "onPutField"}
  BY PipelineAssumption DEF Handlers
<1>1. CASE c.op = "onEntry"
  <2> DEFINE args == <<c.id, IF c.obj = Null THEN 0 ELSE Number[c.obj], Number[t]>>
  <2>1. Line(t, c, ObjectNumber, 0) = [kind |-> "M", args |-> args]
    BY <1>1 DEF Line
  <2>2. WellFormed([kind |-> "M", args |-> args])
    BY DEF WellFormed, NumTokens, Tokens
  <2> QED  BY <1>1, <2>1, <2>2
<1>2. CASE c.op = "onExit"
  <2> DEFINE args == <<c.id, Number[t]>>
  <2>1. Line(t, c, ObjectNumber, 0) = [kind |-> "E", args |-> args]
    BY <1>2 DEF Line
  <2>2. WellFormed([kind |-> "E", args |-> args])
    BY DEF WellFormed, NumTokens, Tokens
  <2> QED  BY <1>2, <2>1, <2>2
<1>3. CASE c.op = "onObjectAlloc"
  <2> DEFINE args == <<Number[c.obj], c.size, c.id, c.site, 0, Number[t]>>
  <2>1. Line(t, c, ObjectNumber, 0) = [kind |-> "N", args |-> args]
    BY <1>3 DEF Line
  <2>2. WellFormed([kind |-> "N", args |-> args])
    BY DEF WellFormed, NumTokens, Tokens
  <2> QED  BY <1>3, <2>1, <2>2
<1>4. CASE c.op = "onArrayAlloc"
  <2> DEFINE args == <<Number[c.obj], c.size, c.id, c.site, c.len, Number[t], c.dims>>
  <2>1. Line(t, c, ObjectNumber, 0) = [kind |-> "A", args |-> args]
    BY <1>4 DEF Line
  <2>2. WellFormed([kind |-> "A", args |-> args])
    BY DEF WellFormed, NumTokens, Tokens
  <2> QED  BY <1>4, <2>1, <2>2
<1>5. CASE c.op = "onPutField"
  <2> DEFINE args == <<Number[c.obj], Number[c.tgt], c.id, Number[t]>>
  <2>1. Line(t, c, ObjectNumber, 0) = [kind |-> "U", args |-> args]
    BY <1>5 DEF Line
  <2>2. WellFormed([kind |-> "U", args |-> args])
    BY DEF WellFormed, NumTokens, Tokens
  <2> QED  BY <1>5, <2>1, <2>2
<1> QED  BY <1>0, <1>1, <1>2, <1>3, <1>4, <1>5

\* The two instances of the reader are one.
LEMMA SameReader ==
    /\ Reader!Init => Facts!Init
    /\ \A id, thread : Reader!MethodEntry(id, thread) => Facts!MethodEntry(id, thread)
    /\ \A stale : Reader!MethodExit(stale) => Facts!MethodExit(stale)
    /\ \A type, id, size, thread :
          Reader!Allocation(type, id, size, thread) => Facts!Allocation(type, id, size, thread)
    /\ \A id, target, field, thread :
          Reader!FieldUpdate(id, target, field, thread)
            => Facts!FieldUpdate(id, target, field, thread)
    /\ Reader!IsDone => Facts!IsDone
<1> USE DEF Reader!NowUp, Facts!NowUp, Reader!NextUp, Facts!NextUp, Reader!Record,
            Facts!Record, Reader!Reading, Facts!Reading, Reader!Fail, Facts!Fail,
            Reader!InHeap, Facts!InHeap, Reader!NoEdge, Facts!NoEdge
<1>1. Reader!Init => Facts!Init
  BY DEF Reader!Init, Facts!Init
<1>2. \A h, obj : Reader!Allocate(h, obj) = Facts!Allocate(h, obj)
  BY DEF Reader!Allocate, Facts!Allocate
<1>3. \A id, size, kind, time :
        Reader!Object(id, size, kind, time) = Facts!Object(id, size, kind, time)
  BY DEF Reader!Object, Facts!Object
<1>4. \A h, id, kind, time : Reader!Find(h, id, kind, time) = Facts!Find(h, id, kind, time)
  BY <1>2, <1>3 DEF Reader!Find, Facts!Find, Reader!Stub, Facts!Stub
<1>5. \A h, id, time : Reader!Seen(h, id, time) = Facts!Seen(h, id, time)
  BY DEF Reader!Seen, Facts!Seen
<1>6. \A h, id, target, time :
        Reader!Stamp(h, id, target, time) = Facts!Stamp(h, id, target, time)
  BY <1>5 DEF Reader!Stamp, Facts!Stamp
<1>7. \A h, id, field, target :
        Reader!Update(h, id, field, target) = Facts!Update(h, id, field, target)
  BY DEF Reader!Update, Facts!Update
<1>8. \A id, thread : Reader!MethodEntry(id, thread) => Facts!MethodEntry(id, thread)
  BY <1>4, <1>5 DEF Reader!MethodEntry, Facts!MethodEntry
<1>9. \A stale : Reader!MethodExit(stale) => Facts!MethodExit(stale)
  BY DEF Reader!MethodExit, Facts!MethodExit
<1>10. \A type, id, size, thread :
        Reader!Allocation(type, id, size, thread) => Facts!Allocation(type, id, size, thread)
  BY <1>2, <1>3, <1>5 DEF Reader!Allocation, Facts!Allocation
<1>11. \A id, target, field, thread :
        Reader!FieldUpdate(id, target, field, thread)
          => Facts!FieldUpdate(id, target, field, thread)
  BY <1>4, <1>6, <1>7 DEF Reader!FieldUpdate, Facts!FieldUpdate
<1>12. Reader!IsDone => Facts!IsDone
  BY DEF Reader!IsDone, Facts!IsDone
<1> QED  BY <1>1, <1>8, <1>9, <1>10, <1>11, <1>12

\* What a step of the read loop does, for a call that left the line it reads.
Performs(t, c) ==
    /\ c.op = "onEntry" =>
          Facts!MethodEntry(IF c.obj = Null THEN 0 ELSE Number[c.obj], Number[t])
    /\ c.op = "onExit" => \E stale \in Numbers \cup {0} : Facts!MethodExit(stale)
    /\ c.op = "onObjectAlloc" => Facts!Allocation("N", Number[c.obj], c.size, Number[t])
    /\ c.op = "onArrayAlloc" => Facts!Allocation("A", Number[c.obj], c.size, Number[t])
    /\ c.op = "onPutField" =>
          Facts!FieldUpdate(Number[c.obj], Number[c.tgt], c.id, Number[t])

LEMMA LineRead ==
    ASSUME LogOK, ReadLine
    PROVE  \E t \in Threads, c \in Calls : c \in CallsOf(position + 1) /\ Performs(t, c)
<1>1. file[position + 1] = recorded[position + 1] /\ file[position + 1] \in AnyLine
  BY DEF LogOK, ReadLine
<1>2. PICK t \in Threads, c \in Calls : file[position + 1] = Line(t, c, ObjectNumber, 0)
  BY <1>1 DEF AnyLine, CallLines
<1>3. c \in CallsOf(position + 1)
  BY <1>1, <1>2 DEF CallsOf
<1> DEFINE line == file[position + 1]
<1>4. /\ WellFormed(line)
      /\ c.op = "onEntry" => /\ line.kind = "M"
                             /\ line.args[2] = IF c.obj = Null THEN 0 ELSE Number[c.obj]
                             /\ line.args[3] = Number[t]
      /\ c.op = "onExit" => line.kind = "E"
      /\ c.op \in {"onObjectAlloc", "onArrayAlloc"} =>
             /\ line.kind = IF c.op = "onObjectAlloc" THEN "N" ELSE "A"
             /\ line.args[1] = Number[c.obj]
             /\ line.args[2] = c.size
             /\ line.args[6] = Number[t]
      /\ c.op = "onPutField" => /\ line.kind = "U"
                                /\ line.args[1] = Number[c.obj]
                                /\ line.args[2] = Number[c.tgt]
                                /\ line.args[3] = c.id
                                /\ line.args[4] = Number[t]
  BY <1>2, LineOfCall
<1> HIDE DEF line
<1>5. (CASE line.kind = "M" -> EntryCase(line.args)
         [] line.kind = "E" -> ExitCase(line.args)
         [] line.kind \in {"A", "N"} -> AllocCase(line.kind, line.args)
         [] line.kind = "U" -> UpdateCase(line.args))
  BY <1>4 DEF ReadLine, line
<1>6. c.op = "onEntry" =>
        Facts!MethodEntry(IF c.obj = Null THEN 0 ELSE Number[c.obj], Number[t])
  <2> HAVE c.op = "onEntry"
  <2>1. EntryCase(line.args)
    BY <1>4, <1>5
  <2> QED  BY <1>4, <2>1, SameReader DEF EntryCase
<1>7. c.op = "onExit" => \E stale \in Numbers \cup {0} : Facts!MethodExit(stale)
  <2> HAVE c.op = "onExit"
  <2>1. ExitCase(line.args)
    BY <1>4, <1>5
  <2> QED  BY <2>1, SameReader DEF ExitCase
<1>8. c.op = "onObjectAlloc" => Facts!Allocation("N", Number[c.obj], c.size, Number[t])
  <2> HAVE c.op = "onObjectAlloc"
  <2>1. AllocCase("N", line.args)
    BY <1>4, <1>5
  <2> QED  BY <1>4, <2>1, SameReader DEF AllocCase
<1>9. c.op = "onArrayAlloc" => Facts!Allocation("A", Number[c.obj], c.size, Number[t])
  <2> HAVE c.op = "onArrayAlloc"
  <2>1. AllocCase("A", line.args)
    BY <1>4, <1>5
  <2> QED  BY <1>4, <2>1, SameReader DEF AllocCase
<1>10. c.op = "onPutField" =>
        Facts!FieldUpdate(Number[c.obj], Number[c.tgt], c.id, Number[t])
  <2> HAVE c.op = "onPutField"
  <2>1. UpdateCase(line.args)
    BY <1>4, <1>5
  <2> QED  BY <1>4, <2>1, SameReader DEF UpdateCase
<1> QED  BY <1>3, <1>6, <1>7, <1>8, <1>9, <1>10 DEF Performs

LEMMA ReaderNext == LogOK /\ [Next]_pipelineVars => [Facts!Next]_(Facts!vars)
<1> SUFFICES ASSUME LogOK, [Next]_pipelineVars PROVE [Facts!Next]_(Facts!vars)
  OBVIOUS
<1>1. CASE ReadLine
  <2>1. PICK t \in Threads, c \in Calls : Performs(t, c)
    BY <1>1, LineRead
  <2>2. /\ Number[c.obj] \in Numbers /\ Number[c.tgt] \in Numbers
        /\ Number[t] \in {Number[u] : u \in Threads}
    BY PipelineAssumption DEF Numbers
  <2>3. c.op \in {"onEntry", "onExit", "onObjectAlloc", "onArrayAlloc", "onPutField"}
    BY PipelineAssumption DEF Handlers
  <2>4. CASE c.op = "onEntry"
    BY <2>1, <2>2, <2>4 DEF Performs, Facts!Next
  <2>5. CASE c.op = "onExit"
    BY <2>1, <2>5 DEF Performs, Facts!Next
  <2>6. CASE c.op = "onObjectAlloc" \/ c.op = "onArrayAlloc"
    BY <2>1, <2>2, <2>6 DEF Performs, Facts!Next
  <2>7. CASE c.op = "onPutField"
    BY <2>1, <2>2, <2>7 DEF Performs, Facts!Next
  <2> QED  BY <2>3, <2>4, <2>5, <2>6, <2>7
<1>2. CASE EndOfFile
  BY <1>2, SameReader DEF EndOfFile, Facts!Next
<1>3. CASE Record \/ Stop \/ Ended \/ UNCHANGED pipelineVars
  BY <1>3 DEF Record, Stop, Ended, pipelineVars, readerVars, Facts!vars
<1> QED  BY <1>1, <1>2, <1>3 DEF Next

LEMMA LogAlways == Spec => []LogOK
<1> QED  BY LogInit, LogNext, PTL DEF Spec

\* The simulator run on the recorder's file is a run of TraceReader: whatever
\* holds of it on every file holds here.
THEOREM RunsTheReader == Spec => Facts!Spec
<1>1. Init => Facts!Init
  BY SameReader DEF Init
<1> QED  BY <1>1, LogAlways, ReaderNext, PTL DEF Spec, Facts!Spec

\* The traced program runs as TraceLog says, until its JVM stops.
THEOREM RunsTheRecorder == Spec => Recorder!Spec
<1>1. Init => Recorder!Init
  BY DEF Init
<1>2. [Next]_pipelineVars => [Recorder!Next]_(Recorder!logVars)
  BY DEF Next, Record, Stop, ReadLine, EndOfFile, Ended, pipelineVars, recorderVars,
         Recorder!logVars
<1> QED  BY <1>1, <1>2, PTL DEF Spec, Recorder!Spec

\* How far the simulator is; "duplicate" is left to TraceReaderProofs.
Progress ==
    /\ status \in {"reading", "done", "exitObject", "duplicate"}
    /\ trace \in Seq(Facts!RecordType)
    /\ Len(trace) \in {position, position - 1}
    /\ Len(trace) < position => status \notin {"reading", "done"}

\* HistoryRead's last conjunct.
Told == \A k \in DOMAIN trace : \E c \in CallsOf(k) : Tells(trace[k], c)

\* Reading one line adds the record that tells of its call, or fails.
LEMMA LineTold ==
    ASSUME NEW t \in Threads, NEW c \in Calls, Performs(t, c)
    PROVE  \/ /\ status' \in {"exitObject", "duplicate"} /\ status = "reading"
              /\ trace' = trace
           \/ /\ status' = status
              /\ \E r : trace' = Append(trace, r) /\ Tells(r, c)
<1> USE DEF Facts!Fail, Facts!Record, Facts!Reading
<1>1. /\ Number[c.obj] \in Nat \ {0} /\ Number[c.tgt] \in Nat \ {0}
      /\ c.op \in {"onEntry", "onExit", "onObjectAlloc", "onArrayAlloc", "onPutField"}
  BY PipelineAssumption DEF Handlers
<1>2. CASE c.op = "onEntry"
  <2> DEFINE id == IF c.obj = Null THEN 0 ELSE Number[c.obj]
             r == [type |-> "M", id |-> id, target |-> 0, time |-> Facts!NextUp]
  <2>1. status' = status /\ trace' = Append(trace, r)
    BY <1>2 DEF Performs, Facts!MethodEntry
  <2>2. Tells(r, c)
    BY <1>1, <1>2 DEF Tells, Uses
  <2> QED  BY <2>1, <2>2
<1>3. CASE c.op = "onExit"
  <2> DEFINE r == [type |-> "E", id |-> 0, target |-> 0, time |-> Facts!NowUp]
  <2>1. Tells(r, c)
    BY <1>3 DEF Tells
  <2> QED  BY <1>3, <2>1 DEF Performs, Facts!MethodExit
<1>4. CASE c.op \in {"onObjectAlloc", "onArrayAlloc"}
  <2> DEFINE type == IF c.op = "onObjectAlloc" THEN "N" ELSE "A"
             r == [type |-> type, id |-> Number[c.obj], target |-> 0, time |-> Facts!NowUp]
  <2>1. status' = status /\ trace' = Append(trace, r)
    BY <1>4 DEF Performs, Facts!Allocation
  <2>2. Tells(r, c)
    BY <1>4 DEF Tells
  <2> QED  BY <2>1, <2>2
<1>5. CASE c.op = "onPutField"
  <2> DEFINE r == [type |-> "U", id |-> Number[c.obj], target |-> Number[c.tgt],
                   time |-> Facts!NextUp]
  <2>1. Tells(r, c)
    BY <1>5 DEF Tells
  <2>2. Facts!FieldUpdate(Number[c.obj], Number[c.tgt], c.id, Number[t])
    BY <1>5 DEF Performs
  <2> QED  BY <1>1, <2>1, <2>2 DEF Facts!FieldUpdate
<1> QED  BY <1>1, <1>2, <1>3, <1>4, <1>5

\* What has been logged is not changed.
LEMMA LogKept ==
    ASSUME LogOK, [Next]_pipelineVars, NEW k \in 1 .. Len(recorded)
    PROVE  CallsOf(k)' = CallsOf(k)
<1>1. recorded'[k] = recorded[k]
  <2>1. CASE Record
    <3>1. CASE \E t \in Threads : Recorder!Record(t)
      <4>1. PICK t \in Threads : Recorder!Record(t)
        BY <3>1
      <4>2. pending[t] \in AnyLine /\ recorded' = Append(recorded, pending[t])
        BY <4>1 DEF Recorder!Record, AnyLine
      <4> QED  BY <4>2 DEF LogOK
    <3>2. CASE ~ \E t \in Threads : Recorder!Record(t)
      BY <2>1, <3>2 DEF Record, Recorder!Next, Recorder!WriteLine, Recorder!Call,
                        Recorder!Return
    <3> QED  BY <3>1, <3>2
  <2>2. CASE Stop \/ ReadLine \/ EndOfFile \/ Ended \/ UNCHANGED pipelineVars
    BY <2>2 DEF Stop, ReadLine, EndOfFile, Ended, pipelineVars, recorderVars
  <2> QED  BY <2>1, <2>2 DEF Next
<1> QED  BY <1>1 DEF CallsOf

LEMMA ToldNext ==
    LogOK /\ Progress /\ Told /\ Facts!TypeOK' /\ [Next]_pipelineVars => Progress' /\ Told'
<1> SUFFICES ASSUME LogOK, Progress, Told, Facts!TypeOK', [Next]_pipelineVars
             PROVE  Progress' /\ Told'
  OBVIOUS
<1>1. trace' \in Seq(Facts!RecordType)
  BY DEF Facts!TypeOK
<1>2. DOMAIN trace = 1 .. Len(trace) /\ Len(trace) <= Len(recorded)
  BY DEF Progress, LogOK
<1>3. \A k \in DOMAIN trace : CallsOf(k)' = CallsOf(k)
  BY <1>2, LogKept
<1>4. CASE ReadLine
  <2>1. status = "reading" /\ position' = position + 1 /\ position < Len(file)
    BY <1>4 DEF ReadLine
  <2>2. Len(trace) = position
    BY <2>1 DEF Progress, LogOK
  <2>3. PICK t \in Threads, c \in Calls : c \in CallsOf(position + 1) /\ Performs(t, c)
    BY <1>4, LineRead
  <2>4. CASE status' \in {"exitObject", "duplicate"} /\ trace' = trace
    BY <1>1, <1>3, <2>1, <2>2, <2>4 DEF Progress, Told, LogOK
  <2>5. ASSUME status' = status, NEW r, trace' = Append(trace, r), Tells(r, c)
        PROVE  Progress' /\ Told'
    <3>1. Len(trace') = position' /\ DOMAIN trace' = 1 .. position + 1
      <4>1. trace \in Seq(Facts!RecordType \cup {r}) /\ position \in Nat
        BY DEF Progress, LogOK
      <4>2. Len(trace') = Len(trace) + 1
        BY <2>5, <4>1
      <4> QED  BY <1>1, <2>1, <2>2, <4>1, <4>2
    <3>2. Progress'
      BY <1>1, <2>1, <2>5, <3>1 DEF Progress, LogOK
    <3>3. trace'[position + 1] = r /\ \A k \in DOMAIN trace : trace'[k] = trace[k]
      <4>1. trace \in Seq(Facts!RecordType \cup {r}) /\ position \in Nat
        BY DEF Progress, LogOK
      <4> QED  BY <1>2, <2>2, <2>5, <4>1
    <3>4. ASSUME NEW k \in DOMAIN trace'
          PROVE  \E d \in CallsOf(k)' : Tells(trace'[k], d)
      <4>1. CASE k = position + 1
        <5>1. k \in 1 .. Len(recorded)
          BY <2>1, <4>1 DEF LogOK
        <5>2. CallsOf(k)' = CallsOf(k)
          BY <5>1, LogKept
        <5> QED  BY <2>3, <2>5, <3>3, <4>1, <5>2
      <4>2. CASE k # position + 1
        <5>1. k \in DOMAIN trace
          BY <1>2, <2>2, <3>1, <4>2 DEF LogOK
        <5> QED  BY <1>3, <3>3, <5>1 DEF Told
      <4> QED  BY <4>1, <4>2
    <3> QED  BY <3>2, <3>4 DEF Told
  <2> QED  BY <2>3, <2>4, <2>5, LineTold
<1>5. CASE EndOfFile
  <2>1. status' = "done" /\ trace' = trace /\ position' = position /\ status = "reading"
    BY <1>5 DEF EndOfFile, Reader!IsDone
  <2> QED  BY <1>1, <1>3, <2>1 DEF Progress, Told
<1>6. CASE Record \/ Stop \/ Ended \/ UNCHANGED pipelineVars
  <2>1. status' = status /\ trace' = trace /\ position' = position
    BY <1>6 DEF Record, Stop, Ended, pipelineVars, readerVars
  <2> QED  BY <1>3, <2>1 DEF Progress, Told
<1> QED  BY <1>4, <1>5, <1>6 DEF Next

LEMMA ToldAlways == Spec => [](Progress /\ Told)
<1>1. Init => Progress /\ Told
  BY DEF Init, Reader!Init, Progress, Told
<1>2. Facts!Spec => []Facts!TypeOK
  BY ReaderAssumed, Facts!TypeCorrect
<1> QED  BY <1>1, <1>2, LogAlways, RunsTheReader, ToldNext, PTL DEF Spec

\* The simulator accepts every trace the recorder can leave, wherever the JVM
\* stopped: of its asserts only the one on a stale id (case E) can fail.
THEOREM RecorderAccepted == Spec => []Accepted
<1>1. Progress /\ Facts!NoDupe => Accepted
  BY DEF Progress, Facts!NoDupe, Accepted
<1>2. Facts!Spec => []Facts!NoDupe
  BY ReaderAssumed, Facts!DupeUnreachable
<1> QED  BY <1>1, <1>2, ToldAlways, RunsTheReader, PTL

\* Record k of the simulator tells of the k-th call that took effect.
THEOREM HistoryAlwaysRead == Spec => []HistoryRead
<1>1. LogOK /\ Progress /\ Told => HistoryRead
  BY DEF LogOK, Progress, Told, HistoryRead
<1> QED  BY <1>1, LogAlways, ToldAlways, PTL

------------------------------------------------------------------------------
(* Uses, first to last.                                                    *)

LEMMA NatMin ==
    ASSUME NEW T, T \subseteq Nat, T # {}
    PROVE  \E x \in T : \A y \in T : x <= y
<1>1. PICK x \in T : \A y \in T : <<y, x>> \notin OpToRel(<, Nat)
  BY NatLessThanWellFounded, WFMin
<1>2. \A y \in T : ~ (y < x)
  BY <1>1 DEF OpToRel
<1>3. x \in Nat /\ \A y \in T : y \in Nat
  OBVIOUS
<1>4. \A y \in T : x <= y
  BY <1>2, <1>3
<1> QED  BY <1>4

LEMMA NatMax ==
    ASSUME NEW n \in Nat, NEW T, T \subseteq 0 .. n, T # {}
    PROVE  \E x \in T : \A y \in T : y <= x
<1> DEFINE U == {n - y : y \in T}
<1>0. \A y \in T : y \in 0 .. n /\ n - y \in Nat
  OBVIOUS
<1>1. U \subseteq Nat /\ U # {}
  BY <1>0
<1> HIDE DEF U
<1>2. PICK u \in U : \A v \in U : u <= v
  BY <1>1, NatMin
<1>3. PICK x \in T : u = n - x
  BY DEF U
<1>4. \A y \in T : n - x <= n - y
  BY <1>2, <1>3 DEF U
<1>5. x \in Nat /\ \A y \in T : y \in Nat
  OBVIOUS
<1> QED  BY <1>4, <1>5

\* The objects of a call can be read off its line.
LEMMA UsesOfLine ==
    ASSUME NEW k, NEW c \in CallsOf(k), NEW d \in CallsOf(k)
    PROVE  Uses(c) = Uses(d)
<1>1. PICK t \in Threads, u \in Threads :
        recorded[k] = Line(t, c, ObjectNumber, 0) /\ recorded[k] = Line(u, d, ObjectNumber, 0)
  BY DEF CallsOf
<1>2. PICK line : line = recorded[k]
  OBVIOUS
<1>3. c \in Calls /\ d \in Calls
  BY DEF CallsOf
<1>4. ASSUME NEW v \in Threads, NEW e \in Calls, line = Line(v, e, ObjectNumber, 0)
      PROVE  Uses(e) = CASE line.kind = "M" -> {line.args[2]} \ {0}
                         [] line.kind = "E" -> {}
                         [] line.kind = "U" -> {line.args[1], line.args[2]}
                         [] OTHER -> {line.args[1]}
  <2>1. /\ e.op = "onEntry" => /\ line.kind = "M"
                               /\ line.args[2] = IF e.obj = Null THEN 0 ELSE Number[e.obj]
        /\ e.op = "onExit" => line.kind = "E"
        /\ e.op \in {"onObjectAlloc", "onArrayAlloc"} =>
               /\ line.kind = IF e.op = "onObjectAlloc" THEN "N" ELSE "A"
               /\ line.args[1] = Number[e.obj]
        /\ e.op = "onPutField" => /\ line.kind = "U"
                                  /\ line.args[1] = Number[e.obj]
                                  /\ line.args[2] = Number[e.tgt]
    BY <1>4, LineOfCall
  <2>2. /\ Number[e.obj] \in Nat \ {0}
        /\ e.op \in {"onEntry", "onExit", "onObjectAlloc", "onArrayAlloc", "onPutField"}
    BY PipelineAssumption DEF Handlers
  <2>3. CASE e.op = "onEntry"
    BY <2>1, <2>2, <2>3 DEF Uses
  <2>4. CASE e.op = "onExit"
    BY <2>1, <2>4 DEF Uses
  <2>5. CASE e.op \in {"onObjectAlloc", "onArrayAlloc"}
    BY <2>1, <2>5 DEF Uses
  <2>6. CASE e.op = "onPutField"
    BY <2>1, <2>6 DEF Uses
  <2> QED  BY <2>2, <2>3, <2>4, <2>5, <2>6
<1> QED  BY <1>1, <1>2, <1>3, <1>4

\* A record speaks of the objects that the call it tells of has used.
LEMMA TellsUses ==
    ASSUME NEW r, NEW c \in Calls, Tells(r, c)
    PROVE  Facts!SpeaksOf(r) = Uses(c)
<1>1. /\ Number[c.obj] \in Nat \ {0}
      /\ c.op \in {"onEntry", "onExit", "onObjectAlloc", "onArrayAlloc", "onPutField"}
  BY PipelineAssumption DEF Handlers
<1>2. CASE c.op = "onEntry"
  BY <1>2 DEF Tells, Facts!SpeaksOf
<1>3. CASE c.op = "onExit"
  BY <1>3 DEF Tells, Uses, Facts!SpeaksOf
<1>4. CASE c.op \in {"onObjectAlloc", "onArrayAlloc"}
  BY <1>1, <1>4 DEF Tells, Uses, Facts!SpeaksOf
<1>5. CASE c.op = "onPutField"
  BY <1>5 DEF Tells, Uses, Facts!SpeaksOf
<1> QED  BY <1>1, <1>2, <1>3, <1>4, <1>5

UsesOf(n) == {k \in DOMAIN trace : n \in Facts!SpeaksOf(trace[k])}

LEMMA LastUseIs ==
    ASSUME Told, NEW n
    PROVE  LastUse(n) = IF UsesOf(n) = {} THEN 0
                        ELSE CHOOSE k \in UsesOf(n) : \A j \in UsesOf(n) : j <= k
<1>1. ASSUME NEW k \in DOMAIN trace
      PROVE  (\E c \in CallsOf(k) : n \in Uses(c)) <=> n \in Facts!SpeaksOf(trace[k])
  <2>1. PICK c \in CallsOf(k) : Tells(trace[k], c)
    BY DEF Told
  <2>2. c \in Calls
    BY DEF CallsOf
  <2>3. Facts!SpeaksOf(trace[k]) = Uses(c)
    BY <2>1, <2>2, TellsUses
  <2> QED  BY <2>3, UsesOfLine
<1>2. UsesOf(n) = {k \in DOMAIN trace : \E c \in CallsOf(k) : n \in Uses(c)}
  BY <1>1 DEF UsesOf
<1> QED  BY <1>2 DEF LastUse

LEMMA LastUseFound ==
    ASSUME Progress, Told, NEW n
    PROVE  /\ LastUse(n) # 0 <=> UsesOf(n) # {}
           /\ LastUse(n) # 0 => /\ LastUse(n) \in DOMAIN trace
                                /\ n \in Facts!SpeaksOf(trace[LastUse(n)])
                                /\ \A j \in LastUse(n) + 1 .. Len(trace) :
                                      n \notin Facts!SpeaksOf(trace[j])
<1>1. Len(trace) \in Nat /\ DOMAIN trace = 1 .. Len(trace)
  BY DEF Progress
<1>2. CASE UsesOf(n) = {}
  BY <1>2, LastUseIs
<1>3. CASE UsesOf(n) # {}
  <2>1. UsesOf(n) \subseteq 0 .. Len(trace)
    BY <1>1 DEF UsesOf
  <2>2. \E k \in UsesOf(n) : \A j \in UsesOf(n) : j <= k
    BY <1>1, <1>3, <2>1, NatMax
  <2>3. LastUse(n) \in UsesOf(n) /\ \A j \in UsesOf(n) : j <= LastUse(n)
    BY <1>3, <2>2, LastUseIs
  <2>4. LastUse(n) \in 1 .. Len(trace)
    BY <1>1, <2>3 DEF UsesOf
  <2>5. ASSUME NEW j \in LastUse(n) + 1 .. Len(trace), n \in Facts!SpeaksOf(trace[j])
        PROVE  FALSE
    <3>1. j \in 1 .. Len(trace) /\ j > LastUse(n) /\ j \in Nat
      BY <1>1, <2>4
    <3>2. j \in UsesOf(n)
      BY <1>1, <2>5, <3>1 DEF UsesOf
    <3> QED  BY <2>3, <2>4, <3>1, <3>2
  <2>6. n \in Facts!SpeaksOf(trace[LastUse(n)])
    BY <2>3 DEF UsesOf
  <2> QED  BY <1>1, <1>3, <2>4, <2>5, <2>6
<1> QED  BY <1>2, <1>3

LEMMA OrderKept ==
    ASSUME Progress, Told, Facts!TypeOK, Facts!LastSeen, Facts!AllCounted, Facts!Sorted
    PROVE  UsesInOrder
<1>1. \A n \in Numbers \cup {0} : n \in DOMAIN heap.objects <=> UsesOf(n) # {}
  BY DEF Facts!AllCounted, Facts!Counted, Facts!InHeap, Facts!Spoken, UsesOf
<1>2. \A n \in Numbers \cup {0} : n \in DOMAIN heap.objects <=> LastUse(n) # 0
  BY <1>1, LastUseFound
<1>3. DOMAIN heap.objects \subseteq Numbers \cup {0}
  BY DEF Facts!TypeOK, Facts!HeapOK
<1>4. 0 \notin DOMAIN heap.objects
  <2> SUFFICES ASSUME 0 \in DOMAIN heap.objects PROVE FALSE
    OBVIOUS
  <2>1. PICK k \in DOMAIN trace : 0 \in Facts!SpeaksOf(trace[k])
    BY <1>1 DEF UsesOf
  <2>2. PICK c \in CallsOf(k) : Tells(trace[k], c)
    BY DEF Told
  <2>3. c \in Calls /\ 0 \in Uses(c)
    BY <2>1, <2>2, TellsUses DEF CallsOf
  <2>4. Number[c.obj] # 0 /\ Number[c.tgt] # 0
    BY <2>3, PipelineAssumption
  <2> QED  BY <2>3, <2>4 DEF Uses
<1>5. DOMAIN heap.objects = {n \in Numbers : LastUse(n) # 0}
  BY <1>2, <1>3, <1>4
<1>6. ASSUME NEW n \in DOMAIN heap.objects
      PROVE  LastUse(n) \in DOMAIN trace /\ TimeOf(n) = trace[LastUse(n)].time
  <2>1. LastUse(n) # 0
    BY <1>5
  <2>2. /\ LastUse(n) \in DOMAIN trace
        /\ n \in Facts!SpeaksOf(trace[LastUse(n)])
        /\ \A j \in LastUse(n) + 1 .. Len(trace) : n \notin Facts!SpeaksOf(trace[j])
    BY <2>1, LastUseFound
  <2> QED  BY <2>2 DEF Facts!LastSeen, TimeOf
<1>7. ASSUME NEW m \in DOMAIN heap.objects, NEW n \in DOMAIN heap.objects, LastUse(m) < LastUse(n)
      PROVE  TimeOf(m) <= TimeOf(n)
  <2>1. DOMAIN trace \subseteq Nat
    BY DEF Progress
  <2>2. LastUse(m) <= LastUse(n)
    BY <1>6, <1>7, <2>1
  <2> QED  BY <1>6, <2>2 DEF Facts!Sorted
<1> QED  BY <1>5, <1>7 DEF UsesInOrder

\* The simulator's heap holds the objects the program used, and the times it
\* gives them are in the order of the program's last uses.
THEOREM UsesAlwaysInOrder == Spec => []UsesInOrder
<1>1. Facts!Spec => [](Facts!TypeOK /\ Facts!LastSeen /\ Facts!AllCounted /\ Facts!Sorted)
  <2>1. Facts!Spec => []Facts!TypeOK
    BY ReaderAssumed, Facts!TypeCorrect
  <2>2. Facts!Spec => []Facts!LastSeen
    BY ReaderAssumed, Facts!LastSeenRecorded
  <2>3. Facts!Spec => []Facts!AllCounted
    BY ReaderAssumed, Facts!CountedAlways
  <2>4. Facts!Spec => []Facts!Sorted
    BY ReaderAssumed, Facts!SortedAlways
  <2> QED  BY <2>1, <2>2, <2>3, <2>4, PTL
<1> QED  BY <1>1, ToldAlways, RunsTheReader, OrderKept, PTL
=============================================================================
