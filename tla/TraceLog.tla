------------------------------ MODULE TraceLog ------------------------------
(***************************************************************************)
(* What the tracing proxy promises the rest of the tool: the trace file is *)
(* an append-only log.  A call of a handler by a thread puts ONE line in   *)
(* the log, atomically, at some moment between the call and its return,    *)
(* and lines reach the file in the order of those moments, each once and   *)
(* unchanged.  When the process stops, the file holds a prefix of the log. *)
(*                                                                         *)
(* The buffers, the lock, the object ids and the shutdown hook of QTRProxy *)
(* are absent here: QTRProxy.tla shows that they implement this.           *)
(***************************************************************************)
EXTENDS Naturals, Sequences

CONSTANTS Threads,      \* threads of the traced program
          Lines,        \* per thread, the lines it can put in the trace
          Idle,         \* the thread is in no handler
          Returning     \* its line is in the log, the handler has not returned

VARIABLES pending,      \* per thread: Idle, the line it is about to log, Returning
          recorded,     \* the log
          trace         \* the lines that reached the file

logVars == <<pending, recorded, trace>>

AnyLine == UNION {Lines[t] : t \in Threads}

TypeOK ==
    /\ pending \in [Threads -> AnyLine \cup {Idle, Returning}]
    /\ recorded \in Seq(AnyLine)
    /\ trace \in Seq(AnyLine)

Init ==
    /\ pending = [t \in Threads |-> Idle]
    /\ recorded = << >>
    /\ trace = << >>

Call(t) ==
    /\ pending[t] = Idle
    /\ \E line \in Lines[t] : pending' = [pending EXCEPT ![t] = line]
    /\ UNCHANGED <<recorded, trace>>

\* The linearization point of a handler.
Record(t) ==
    /\ pending[t] \in Lines[t]
    /\ recorded' = Append(recorded, pending[t])
    /\ pending' = [pending EXCEPT ![t] = Returning]
    /\ UNCHANGED trace

Return(t) ==
    /\ pending[t] = Returning
    /\ pending' = [pending EXCEPT ![t] = Idle]
    /\ UNCHANGED <<recorded, trace>>

\* One line moves to the file: the oldest one that is not there.
WriteLine ==
    /\ Len(trace) < Len(recorded)
    /\ trace' = Append(trace, recorded[Len(trace) + 1])
    /\ UNCHANGED <<pending, recorded>>

Next ==
    \/ WriteLine
    \/ \E t \in Threads : Call(t) \/ Record(t) \/ Return(t)

Spec == Init /\ [][Next]_logVars
=============================================================================
