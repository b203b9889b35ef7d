------------------------------- MODULE ExecState -------------------------------
(***************************************************************************)
(* The simulator's picture of the running program (ExecState and Thread,   *)
(* execution.cpp and execution.hpp) in the mode that is built by default,  *)
(* StackOnly: a stack of methods for every thread, the sets of local       *)
(* variables that go with its frames, one stack of threads for all, the    *)
(* clocks, and the contexts in which calls and deaths happen.  (In the     *)
(* mode Full the first call asserts m_curcc, which nothing sets.)          *)
(*                                                                         *)
(* A method is its own name.  The context pair of a thread, which nothing  *)
(* reads, is left out, and so are the warnings.                            *)
(***************************************************************************)
EXTENDS Integers, Sequences, FiniteSets, FiniteSetsExt, SequencesExt

CONSTANTS ThreadIds, Methods,
          LibMethods,  \* those of java/, sun/, com/sun/ and com/ibm/
          Objects,
          NoMethod,    \* NULL, and the name "NULL_METHOD"
          Junk,        \* what a read past the end of a deque may find
          MaxTime      \* bound: calls, returns and updates

VARIABLES
    threads,          \* DOMAIN of m_threads
    m_methods,        \* of each thread, the running method last
    m_locals, m_deadlocals,
    m_thread_stack,
    m_meth_time, m_methexit_time, m_uptime,
    m_execPairCountMap, m_deathPairCountMap,
    sites             \* death sites of objects: two levels, first non-library

vars == <<threads, m_methods, m_locals, m_deadlocals, m_thread_stack, m_meth_time,
          m_methexit_time, m_uptime, m_execPairCountMap, m_deathPairCountMap, sites>>

stacks == <<threads, m_methods, m_locals, m_deadlocals, m_thread_stack>>
clocks == <<m_meth_time, m_methexit_time, m_uptime>>
contexts == <<m_execPairCountMap, m_deathPairCountMap, sites>>

None == "NONE"

Init ==
    /\ threads = {}
    /\ m_methods = [t \in ThreadIds |-> << >>]
    /\ m_locals = [t \in ThreadIds |-> << >>]
    /\ m_deadlocals = [t \in ThreadIds |-> << >>]
    /\ m_thread_stack = << >>
    /\ m_meth_time = 0 /\ m_methexit_time = 0 /\ m_uptime = 0
    /\ m_execPairCountMap = [p \in {} |-> 0]
    /\ m_deathPairCountMap = [p \in {} |-> 0]
    /\ sites = [o \in Objects |-> [l1 |-> NoMethod, l2 |-> NoMethod, nonlib |-> None]]

NowUp == m_uptime + m_methexit_time + m_meth_time

\* map[pair]++
Increment(map, pair) ==
    [p \in DOMAIN map \cup {pair} |->
        (IF p \in DOMAIN map THEN map[p] ELSE 0) + (IF p = pair THEN 1 ELSE 0)]

\* getThread: a new Thread starts with one set of local variables of each kind.
Locals(t, locals) == IF t \in threads THEN locals[t] ELSE << {} >>

------------------------------------------------------------------------------
\* top_N_methods(2)
TopTwo(methods) == SubSeq(Reverse(methods) \o <<NoMethod, NoMethod>>, 1, 2)

\* full_method_stack
FullMethodStack(methods) == Reverse(methods)

\* The first position of a sequence with a method that is not of a library, or
\* its length.
FirstApp(s) ==
    LET app == {k \in DOMAIN s : s[k] \notin LibMethods} IN
    IF app = {} THEN Len(s) ELSE Min(app)

\* top_javalib_methods
TopJavalibMethods(methods) ==
    IF methods = << >> THEN <<NoMethod>>
    ELSE SubSeq(Reverse(methods), 1, FirstApp(Reverse(methods)))

\* ExecState::Call
Call(t, m) ==
    /\ NowUp < MaxTime
    /\ m_meth_time' = m_meth_time + 1
    /\ threads' = threads \cup {t}
    /\ m_methods' = [m_methods EXCEPT ![t] = Append(@, m)]
    /\ m_locals' = [m_locals EXCEPT ![t] = Append(Locals(t, m_locals), {})]
    /\ m_deadlocals' = [m_deadlocals EXCEPT ![t] = Append(Locals(t, m_deadlocals), {})]
    /\ m_execPairCountMap' = Increment(m_execPairCountMap, TopTwo(Append(m_methods[t], m)))
    /\ m_thread_stack' = Append(m_thread_stack, t)
    /\ UNCHANGED <<m_methexit_time, m_uptime, m_deathPairCountMap, sites>>

\* Mutant: the local variables of a frame are popped even if there is none.
PoppedAlways(t, locals) == Front(Locals(t, locals))

Popped(t, locals) ==
    IF m_methods[t] = << >> THEN Locals(t, locals) ELSE Front(Locals(t, locals))

\* ExecState::Return, whatever thread is on top of the stack of threads.
Return(t) ==
    /\ NowUp < MaxTime
    /\ m_methexit_time' = m_methexit_time + 1
    /\ threads' = threads \cup {t}
    /\ m_thread_stack' = IF m_thread_stack = << >> THEN << >> ELSE Front(m_thread_stack)
    /\ m_methods' = [m_methods EXCEPT ![t] = IF @ = << >> THEN << >> ELSE Front(@)]
    /\ m_locals' = [m_locals EXCEPT ![t] = Popped(t, m_locals)]
    /\ m_deadlocals' = [m_deadlocals EXCEPT ![t] = Popped(t, m_deadlocals)]
    /\ UNCHANGED <<m_meth_time, m_uptime, contexts>>

\* IncUpdateTime
Tick ==
    /\ NowUp < MaxTime
    /\ m_uptime' = m_uptime + 1
    /\ UNCHANGED <<stacks, m_meth_time, m_methexit_time, contexts>>

\* Thread::objectRoot of a thread that getThread gave
ObjectRoot(t, o) ==
    /\ threads' = threads \cup {t}
    /\ LET locals == Locals(t, m_locals) IN
       m_locals' = [m_locals EXCEPT ![t] = Append(Front(locals), Last(locals) \cup {o})]
    /\ m_deadlocals' = [m_deadlocals EXCEPT ![t] = Locals(t, m_deadlocals)]
    /\ UNCHANGED <<m_methods, m_thread_stack, clocks, contexts>>

\* Mutant: front() for back().
RestFirst(methdeque) == methdeque[3]

RestLast(methdeque) == Last(methdeque)

\* UpdateObj2DeathContext.  The first loop leaves at a method that is not of a
\* library; if that is the first, top_2_methods has one element and the pair's
\* second half is read past its end.
UpdateObj2DeathContext(o, methdeque) ==
    LET top == SubSeq(methdeque \o <<NoMethod, NoMethod>>, 1, 2)
        n == FirstApp(top)
        nonlib == IF top[n] \notin LibMethods THEN top[n]
                  ELSE IF Len(methdeque) > 2 THEN RestLast(methdeque) ELSE NoMethod IN
    /\ sites' = [sites EXCEPT ![o] = [l1 |-> top[1],
                                      l2 |-> IF n = 2 THEN top[2] ELSE @.l2,
                                      nonlib |-> nonlib]]
    /\ \E past \in Junk :
          m_deathPairCountMap' =
             Increment(m_deathPairCountMap, IF n = 2 THEN top ELSE <<top[1], past>>)
    /\ UNCHANGED <<stacks, clocks, m_execPairCountMap>>

------------------------------------------------------------------------------
Names == Methods \cup {NoMethod}

Pairs == Names \X (Names \cup Junk)

ExecTypeOK ==
    /\ threads \subseteq ThreadIds
    /\ m_methods \in [ThreadIds -> Seq(Methods)]
    /\ m_locals \in [ThreadIds -> Seq(SUBSET Objects)]
    /\ m_deadlocals \in [ThreadIds -> Seq(SUBSET Objects)]
    /\ m_thread_stack \in Seq(threads)
    /\ m_meth_time \in Nat /\ m_methexit_time \in Nat /\ m_uptime \in Nat
    /\ DOMAIN m_execPairCountMap \subseteq Pairs
    /\ m_execPairCountMap \in [DOMAIN m_execPairCountMap -> Nat]
    /\ DOMAIN m_deathPairCountMap \subseteq Pairs
    /\ m_deathPairCountMap \in [DOMAIN m_deathPairCountMap -> Nat]
    /\ sites \in [Objects -> [l1 : Names, l2 : Names, nonlib : Names \cup {None}]]

CountOf(map) == MapThenSumSet(LAMBDA p : map[p], DOMAIN map)

Frames == MapThenSumSet(LAMBDA t : Len(m_methods[t]), ThreadIds)

\* Whatever returns come without a call, in whatever thread: every thread that
\* was ever seen has one more set of local variables of each kind than it has
\* methods running, so objectRoot always finds one; the stack of threads has no
\* more entries than there are frames, so it is empty once every thread has
\* left its methods; and every call is counted under one context.
StacksInStep ==
    /\ \A t \in threads : /\ Len(m_locals[t]) = Len(m_methods[t]) + 1
                          /\ Len(m_deadlocals[t]) = Len(m_methods[t]) + 1
    /\ Len(m_thread_stack) <= Frames
    /\ CountOf(m_execPairCountMap) = m_meth_time
==============================================================================
