---------------------------- MODULE TraceFormat ----------------------------
(***************************************************************************)
(* The format of the trace file, which the recorder and the simulator have *)
(* to agree on: what each handler of QTRProxy.java is to leave in the      *)
(* file, after flushBuffer and the comments in it.  A line is its kind and *)
(* the numbers after it.                                                   *)
(***************************************************************************)
EXTENDS Naturals, Sequences

CONSTANT Null       \* Java's null, where a handler gets an Object

Handlers == {"onEntry", "onExit", "onObjectAlloc", "onPutField",
             "onArrayAlloc", "witnessObjectAliveVer2"}

\* The line of a call c by thread t.  name gives the number of an object, none
\* stands for a null receiver; id is the method, the class or the field.
Line(t, c, name, none) ==
    CASE c.op = "onEntry" -> [kind |-> "M", args |->
            <<c.id, IF c.obj = Null THEN none ELSE name[c.obj], name[t]>>]
      [] c.op = "onExit" -> [kind |-> "E", args |-> <<c.id, name[t]>>]
      [] c.op = "onObjectAlloc" -> [kind |-> "N", args |->
            <<name[c.obj], c.size, c.id, c.site, 0, name[t]>>]
      [] c.op = "onArrayAlloc" -> [kind |-> "A", args |->
            <<name[c.obj], c.size, c.id, c.site, c.len, name[t], c.dims>>]
      [] OTHER -> [kind |-> "U", args |-> <<name[c.obj], name[c.tgt], c.id, name[t]>>]
=============================================================================
