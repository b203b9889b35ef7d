----------------------------- MODULE MCPipeline -----------------------------
(* A small instance of Pipeline. *)
EXTENDS Pipeline, TLC

CONSTANTS t1, t2, o1, o2

MCObjects == {t1, t2, o1, o2, Null}

\* o2 has the identity hash of t1.
MCNumber == (t1 :> 1) @@ (t2 :> 2) @@ (o1 :> 3) @@ (o2 :> 1) @@ (Null :> 4)

Call(op, obj, tgt) ==
    [op |-> op, id |-> 9, obj |-> obj, tgt |-> tgt, site |-> 8, size |-> 6,
     len |-> 7, dims |-> 5]

MCCalls ==
    {Call("onEntry", Null, Null), Call("onEntry", o1, Null), Call("onExit", Null, Null),
     Call("onObjectAlloc", o1, Null), Call("onArrayAlloc", o2, Null),
     Call("onPutField", o1, o2), Call("onPutField", o1, Null)}
=============================================================================
