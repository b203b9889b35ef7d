---------------------------- MODULE MCQTRProxy ----------------------------
(* Small instances of QTRProxy. *)
EXTENDS QTRProxy, TLC

CONSTANTS t1, t2, o1, o2

MCObjects == {t1, t2, Hook, o1, o2, Null}

\* o2 has the identity hash of t1.
MCHash == (t1 :> 11) @@ (t2 :> 12) @@ (Hook :> 13) @@ (o1 :> 14) @@ (o2 :> 11) @@ (Null :> 0)

Call(op, id, obj, tgt) ==
    [op |-> op, id |-> id, obj |-> obj, tgt |-> tgt, site |-> 21, size |-> 22,
     len |-> 23, dims |-> 24]

\* One call of each handler, the null cases and the colliding object included.
EveryHandler ==
    {Call("onEntry", 1, o2, Null),      Call("onExit", 1, Null, Null),
     Call("onObjectAlloc", 2, o1, Null), Call("onPutField", 3, Null, o1),
     Call("onArrayAlloc", 4, o1, Null), Call("witnessObjectAliveVer2", 5, o1, Null)}

\* Fewer calls for the runs with Errors; a null receiver is one of them.
FewHandlers ==
    {Call("onEntry", 1, Null, Null), Call("onArrayAlloc", 4, o1, Null),
     Call("witnessObjectAliveVer2", 5, o1, Null)}
=============================================================================
