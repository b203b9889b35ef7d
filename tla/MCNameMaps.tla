------------------------------ MODULE MCNameMaps ------------------------------
(* Two classes: one with an overloaded and a native method, one with one.  *)
EXTENDS NameMaps

CONSTANTS A, B, f, g

Code(name) == [name |-> name, ignored |-> FALSE]
Native(name) == [name |-> name, ignored |-> TRUE]

TwoClasses ==
    [c \in Classes |-> IF c = A THEN <<Code(f), Native(g), Code(f)>> ELSE <<Code(f)>>]
==============================================================================
