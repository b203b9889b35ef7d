------------------------------ MODULE MCMerlin ------------------------------
(* Small instances of Merlin. *)
EXTENDS Merlin

\* Graphs with loops, cycles, shared targets, two references to one object: two
\* of the objects have at most two references, in either order, the last has one.
UpToOne == {<< >>} \cup {<<a>> : a \in Objects}
UpToTwo == UpToOne \cup {<<a, b>> : a, b \in Objects}
AllGraphs == {g \in [Objects -> UpToTwo] : g[3] \in UpToOne}

FiveRecords == <<1, 1, 2, 3, 3>>
=============================================================================
