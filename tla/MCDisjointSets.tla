--------------------------- MODULE MCDisjointSets ---------------------------
(* A small instance of DisjointSets. *)
EXTENDS DisjointSets, TLC

CONSTANTS o1, o2, o3, o4
=============================================================================
