------------------------------ MODULE MCClassInfo ------------------------------
(* Class lists with names and ids that come twice, fields of listed and of *)
(* unknown classes.                                                        *)
EXTENDS ClassInfo
==============================================================================
