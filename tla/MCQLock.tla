------------------------------ MODULE MCQLock ------------------------------
(* Model values for checking QLock. *)
EXTENDS QLock

CONSTANTS p1, p2, p3, p4
MCProcs == {p1, p2, p3, p4}
============================================================================
