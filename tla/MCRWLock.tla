------------------------------ MODULE MCRWLock -----------------------------
(* Model values for checking RWLock. *)
EXTENDS RWLock

CONSTANTS p1, p2, p3
MCProcs == {p1, p2, p3}
============================================================================
