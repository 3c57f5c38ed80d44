---------------------------- MODULE MCExportfs -----------------------------
(* Model values for checking Exportfs. *)
EXTENDS Exportfs

CONSTANTS s1, s2
TwoSlaves == {s1, s2}
============================================================================
