------------------------------- MODULE MCPipe ------------------------------
(* Model values for checking Pipe. *)
EXTENDS Pipe

CONSTANTS r1, r2, w1
TwoReaders == {r1, r2}
OneWriter == {w1}
============================================================================
