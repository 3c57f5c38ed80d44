----------------------------- MODULE MCChannel -----------------------------
(* Model values for checking Channel. *)
EXTENDS Channel

CONSTANTS p1, p2, p3, c1, c2
ThreeProcs == {p1, p2, p3}
TwoChannels == {c1, c2}
OneBuffered == [c \in Channels |-> IF c = c1 THEN 1 ELSE 0]
============================================================================
