------------------------------ MODULE MCRendez -----------------------------
(* Model values for checking Rendez. *)
EXTENDS Rendez

CONSTANTS s1, s2, w1, i1, i2, r1
MCSleepers == {s1, s2}
MCWakers == {w1}
MCInterrupters == {i1, i2}
OneInterrupter == {i1}
MCRendezvous == {r1}
============================================================================
