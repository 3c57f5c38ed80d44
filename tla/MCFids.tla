------------------------------- MODULE MCFids ------------------------------
(***************************************************************************)
(* Fids for TLC.  Three files: two devices have a file of the same path,   *)
(* and the path the second is given first is that of the third.            *)
(***************************************************************************)
EXTENDS Fids, TLC

CONSTANTS f1, f2, f3, s1, s2

Fids3 == {f1, f2, f3}
Slaves2 == {s1, s2}
FileA == <<"a", 0, 1>>
FileB == <<"b", 0, 1>>
FileC == <<"c", 1, 1>>
Files == {FileA, FileB, FileC}
Alike == Permutations(Fids3) \cup Permutations(Slaves2)
=============================================================================
