------------------------------- MODULE MCMnt -------------------------------
(* Model values for checking Mnt. *)
EXTENDS Mnt

CONSTANTS p1, p2, p3
ThreeProcs == {p1, p2, p3}

Third == {p3}
OneEach == [p \in ThreeProcs |-> IF p = p1 THEN <<1>> ELSE IF p = p2 THEN <<2>> ELSE <<3>>]
============================================================================
