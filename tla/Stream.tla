------------------------------- MODULE Stream ------------------------------
(***************************************************************************)
(* What one direction of a pipe promises: bytes leave in the order in      *)
(* which they came, each once, and none is lost unless the reading end is  *)
(* closed.  Bytes are numbered in the order in which they are written.     *)
(***************************************************************************)
EXTENDS Integers, Sequences

CONSTANT Maxatomic   \* the most bytes that are written at once

VARIABLES
  inside,   \* the bytes that have been written and not read
  got       \* the byte read last

Init == inside = <<>> /\ got = 0

Newest == IF inside = <<>> THEN got ELSE inside[Len(inside)]

Put(n) ==
  /\ inside' = inside \o [i \in 1..n |-> Newest + i]
  /\ UNCHANGED got

Take(n) ==
  /\ got' = inside[n]
  /\ inside' = SubSeq(inside, n + 1, Len(inside))

(* The reading end is closed, with bytes inside. *)
Drop ==
  /\ got' = Newest
  /\ inside' = <<>>

Next ==
  \/ \E n \in 1..Maxatomic : Put(n)
  \/ \E n \in DOMAIN inside : Take(n)
  \/ Drop

Spec == Init /\ [][Next]_<<inside, got>>
============================================================================
