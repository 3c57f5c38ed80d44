---------------------------- MODULE MCNamespace ----------------------------
(***************************************************************************)
(* Namespace for TLC: a union of x and a at the point a, nothing at b.     *)
(***************************************************************************)
EXTENDS Namespace, TLC

CONSTANTS p1, p2, p3, a, b, x, y

Three == {p1, p2, p3}
Ends == {a, b}
Others == {x, y}
Heads5 == 1 .. 5

Bind(pt, d, order) == [type |-> "bind", pt |-> pt, from |-> d, order |-> order]
Unmount(pt, d) == [type |-> "unmount", pt |-> pt, from |-> d]
Look(t, pt) == [type |-> t, pt |-> pt]

Calls ==
  {Bind(a, y, o) : o \in {"MREPL", "MBEFORE", "MAFTER"}} \cup {Bind(b, y, "MREPL"), Bind(b, y, "MAFTER")}
  \cup {Unmount(a, None), Unmount(a, x), Unmount(b, y)}
  \cup {Look(t, a) : t \in {"walk", "create", "open", "dotdot", "copy"}} \cup {Look("walk", b)}

Alike == Permutations(Three)
=============================================================================
