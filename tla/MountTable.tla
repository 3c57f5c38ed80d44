----------------------------- MODULE MountTable ----------------------------
(***************************************************************************)
(* What a name space promises: at each mount point there is a list of      *)
(* directories, searched in order, and each mount, bind or unmount a       *)
(* process calls changes it once, in one step between call and return.     *)
(***************************************************************************)
EXTENDS Sequences, Naturals

CONSTANTS
  Procs,   \* the processes
  Points,  \* the directories one can mount on
  Calls,   \* the binds and unmounts they may call
  None

VARIABLES
  bound,   \* the list at each point, empty if nothing is mounted there
  want     \* each process: its call and whether it is in effect, or None

\* The list after a bind: the point itself is the first member of a union.
Bound(old, o) ==
  LET base == IF old = <<>> THEN <<o.pt>> ELSE old IN
  CASE o.order = "MREPL" -> <<o.from>>
    [] o.order = "MBEFORE" -> <<o.from>> \o base
    [] o.order = "MAFTER" -> base \o <<o.from>>

\* The list after an unmount of all, or of the first member of that name.
Unbound(old, o) ==
  LET is == {i \in DOMAIN old : old[i] = o.from}
      i == CHOOSE i \in is : \A j \in is : i <= j
  IN CASE o.from = None -> <<>>
       [] o.from # None /\ is = {} -> old
       [] OTHER -> SubSeq(old, 1, i - 1) \o SubSeq(old, i + 1, Len(old))

Init == want = [p \in Procs |-> None] /\ DOMAIN bound = Points

Call(p, o) ==
  want[p] = None /\ want' = [want EXCEPT ![p] = [call |-> o, done |-> FALSE]] /\ UNCHANGED bound

Effect(p) ==
  /\ want[p] # None /\ ~ want[p].done
  /\ LET o == want[p].call IN
     bound' = [bound EXCEPT ![o.pt] = IF o.type = "bind" THEN Bound(@, o) ELSE Unbound(@, o)]
  /\ want' = [want EXCEPT ![p].done = TRUE]

Return(p) ==
  want[p] # None /\ want[p].done /\ want' = [want EXCEPT ![p] = None] /\ UNCHANGED bound

Next == \E p \in Procs : (\E o \in Calls : Call(p, o)) \/ Effect(p) \/ Return(p)

Spec == Init /\ [][Next]_<<bound, want>>
=============================================================================
