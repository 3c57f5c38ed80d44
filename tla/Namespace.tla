----------------------------- MODULE Namespace -----------------------------
(***************************************************************************)
(* The mount table of a process group and the processes that share it:     *)
(* mount and bind (cmount), unmount (cunmount), walks that cross a mount   *)
(* point and search a union (findmount, walk), "..", (undomount), create   *)
(* in a union (createdir), open and read of a union (namec, unionread),    *)
(* and the copy made for a new group (pgrpcpy), of styx/svcs/chan.c,       *)
(* pgrp.c and sysfile.c.                                                   *)
(*                                                                         *)
(* pg->ns and the lock of each Mhead are used through what RWLock          *)
(* promises.  A step is a section under a lock, one call of a device, or   *)
(* one read of a list that no lock protects.  A process that follows a nil *)
(* pointer or reads a freed Mount crashes, and all ends there.             *)
(***************************************************************************)
EXTENDS Integers, Sequences, FiniteSets

CONSTANTS
  Procs,    \* the processes of the group
  Points,   \* the directories that are mounted on
  Dirs,     \* the other directories that are mounted
  Ops,      \* what a process may do: records, see Op below
  Union,    \* the point where a union of First and the point is mounted
  First,
  MaxOps,   \* bound: the calls the processes make together
  Heads,    \* bound: the Mheads that may be allocated at once
  None      \* nil

\* A bind of the directory "from", on which nothing is mounted; an unmount of one
\* member, or of all (None); and the calls that only look.
Op == [type : {"bind"}, pt : Points, from : Dirs, order : {"MREPL", "MBEFORE", "MAFTER"}]
      \cup [type : {"unmount"}, pt : Points, from : Points \cup Dirs \cup {None}]
      \cup [type : {"walk", "create", "open", "dotdot", "copy"}, pt : Points]

Mounts == [id : Nat, to : Points \cup Dirs]

ASSUME NamespaceAssumption ==
  /\ Ops \subseteq Op /\ Union \in Points /\ First \in Dirs
  /\ Points \cap Dirs = {}
  /\ None \notin Points \cup Dirs \cup Procs \cup Heads /\ None \notin Op /\ None \notin Mounts
  /\ None \notin [call : Op, done : BOOLEAN]
  /\ Heads \subseteq Nat /\ 1 \in Heads
  /\ MaxOps \in Nat /\ IsFiniteSet(Heads) /\ Cardinality(Heads) > MaxOps

VARIABLES
  table,    \* pg->mnthash: the Mhead of each point
  ref,      \* m->r of each Mhead, 0 when it is free
  list,     \* m->mount: a list of [id, to]
  nsw, nsr, \* pg->ns: who writes, who read
  hw, hr,   \* the lock of each Mhead
  pc, op,   \* each process: where it is, and what it does
  m, mh,    \* the Mhead it changes (the points copied, in pgrpcpy), and the one it
            \* holds a reference to
  f, c,     \* the Mount it looks at, and the directory it has reached (the point
            \* whose Mhead it made, in cmount)
  new,      \* the Mount cmount makes, or the copy of pgrpcpy
  mountid,  \* the last mountid
  ops,      \* the calls made so far
  crash     \* how a process has crashed, or None

locks == <<nsw, nsr, hw, hr>>
heads == <<table, ref, list>>
locals == <<op, m, mh, f, c, new>>
vars == <<heads, locks, pc, locals, mountid, ops, crash>>

Init ==
  /\ table = [pt \in Points |-> IF pt = Union THEN 1 ELSE None]
  /\ ref = [h \in Heads |-> IF h = 1 THEN 1 ELSE 0]
  /\ list = [h \in Heads |-> IF h = 1 THEN <<[id |-> 2, to |-> First], [id |-> 1, to |-> Union]>>
                             ELSE <<>>]
  /\ nsw = None /\ nsr = {} /\ hw = [h \in Heads |-> None] /\ hr = [h \in Heads |-> {}]
  /\ pc = [p \in Procs |-> "idle"] /\ op = [p \in Procs |-> None]
  /\ m = [p \in Procs |-> None] /\ mh = [p \in Procs |-> None]
  /\ f = [p \in Procs |-> None] /\ c = [p \in Procs |-> None]
  /\ new = [p \in Procs |-> <<>>]
  /\ mountid = 2 /\ ops = 0 /\ crash = None

-----------------------------------------------------------------------------
Set(v, p, x) == [v EXCEPT ![p] = x]
Goto(p, from, to) == crash = None /\ pc[p] = from /\ pc' = Set(pc, p, to)
Crash(how) == crash' = how

\* A Mount is live while it is in a list.
Live(x) == \E h \in Heads : \E i \in DOMAIN list[h] : list[h][i] = x
\* The Mount x->next, nil after the last.
NextOf(x) ==
  LET h == CHOOSE h \in Heads : \E i \in DOMAIN list[h] : list[h][i] = x
      i == CHOOSE i \in DOMAIN list[h] : list[h][i] = x
  IN IF i = Len(list[h]) THEN None ELSE list[h][i + 1]
At(h, i) == IF Len(list[h]) < i THEN None ELSE list[h][i]

newhead == CHOOSE h \in Heads : ref[h] = 0 /\ \A g \in Heads : ref[g] = 0 => h <= g
putmhead(h) == ref' = [x \in Heads |-> IF x = h THEN ref[x] - 1 ELSE ref[x]]

\* What a call begins with, and its end.
Starts(o) ==
  CASE o.type = "bind" -> "cmount"
    [] o.type = "unmount" -> "cunmount"
    [] o.type = "dotdot" -> "undomount"
    [] o.type = "copy" -> "pgrpcpy"
    [] OTHER -> "find"

Call(p, o) ==
  /\ Goto(p, "idle", Starts(o))
  /\ ops < MaxOps /\ ops' = ops + 1
  /\ op' = Set(op, p, o)
  /\ UNCHANGED <<heads, locks, m, mh, f, c, new, mountid, crash>>

\* The reference to mh is put: by walk, createdir's caller, or the cclose of the
\* channel whose umh it is.
Return(p) ==
  /\ Goto(p, "put", "idle")
  /\ putmhead(mh[p])
  /\ op' = Set(op, p, None) /\ mh' = Set(mh, p, None) /\ m' = Set(m, p, None)
  /\ f' = Set(f, p, None) /\ c' = Set(c, p, None) /\ new' = Set(new, p, <<>>)
  /\ UNCHANGED <<table, list, locks, mountid, ops, crash>>

-----------------------------------------------------------------------------
(* findmount: rlock(&pg->ns), then the Mhead under its own lock.            *)

FindLocks(p) ==
  /\ Goto(p, "find", "find2") /\ nsw = None
  /\ nsr' = nsr \cup {p}
  /\ UNCHANGED <<heads, nsw, hw, hr, locals, mountid, ops, crash>>

After(p) ==
  CASE op[p].type = "walk" -> "walk" [] op[p].type = "create" -> "ulock" [] op[p].type = "open" -> "open"

\* Mutant: the caller's Mhead is not counted.
findmount_NoIncref(p) ==
  LET h == table[op[p].pt] IN
  /\ Goto(p, "find2", After(p)) /\ h # None /\ hw[h] = None
  /\ nsr' = nsr \ {p}
  /\ IF list[h] = <<>> THEN Crash("findmount") /\ UNCHANGED <<ref, mh, c>>
     ELSE /\ UNCHANGED ref
          /\ mh' = Set(mh, p, h) /\ c' = Set(c, p, list[h][1].to) /\ UNCHANGED crash
  /\ UNCHANGED <<table, list, nsw, hw, hr, op, m, f, new, mountid, ops>>

findmount(p) ==
  LET h == table[op[p].pt] IN
  /\ Goto(p, "find2", After(p)) /\ h # None /\ hw[h] = None
  /\ nsr' = nsr \ {p}
  /\ IF list[h] = <<>> THEN Crash("findmount") /\ UNCHANGED <<ref, mh, c>>
     ELSE /\ ref' = [ref EXCEPT ![h] = @ + 1]
          /\ mh' = Set(mh, p, h) /\ c' = Set(c, p, list[h][1].to) /\ UNCHANGED crash
  /\ UNCHANGED <<table, list, nsw, hw, hr, op, m, f, new, mountid, ops>>

\* Nothing is mounted there: a walk, create or open goes on in the directory itself,
\* which is not modelled.
FindsNone(p) ==
  /\ Goto(p, "find2", "put") /\ table[op[p].pt] = None
  /\ nsr' = nsr \ {p}
  /\ UNCHANGED <<heads, nsw, hw, hr, locals, mountid, ops, crash>>

-----------------------------------------------------------------------------
(* walk, createdir and unionread: the search of a union.                    *)

\* devtab walk of the first directory finds the name, or the union is tried.
WalkFirst(p) ==
  /\ Goto(p, "walk", "put") \/ Goto(p, "walk", "ulock")
  /\ UNCHANGED <<heads, locks, locals, mountid, ops, crash>>

\* walk starts at mh->mount->next, without a look at mh->mount.
UnionLocks(p) ==
  LET first == IF op[p].type = "walk" THEN 2 ELSE 1 IN
  /\ pc[p] = "ulock" /\ hw[mh[p]] = None
  /\ Goto(p, "ulock", "union")
  /\ hr' = [hr EXCEPT ![mh[p]] = @ \cup {p}]
  /\ f' = Set(f, p, At(mh[p], first))
  /\ IF op[p].type = "walk" /\ list[mh[p]] = <<>> THEN Crash("walk") ELSE UNCHANGED crash
  /\ UNCHANGED <<heads, nsw, nsr, hw, op, m, mh, c, new, mountid, ops>>

\* The device of this member has nothing, or cannot create: on to f->next.
UnionNext(p) ==
  /\ Goto(p, "union", "union") /\ f[p] # None
  /\ IF Live(f[p]) THEN f' = Set(f, p, NextOf(f[p])) /\ UNCHANGED crash
     ELSE Crash("union") /\ UNCHANGED f
  /\ UNCHANGED <<heads, locks, op, m, mh, c, new, mountid, ops>>

\* It is found, or the list is at its end.  walk looks at f once more.
UnionUnlocks(p) ==
  /\ Goto(p, "union", IF op[p].type = "walk" /\ f[p] # None THEN "type" ELSE "put")
  /\ hr' = [hr EXCEPT ![mh[p]] = @ \ {p}]
  /\ UNCHANGED <<heads, nsw, nsr, hw, locals, mountid, ops, crash>>

\* type = f->to->type, after the unlock.
WalkType(p) ==
  /\ Goto(p, "type", "put")
  /\ IF Live(f[p]) THEN UNCHANGED crash ELSE Crash("type")
  /\ UNCHANGED <<heads, locks, locals, mountid, ops>>

\* namec: m->mount && m->mount->next, without the lock; a union keeps m as c->umh, and
\* unionread goes through it under the lock.
OpenLooks(p) ==
  /\ Goto(p, "open", "open2")
  /\ f' = Set(f, p, At(mh[p], 1))
  /\ UNCHANGED <<heads, locks, op, m, mh, c, new, mountid, ops, crash>>

OpenKeeps(p) ==
  /\ pc[p] = "open2"
  /\ LET freed == f[p] # None /\ ~ Live(f[p])
         union == f[p] # None /\ ~ freed /\ NextOf(f[p]) # None
     IN /\ Goto(p, "open2", IF union THEN "ulock" ELSE "put")
        /\ IF freed THEN Crash("open") ELSE UNCHANGED crash
  /\ UNCHANGED <<heads, locks, locals, mountid, ops>>

-----------------------------------------------------------------------------
(* undomount reads every list under pg->ns alone.                           *)

UndoLocks(p) ==
  /\ Goto(p, "undomount", "undo") /\ nsw = None
  /\ nsr' = nsr \cup {p}
  /\ f' = Set(f, p, IF table[op[p].pt] = None THEN None ELSE At(table[op[p].pt], 1))
  /\ UNCHANGED <<heads, nsw, hw, hr, op, m, mh, c, new, mountid, ops, crash>>

UndoLooks(p) ==
  /\ Goto(p, "undo", "undo") /\ f[p] # None
  /\ IF Live(f[p]) THEN f' = Set(f, p, NextOf(f[p])) /\ UNCHANGED crash
     ELSE Crash("undomount") /\ UNCHANGED f
  /\ UNCHANGED <<heads, locks, op, m, mh, c, new, mountid, ops>>

UndoUnlocks(p) ==
  /\ Goto(p, "undo", "put") /\ f[p] = None
  /\ nsr' = nsr \ {p}
  /\ UNCHANGED <<heads, nsw, hw, hr, locals, mountid, ops, crash>>

-----------------------------------------------------------------------------
(* cmount.                                                                  *)

\* Mutant: a union begins without the point itself.
MountFinds_NoSelf(p) ==
  LET pt == op[p].pt IN
  /\ Goto(p, "cmount", "mlock") /\ nsw = None /\ nsr = {}
  /\ nsw' = p
  /\ IF table[pt] # None
     THEN m' = Set(m, p, table[pt]) /\ UNCHANGED <<heads, mountid, c>>
     ELSE LET h == newhead IN
          /\ c' = Set(c, p, pt) /\ m' = Set(m, p, h) /\ table' = Set(table, pt, h) /\ ref' = Set(ref, h, 1)
          /\ UNCHANGED <<list, mountid>>
  /\ UNCHANGED <<nsr, hw, hr, op, mh, f, new, ops, crash>>

\* The Mhead is found, or made with the point as the first of a union.
MountFinds(p) ==
  LET pt == op[p].pt IN
  /\ Goto(p, "cmount", "mlock") /\ nsw = None /\ nsr = {}
  /\ nsw' = p
  /\ IF table[pt] # None
     THEN m' = Set(m, p, table[pt]) /\ UNCHANGED <<heads, mountid, c>>
     ELSE LET h == newhead IN
          /\ c' = Set(c, p, pt) /\ m' = Set(m, p, h) /\ table' = Set(table, pt, h) /\ ref' = Set(ref, h, 1)
          /\ IF op[p].order = "MREPL" THEN UNCHANGED <<list, mountid>>
             ELSE /\ list' = Set(list, h, <<[id |-> mountid + 1, to |-> pt]>>)
                  /\ mountid' = mountid + 1
  /\ UNCHANGED <<nsr, hw, hr, op, mh, f, new, ops, crash>>

\* Mutant: m->lock is taken as a reader does.
MountLocks_Shared(p) ==
  /\ pc[p] = "mlock" /\ hw[m[p]] = None
  /\ Goto(p, "mlock", "newmount")
  /\ hw' = Set(hw, m[p], p) /\ nsw' = None
  /\ UNCHANGED <<heads, nsr, hr, locals, mountid, ops, crash>>

MountLocks(p) ==
  /\ pc[p] = "mlock" /\ hw[m[p]] = None /\ hr[m[p]] = {}
  /\ Goto(p, "mlock", "newmount")
  /\ hw' = Set(hw, m[p], p) /\ nsw' = None
  /\ UNCHANGED <<heads, nsr, hr, locals, mountid, ops, crash>>

\* newmount, and mountfree of what is replaced.  There is memory: newmount's Enomem, which
\* leaves the Mhead MountFinds made in the table with an empty list, is not modelled.
NewMount(p) ==
  /\ Goto(p, "newmount", "link")
  /\ new' = Set(new, p, <<[id |-> mountid + 1, to |-> op[p].from]>>) /\ mountid' = mountid + 1
  /\ list' = IF op[p].order = "MREPL" THEN Set(list, m[p], <<>>) ELSE list
  /\ UNCHANGED <<table, ref, locks, op, m, mh, f, c, ops, crash>>

MountLinks(p) ==
  /\ Goto(p, "link", "put")
  /\ list' = Set(list, m[p], IF op[p].order = "MAFTER" THEN list[m[p]] \o new[p]
                             ELSE new[p] \o list[m[p]])
  /\ hw' = Set(hw, m[p], None)
  /\ UNCHANGED <<table, ref, nsw, nsr, hr, locals, mountid, ops, crash>>

-----------------------------------------------------------------------------
(* cunmount.                                                                *)

UnmountFinds(p) ==
  LET h == table[op[p].pt] IN
  /\ Goto(p, "cunmount", IF h = None THEN "put" ELSE "ulocks") /\ nsw = None /\ nsr = {}
  /\ nsw' = IF h = None THEN None ELSE p
  /\ m' = Set(m, p, h)
  /\ UNCHANGED <<heads, nsr, hw, hr, op, mh, f, c, new, mountid, ops, crash>>

\* All: the Mhead is unlinked, and pg->ns let go.
UnmountAll(p) ==
  /\ pc[p] = "ulocks" /\ op[p].from = None /\ hw[m[p]] = None /\ hr[m[p]] = {}
  /\ Goto(p, "ulocks", "ufree")
  /\ hw' = Set(hw, m[p], p) /\ nsw' = None
  /\ table' = Set(table, op[p].pt, None)
  /\ UNCHANGED <<ref, list, nsr, hr, locals, mountid, ops, crash>>

UnmountFrees(p) ==
  /\ Goto(p, "ufree", "put")
  /\ list' = Set(list, m[p], <<>>) /\ hw' = Set(hw, m[p], None)
  /\ mh' = Set(mh, p, m[p])
  /\ UNCHANGED <<table, ref, nsw, nsr, hr, op, m, f, c, new, mountid, ops, crash>>

\* One: the first of that name, with both locks held; the Mhead goes with its last.
UnmountOne(p) ==
  /\ pc[p] = "ulocks" /\ op[p].from # None /\ hw[m[p]] = None /\ hr[m[p]] = {}
  /\ Goto(p, "ulocks", "put") /\ nsw' = None
  /\ LET old == list[m[p]]
         is == {i \in DOMAIN old : old[i].to = op[p].from}
         first == CHOOSE i \in is : \A j \in is : i <= j
         rest == SubSeq(old, 1, first - 1) \o SubSeq(old, first + 1, Len(old))
     IN IF is = {} THEN UNCHANGED <<table, list, mh>>
        ELSE /\ list' = Set(list, m[p], rest)
             /\ table' = IF rest = <<>> THEN Set(table, op[p].pt, None) ELSE table
             /\ mh' = IF rest = <<>> THEN Set(mh, p, m[p]) ELSE mh
  /\ UNCHANGED <<ref, nsr, hw, hr, op, m, f, c, new, mountid, ops, crash>>

-----------------------------------------------------------------------------
(* pgrpcpy: the copy of each list, then mountids in the order of the        *)
(* originals.  A copy is [pt, id, to, of], "of" the id of its original.     *)

CopyLocks(p) ==
  /\ Goto(p, "pgrpcpy", "cplist") /\ nsw = None /\ nsr = {} /\ nsw' = p
  /\ m' = Set(m, p, {})
  /\ UNCHANGED <<heads, nsr, hw, hr, op, mh, f, c, new, mountid, ops, crash>>

\* Mutant: the list is copied without its lock.
CopyList_Unlocked(p, pt) ==
  /\ pc[p] = "cplist" /\ pt \notin m[p]
  /\ Goto(p, "cplist", "cplist")
  /\ LET old == IF table[pt] = None THEN <<>> ELSE list[table[pt]] IN
     /\ new' = Set(new, p, new[p] \o [i \in DOMAIN old |->
                  [pt |-> pt, id |-> mountid + i, to |-> old[i].to, of |-> old[i].id]])
     /\ mountid' = mountid + Len(old)
  /\ m' = Set(m, p, m[p] \cup {pt})
  /\ UNCHANGED <<heads, locks, op, mh, f, c, ops, crash>>

\* The Mheads in some order: m[p] holds the points done.
CopyList(p, pt) ==
  /\ pc[p] = "cplist" /\ pt \notin m[p]
  /\ table[pt] # None => hw[table[pt]] = None
  /\ Goto(p, "cplist", "cplist")
  /\ LET old == IF table[pt] = None THEN <<>> ELSE list[table[pt]] IN
     /\ new' = Set(new, p, new[p] \o [i \in DOMAIN old |->
                  [pt |-> pt, id |-> mountid + i, to |-> old[i].to, of |-> old[i].id]])
     /\ mountid' = mountid + Len(old)
  /\ m' = Set(m, p, m[p] \cup {pt})
  /\ UNCHANGED <<heads, locks, op, mh, f, c, ops, crash>>

\* pgrpinsert keeps the originals sorted by mountid; lock(&mountid.lk) once.
CopyIds(p) ==
  /\ pc[p] = "cplist" /\ m[p] = Points
  /\ Goto(p, "cplist", "copied")
  /\ LET rank(x) == Cardinality({i \in DOMAIN new[p] : new[p][i].of < x.of}) IN
     new' = Set(new, p, [i \in DOMAIN new[p] |-> [new[p][i] EXCEPT !.id = mountid + rank(new[p][i])]])
  /\ mountid' = mountid + Len(new[p])
  /\ UNCHANGED <<heads, locks, op, m, mh, f, c, ops, crash>>

CopyUnlocks(p) ==
  /\ Goto(p, "copied", "put") /\ nsw' = None
  /\ UNCHANGED <<heads, nsr, hw, hr, locals, mountid, ops, crash>>

-----------------------------------------------------------------------------
\* What is mounted at a point: the list of its Mhead; while a cmount is on its way,
\* what was there until the old list is gone, and after that what will be there.
To(s) == [i \in DOMAIN s |-> s[i].to]
Visible(pt) ==
  LET h == table[pt]
      mounting == {p \in Procs : pc[p] \in {"mlock", "newmount", "link"} /\ m[p] = h}
  IN IF h = None \/ (\E p \in mounting : c[p] = pt /\ op[p].order # "MREPL") THEN <<>>
     ELSE IF \E p \in mounting : pc[p] = "link" /\ op[p].order = "MREPL"
          THEN To(new[CHOOSE p \in mounting : pc[p] = "link"])
          ELSE To(list[h])

Step(p) ==
  \/ Return(p) \/ FindLocks(p) \/ findmount(p) \/ FindsNone(p)
  \/ WalkFirst(p) \/ UnionLocks(p) \/ UnionNext(p) \/ UnionUnlocks(p) \/ WalkType(p)
  \/ OpenLooks(p) \/ OpenKeeps(p)
  \/ UndoLocks(p) \/ UndoLooks(p) \/ UndoUnlocks(p)
  \/ MountFinds(p) \/ MountLocks(p) \/ NewMount(p) \/ MountLinks(p)
  \/ UnmountFinds(p) \/ UnmountAll(p) \/ UnmountFrees(p) \/ UnmountOne(p)
  \/ CopyLocks(p) \/ (\E pt \in Points : CopyList(p, pt)) \/ CopyIds(p) \/ CopyUnlocks(p)

\* All calls are made, or a process has crashed.
Over ==
  /\ crash # None \/ (ops = MaxOps /\ \A p \in Procs : pc[p] = "idle")
  /\ UNCHANGED vars

Next == (\E p \in Procs : Step(p) \/ \E o \in Ops : Call(p, o)) \/ Over

Spec == Init /\ [][Next]_vars
-----------------------------------------------------------------------------
TypeOK ==
  /\ \A pt \in Points : table[pt] \in Heads \cup {None}
  /\ ref \in [Heads -> Nat] /\ \A h \in Heads : \A i \in DOMAIN list[h] : list[h][i] \in Mounts
  /\ nsw \in Procs \cup {None} /\ nsr \subseteq Procs
  /\ \A h \in Heads : hw[h] \in Procs \cup {None} /\ hr[h] \subseteq Procs
  /\ \A p \in Procs : /\ mh[p] \in Heads \cup {None} /\ (f[p] = None \/ f[p] \in Mounts)
                      /\ pc[p] = "idle" <=> op[p] = None
  /\ ops \in 0 .. MaxOps
  /\ crash \in {None, "walk", "type", "open", "undomount"}

\* The comment at putmhead: the references to an Mhead are that of the table, or of the
\* cunmount that took it from there, and those of findmount's callers; it is freed with
\* the last of them, and has no Mounts and no lock holder then.
HeadRefs ==
  \A h \in Heads :
    /\ ref[h] = Cardinality({pt \in Points : table[pt] = h}) + Cardinality({p \in Procs : mh[p] = h})
                + Cardinality({p \in Procs : pc[p] = "ufree" /\ m[p] = h})
    /\ ref[h] = 0 => list[h] = <<>> /\ hw[h] = None /\ hr[h] = {}

\* findmount takes m->mount->to without a test: an Mhead in the table that nobody is
\* changing has a Mount, though cmount enters it empty and cunmount empties it.
FoundHasMounts ==
  \A pt \in Points : table[pt] # None /\ hw[table[pt]] = None /\ nsw = None => list[table[pt]] # <<>>

\* The mount table, the references to its Mheads and their lists agree: putmhead frees an
\* Mhead once, with its last user, and findmount never meets an empty one.
HeadsExact == TypeOK /\ HeadRefs /\ FoundHasMounts

\* "The RWlock ensures that nothing is using the mount list at that time": a process in
\* the list with the lock of its Mhead stands on a Mount of that list.
LockedReadersSafe ==
  \A p \in Procs : pc[p] = "union" /\ f[p] # None /\ crash = None =>
    \E i \in DOMAIN list[mh[p]] : list[mh[p]][i] = f[p]

\* The Mounts of the copy s at pt lead to v, in this order.
CopiedAs(s, pt, v) ==
  \E at \in [DOMAIN v -> DOMAIN s] :
    /\ \A i, j \in DOMAIN v : i < j => at[i] < at[j]
    /\ {at[i] : i \in DOMAIN v} = {k \in DOMAIN s : s[k].pt = pt}
    /\ \A i \in DOMAIN v : s[at[i]].to = v[i]

\* "pgrpcpy MUST preserve the mountid allocation order of the parent group", and the copy
\* is of one moment: what every other process finds while pg->ns is still held.
CopyIsSnapshot ==
  \A p \in Procs : pc[p] = "copied" =>
    /\ \A pt \in Points : CopiedAs(new[p], pt, Visible(pt))
    /\ \A i, j \in DOMAIN new[p] : new[p][i].of < new[p][j].of => new[p][i].id < new[p][j].id

\* Each mount, bind and unmount changes what is found at its point once, in one step
\* between its call and its return, and as its flags ask, although cmount lets pg->ns go
\* before it changes the list, and enters an Mhead before it has the new Mount.
Changes == {o \in Ops : o.type \in {"bind", "unmount"}}
InEffect(p) ==
  \/ pc[p] \in {"put", "ufree"}
  \/ pc[p] = "link" /\ op[p].type = "bind" /\ op[p].order = "MREPL"
Want(p) == IF op[p] \notin Changes THEN None ELSE [call |-> op[p], done |-> InEffect(p)]
Table == INSTANCE MountTable WITH Calls <- Changes,
                                  bound <- [pt \in Points |-> Visible(pt)],
                                  want <- [p \in Procs |-> Want(p)]
RefinesMountTable == Table!Spec

\* walk, on the way to the second member of a union: "mh->mount == c, so start at
\* mh->mount->next"; it never finds the list gone.
WalkHasItsUnion == crash # "walk"
=============================================================================
