-------------------------- MODULE NamespaceProofs --------------------------
(***************************************************************************)
(* Proofs about Namespace, for any processes, mount points and calls: the  *)
(* references to the Mheads are exact and no list is empty when it is      *)
(* found, a reader that has the lock of an Mhead stands on a Mount of it,  *)
(* each mount, bind and unmount is one step of MountTable, and the copy of *)
(* a name space is of one moment.                                          *)
(***************************************************************************)
EXTENDS Namespace, SequenceTheorems, FiniteSetTheorems, WellFoundedInduction, TLAPS

(* Where a process can be.  Those at Mounting, "ulocks" and "ufree" have an *)
(* Mhead in m, those at Found a reference to one in mh.                     *)
Mounting == {"mlock", "newmount", "link"}
Found == {"walk", "ulock", "union", "type", "open", "open2"}
Looking == {"find", "find2", "undomount", "undo"} \cup Found
Copying == {"pgrpcpy", "cplist", "copied"}
Places == {"idle", "put", "cmount", "cunmount", "ulocks", "ufree"}
          \cup Mounting \cup Looking \cup Copying

(* The Mounts of a list; who has a reference to an Mhead; the Mheads that   *)
(* the table, or the cunmount that took them from it, has a reference to.   *)
members == [h \in Heads |-> {list[h][i] : i \in 1..Len(list[h])}]
users == [h \in Heads |-> {p \in Procs : mh[p] = h}]
linked == {h \in Heads : \E pt \in Points : table[pt] = h}
leaving == {h \in Heads : \E p \in Procs : pc[p] = "ufree" /\ m[p] = h}
owned == linked \cup leaving

TypesOK ==
  /\ table \in [Points -> Heads \cup {None}]
  /\ ref \in [Heads -> Nat] /\ list \in [Heads -> Seq(Mounts)]
  /\ nsw \in Procs \cup {None} /\ nsr \subseteq Procs
  /\ hw \in [Heads -> Procs \cup {None}] /\ hr \in [Heads -> SUBSET Procs]
  /\ pc \in [Procs -> Places] /\ op \in [Procs -> Ops \cup {None}]
  /\ m = [p \in Procs |-> m[p]] /\ new = [p \in Procs |-> new[p]]
  /\ mh \in [Procs -> Heads \cup {None}] /\ f \in [Procs -> Mounts \cup {None}]
  /\ c \in [Procs -> Points \cup Dirs \cup {None}]
  /\ mountid \in Nat /\ ops \in 0..MaxOps
  /\ crash \in {None, "walk", "type", "open", "undomount"}

(* What a process does, by where it is. *)
CallsOK ==
  \A p \in Procs :
    /\ pc[p] = "idle" <=> op[p] = None
    /\ pc[p] \in {"find", "find2", "ulock", "union"} => op[p].type \in {"walk", "create", "open"}
    /\ pc[p] \in {"walk", "type"} => op[p].type = "walk"
    /\ pc[p] \in {"open", "open2"} => op[p].type = "open"
    /\ pc[p] \in {"undomount", "undo"} => op[p].type = "dotdot"
    /\ pc[p] \in Copying => op[p].type = "copy"
    /\ pc[p] \in {"cmount"} \cup Mounting => op[p].type = "bind"
    /\ pc[p] \in {"cunmount", "ulocks", "ufree"} => op[p].type = "unmount"

(* Its locals. *)
Copies == [pt : Points, id : Nat, to : Points \cup Dirs, of : Nat]
LocalsOK ==
  \A p \in Procs :
    /\ mh[p] # None => pc[p] \in Found \cup {"put"}
    /\ pc[p] \in Found => mh[p] # None
    /\ pc[p] = "type" => f[p] # None
    /\ pc[p] \in {"idle", "cmount"} => c[p] = None
    /\ pc[p] \in Mounting => c[p] \in {None, op[p].pt}
    /\ pc[p] \in {"idle", "pgrpcpy"} => new[p] = <<>>
    /\ pc[p] = "cplist" => new[p] \in Seq(Copies)

(* The locks: pg->ns, and that of each Mhead, by its writer and its readers. *)
NsOK ==
  /\ \A p \in Procs : /\ nsw = p <=> pc[p] \in {"mlock", "ulocks", "cplist", "copied"}
                      /\ p \in nsr <=> pc[p] \in {"find2", "undo"}
  /\ nsw # None => nsr = {}
HwOK ==
  \A h \in Heads, p \in Procs :
    hw[h] = p <=> pc[p] \in {"newmount", "link", "ufree"} /\ m[p] = h
HrOK ==
  \A h \in Heads :
    /\ \A p \in Procs : p \in hr[h] <=> pc[p] = "union" /\ mh[p] = h
    /\ hw[h] # None => hr[h] = {}

(* The Mhead that is changed stays the one of its point; a cunmount has     *)
(* taken it from the table.                                                 *)
TargetsOK ==
  \A p \in Procs :
    /\ pc[p] \in Mounting \cup {"ulocks"} => m[p] \in Heads /\ table[op[p].pt] = m[p]
    /\ pc[p] = "ufree" => m[p] \in Heads /\ m[p] \notin linked
TableOK ==
  \A pt, qt \in Points : table[pt] = table[qt] /\ table[pt] # None => pt = qt

(* The references, by who has them. *)
RefsOK ==
  \A h \in Heads :
    /\ IsFiniteSet(users[h])
    /\ ref[h] = Cardinality(users[h]) + (IF h \in owned THEN 1 ELSE 0)

(* A Mount is in one list, and the one that cmount makes in none yet. *)
MountsOK ==
  /\ \A h \in Heads : \A x \in members[h] : x.id <= mountid
  /\ \A g, h \in Heads : \A x \in members[g] : x \in members[h] => g = h
  /\ \A p \in Procs : pc[p] = "link" =>
       /\ new[p] = <<new[p][1]>> /\ new[p][1] \in Mounts
       /\ new[p][1].id <= mountid /\ new[p][1].to = op[p].from
       /\ \A h \in Heads : new[p][1] \notin members[h]
  /\ \A p, q \in Procs : pc[p] = "link" /\ pc[q] = "link" /\ new[p][1] = new[q][1] => p = q

(* A reader that has the lock of its Mhead is on a Mount of its list. *)
ReadersOK ==
  \A p \in Procs : pc[p] = "union" /\ f[p] # None => f[p] \in members[mh[p]]

(* Which lists are empty: those of Mheads that are gone or freed, and of    *)
(* those in the table only where a bind replaces.                           *)
Replaces(p, h) ==
  /\ pc[p] \in Mounting /\ m[p] = h /\ op[p].order = "MREPL"
  /\ pc[p] = "link" \/ c[p] # None
ListsOK == \A h \in Heads : list[h] # <<>> => h \in owned
EmptyOK ==
  \A h \in linked : list[h] = <<>> => \E p \in Procs : Replaces(p, h)

(* The Mhead that a cmount has made, and the list that it has replaced. *)
MadeOK ==
  \A p \in Procs :
    /\ pc[p] \in Mounting /\ c[p] # None =>
         /\ op[p].order = "MREPL" => list[m[p]] = <<>>
         /\ op[p].order # "MREPL" => Len(list[m[p]]) = 1 /\ list[m[p]][1].to = op[p].pt
         /\ pc[p] = "mlock" => hw[m[p]] = None
    /\ pc[p] = "link" /\ op[p].order = "MREPL" => list[m[p]] = <<>>

(* Each call makes one Mhead at most, so there is one for it. *)
used == {h \in Heads : ref[h] # 0}
starting == {p \in Procs : pc[p] = "cmount"}
RoomOK ==
  /\ IsFiniteSet(starting)
  /\ Cardinality(used) + Cardinality(starting) <= ops + 1

LookInv == TypesOK /\ CallsOK /\ LocalsOK /\ NsOK /\ HrOK /\ ReadersOK
HeadInv == /\ HwOK /\ TargetsOK /\ TableOK /\ RefsOK /\ MountsOK /\ ListsOK /\ EmptyOK /\ MadeOK
           /\ RoomOK
IndInv == LookInv /\ HeadInv
-----------------------------------------------------------------------------
(* None is none of the things it stands for the lack of. *)
LEMMA NoneApart ==
  /\ None \notin Points /\ None \notin Dirs /\ None \notin Procs /\ None \notin Heads
  /\ None \notin Ops /\ None \notin Mounts
  BY NamespaceAssumption

(* The parts of a call. *)
LEMMA CallParts ==
  ASSUME NEW o \in Ops
  PROVE  /\ o.pt \in Points
         /\ o.type \in {"bind", "unmount", "walk", "create", "open", "dotdot", "copy"}
         /\ o.type = "bind" => o.from \in Dirs /\ o.order \in {"MREPL", "MBEFORE", "MAFTER"}
         /\ o.type = "unmount" => o.from \in Points \cup Dirs \cup {None}
  BY NamespaceAssumption DEF Op

(* Every set of numbers that is not empty has a least one. *)
LEMMA Least ==
  ASSUME NEW S, S \subseteq Nat, S # {}
  PROVE  \E x \in S : \A y \in S : x <= y
<1>1. PICK x \in S : \A y \in S : ~ (<<y, x>> \in OpToRel(<, Nat))
  BY NatLessThanWellFounded, WFMin
<1>2. \A y \in S : ~ (y < x)
  BY <1>1 DEF OpToRel
<1>3. QED
  BY <1>2

(* The lists, as the sets of their Mounts. *)
LEMMA MembersAre ==
  ASSUME TypesOK, NEW h \in Heads
  PROVE  /\ DOMAIN list[h] = 1..Len(list[h]) /\ Len(list[h]) \in Nat
         /\ members[h] = {list[h][i] : i \in 1..Len(list[h])}
         /\ members[h] \subseteq Mounts
         /\ list[h] = <<>> <=> members[h] = {}
         /\ list[h] = <<>> <=> Len(list[h]) = 0
<1>1. list[h] \in Seq(Mounts) /\ members[h] = {list[h][i] : i \in 1..Len(list[h])}
  BY DEF TypesOK, members
<1>2. /\ DOMAIN list[h] = 1..Len(list[h]) /\ Len(list[h]) \in Nat
      /\ \A i \in 1..Len(list[h]) : list[h][i] \in Mounts
      /\ list[h] = <<>> <=> Len(list[h]) = 0
  BY <1>1
<1>3. members[h] = {} <=> Len(list[h]) = 0
  <2>1. ASSUME Len(list[h]) # 0 PROVE list[h][1] \in members[h]
    BY <1>1, <1>2, <2>1
  <2>2. ASSUME Len(list[h]) = 0 PROVE members[h] = {}
    BY <1>1, <1>2, <2>2
  <2>3. QED
    BY <2>1, <2>2
<1>4. QED
  BY <1>1, <1>2, <1>3

(* The Mount after one that a list has is none, or one of the same list. *)
LEMMA NextInList ==
  ASSUME TypesOK, MountsOK, NEW h \in Heads, NEW x \in members[h]
  PROVE  /\ Live(x)
         /\ NextOf(x) = None \/ NextOf(x) \in members[h]
<1>1. /\ DOMAIN list[h] = 1..Len(list[h])
      /\ members[h] = {list[h][i] : i \in 1..Len(list[h])}
  BY MembersAre
<1>2. \E i \in DOMAIN list[h] : list[h][i] = x
  BY <1>1
<1>3. Live(x)
  BY <1>2 DEF Live
<1> DEFINE g == CHOOSE y \in Heads : \E i \in DOMAIN list[y] : list[y][i] = x
           j == CHOOSE i \in DOMAIN list[g] : list[g][i] = x
<1>4. g \in Heads /\ \E i \in DOMAIN list[g] : list[g][i] = x
  BY <1>2
<1>5. j \in DOMAIN list[g] /\ list[g][j] = x
  BY <1>4
<1>6. x \in members[g]
  BY <1>4, MembersAre
<1>7. g = h
  BY <1>4, <1>6 DEF MountsOK
<1>8. NextOf(x) = IF j = Len(list[g]) THEN None ELSE list[g][j + 1]
  BY DEF NextOf
<1> HIDE DEF g, j
<1>9. j # Len(list[g]) => j + 1 \in 1..Len(list[h]) /\ NextOf(x) = list[h][j + 1]
  BY <1>1, <1>5, <1>7, <1>8, MembersAre
<1>10. NextOf(x) = None \/ NextOf(x) \in members[h]
  BY <1>1, <1>8, <1>9
<1>11. QED
  BY <1>3, <1>10

(* What a live Mount is followed by. *)
LEMMA NextOfLive ==
  ASSUME TypesOK, MountsOK, NEW x, Live(x)
  PROVE  NextOf(x) \in Mounts \cup {None}
<1>1. PICK h \in Heads : \E i \in DOMAIN list[h] : list[h][i] = x
  BY DEF Live
<1>2. x \in members[h] /\ members[h] \subseteq Mounts
  BY <1>1, MembersAre
<1>3. QED
  BY <1>2, NextInList

(* The first Mounts of a list. *)
LEMMA AtInList ==
  ASSUME TypesOK, NEW h \in Heads, NEW i \in {1, 2}
  PROVE  /\ At(h, i) \in Mounts \cup {None}
         /\ At(h, i) # None => At(h, i) \in members[h]
         /\ list[h] = <<>> => At(h, i) = None
  BY MembersAre DEF At
-----------------------------------------------------------------------------
(* A step of a process that is in none of the changing sections leaves the  *)
(* invariants of the Mheads alone, but for the references.                  *)
Changing == {"ulocks", "ufree"} \cup Mounting
Aside(p) ==
  /\ pc[p] \notin Changing /\ pc'[p] \notin Changing
  /\ \A q \in Procs : q # p => /\ pc'[q] = pc[q] /\ op'[q] = op[q] /\ m'[q] = m[q]
                               /\ c'[q] = c[q] /\ new'[q] = new[q]
  /\ UNCHANGED <<table, list, hw>> /\ mountid' \in Nat /\ mountid' >= mountid

(* A step of a call that only looks. *)
LooksOn(p) == Aside(p) /\ op' = op /\ pc[p] \in Looking \cup Copying

LEMMA AsideSets ==
  ASSUME NEW p \in Procs, Aside(p)
  PROVE  members' = members /\ linked' = linked /\ leaving' = leaving /\ owned' = owned
<1>1. members' = members /\ linked' = linked
  BY DEF Aside, members, linked
<1>2. \A q \in Procs : (pc'[q] = "ufree" <=> pc[q] = "ufree") /\ (pc[q] = "ufree" => m'[q] = m[q])
  BY DEF Aside, Changing
<1>3. leaving' = leaving
  BY <1>2 DEF leaving
<1>4. QED
  BY <1>1, <1>3 DEF owned

LEMMA AsideOK ==
  ASSUME IndInv, NEW p \in Procs, Aside(p)
  PROVE  HwOK' /\ TargetsOK' /\ TableOK' /\ MountsOK' /\ ListsOK' /\ EmptyOK' /\ MadeOK'
<1>h. /\ TypesOK /\ HwOK /\ TargetsOK /\ TableOK /\ MountsOK /\ ListsOK /\ EmptyOK /\ MadeOK
  BY DEF IndInv, LookInv, HeadInv
<1>a. /\ pc[p] \notin Changing /\ pc'[p] \notin Changing
      /\ \A q \in Procs : q # p => /\ pc'[q] = pc[q] /\ op'[q] = op[q] /\ m'[q] = m[q]
                                   /\ c'[q] = c[q] /\ new'[q] = new[q]
      /\ UNCHANGED <<table, list, hw>> /\ mountid' \in Nat /\ mountid' >= mountid
  BY DEF Aside
<1>s. /\ members' = members /\ linked' = linked /\ owned' = owned
  BY AsideSets
<1>1. HwOK'
  BY <1>h, <1>a DEF HwOK, Changing, Mounting
<1>2. TargetsOK'
  BY <1>h, <1>a, <1>s DEF TargetsOK, Changing, Mounting
<1>3. TableOK'
  BY <1>h, <1>a DEF TableOK
<1>4. MountsOK'
  <2>1. \A h \in Heads : \A x \in members[h] : x.id \in Nat /\ x.id <= mountid
    BY <1>h, MembersAre DEF MountsOK, Mounts
  <2>2. \A q \in Procs : pc'[q] = "link" => q # p
    BY <1>a DEF Changing, Mounting
  <2>3. \A q \in Procs : pc'[q] = "link" =>
          /\ new'[q] = <<new'[q][1]>> /\ new'[q][1] \in Mounts
          /\ new'[q][1].id <= mountid' /\ new'[q][1].to = op'[q].from
          /\ \A h \in Heads : new'[q][1] \notin members[h]
    <3> SUFFICES ASSUME NEW q \in Procs, pc'[q] = "link"
                 PROVE  /\ new[q] = <<new[q][1]>> /\ new[q][1] \in Mounts
                        /\ new[q][1].id <= mountid' /\ new[q][1].to = op[q].from
                        /\ \A h \in Heads : new[q][1] \notin members[h]
      BY <1>a, <2>2
    <3>1. /\ new[q] = <<new[q][1]>> /\ new[q][1] \in Mounts
          /\ new[q][1].id <= mountid /\ new[q][1].to = op[q].from
          /\ \A h \in Heads : new[q][1] \notin members[h]
      BY <1>h, <1>a, <2>2 DEF MountsOK
    <3>2. new[q][1].id \in Nat
      BY <3>1 DEF Mounts
    <3>3. new[q][1].id <= mountid'
      BY <1>h, <1>a, <3>1, <3>2 DEF TypesOK
    <3>4. QED
      BY <3>1, <3>3
  <2>4. \A q, r \in Procs : pc'[q] = "link" /\ pc'[r] = "link" /\ new'[q][1] = new'[r][1] => q = r
    BY <1>h, <1>a, <2>2 DEF MountsOK
  <2>5. \A h \in Heads : \A x \in members[h] : x.id <= mountid'
    BY <1>h, <1>a, <2>1 DEF TypesOK
  <2>6. \A g, h \in Heads : \A x \in members[g] : x \in members[h] => g = h
    BY <1>h DEF MountsOK
  <2>7. QED
    BY <1>s, <2>3, <2>4, <2>5, <2>6 DEF MountsOK
<1>5. ListsOK'
  BY <1>h, <1>a, <1>s DEF ListsOK
<1>6. EmptyOK'
  <2>1. ASSUME NEW h, NEW q \in Procs, Replaces(q, h) PROVE Replaces(q, h)'
    BY <1>a, <2>1 DEF Replaces, Changing, Mounting
  <2>2. QED
    BY <1>h, <1>a, <1>s, <2>1 DEF EmptyOK
<1>7. MadeOK'
  BY <1>h, <1>a DEF MadeOK, Changing, Mounting
<1>8. QED
  BY <1>1, <1>2, <1>3, <1>4, <1>5, <1>6, <1>7

(* And those of the references too, when it takes and puts none. *)
LEMMA AsideHead ==
  ASSUME IndInv, NEW p \in Procs, Aside(p), UNCHANGED <<ref, mh, ops>>,
         pc[p] # "cmount", pc'[p] # "cmount"
  PROVE  HeadInv'
<1>h. TypesOK /\ RefsOK /\ RoomOK
  BY DEF IndInv, LookInv, HeadInv
<1>1. users' = users /\ used' = used
  BY DEF users, used
<1>2. owned' = owned
  BY AsideSets
<1>3. RefsOK'
  BY <1>h, <1>1, <1>2 DEF RefsOK
<1>4. starting' = starting
  BY DEF Aside, starting
<1>5. RoomOK'
  BY <1>h, <1>1, <1>4 DEF RoomOK
<1>6. QED
  BY <1>3, <1>5, AsideOK DEF HeadInv

(* What a call begins with. *)
LEMMA StartsAre ==
  ASSUME NEW o \in Ops
  PROVE  \/ o.type = "bind" /\ Starts(o) = "cmount"
         \/ o.type = "unmount" /\ Starts(o) = "cunmount"
         \/ o.type = "dotdot" /\ Starts(o) = "undomount"
         \/ o.type = "copy" /\ Starts(o) = "pgrpcpy"
         \/ o.type \in {"walk", "create", "open"} /\ Starts(o) = "find"
  BY CallParts DEF Starts

(* The counts of a set after one comes or goes. *)
LEMMA CountPlus ==
  ASSUME NEW S, IsFiniteSet(S), NEW x, x \notin S
  PROVE  /\ IsFiniteSet(S \cup {x}) /\ Cardinality(S \cup {x}) = Cardinality(S) + 1
         /\ Cardinality(S) \in Nat
  BY FS_AddElement, FS_CardinalityType
LEMMA CountMinus ==
  ASSUME NEW S, IsFiniteSet(S), NEW x \in S
  PROVE  /\ IsFiniteSet(S \ {x}) /\ Cardinality(S \ {x}) = Cardinality(S) - 1
         /\ Cardinality(S) \in Nat \ {0}
<1>1. Cardinality(S) \in Nat /\ Cardinality(S) # 0
  BY FS_CardinalityType, FS_EmptySet
<1>2. QED
  BY <1>1, FS_RemoveElement

(* The room for another Mhead. *)
LEMMA RoomCounts ==
  ASSUME TypesOK, RoomOK
  PROVE  /\ IsFiniteSet(used) /\ Cardinality(used) \in Nat /\ Cardinality(starting) \in Nat
         /\ ops \in Nat
<1>1. IsFiniteSet(used)
  BY NamespaceAssumption, FS_Subset DEF used
<1>2. QED
  BY <1>1, NamespaceAssumption, FS_CardinalityType DEF RoomOK, TypesOK

(* The users of an Mhead are processes; those of an Mhead in use by one. *)
LEMMA RefsAre ==
  ASSUME TypesOK, RefsOK, NEW h \in Heads
  PROVE  /\ IsFiniteSet(users[h]) /\ Cardinality(users[h]) \in Nat /\ ref[h] \in Nat
         /\ ref[h] = Cardinality(users[h]) + (IF h \in owned THEN 1 ELSE 0)
         /\ ref[h] = 0 <=> users[h] = {} /\ h \notin owned
<1>1. IsFiniteSet(users[h]) /\ ref[h] = Cardinality(users[h]) + (IF h \in owned THEN 1 ELSE 0)
  BY DEF RefsOK
<1>2. Cardinality(users[h]) \in Nat /\ (Cardinality(users[h]) = 0 <=> users[h] = {})
  BY <1>1, FS_CardinalityType, FS_EmptySet
<1>3. QED
  BY <1>1, <1>2 DEF TypesOK

(* putmhead: a reference goes with its user. *)
LEMMA PutRef ==
  ASSUME TypesOK, RefsOK, NEW p \in Procs, Aside(p), putmhead(mh[p]),
         mh'[p] = None, \A q \in Procs : q # p => mh'[q] = mh[q]
  PROVE  RefsOK' /\ ref' \in [Heads -> Nat] /\ used' \subseteq used
<1>1. owned' = owned
  BY AsideSets
<1>2. ref' = [x \in Heads |-> IF x = mh[p] THEN ref[x] - 1 ELSE ref[x]]
  BY DEF putmhead
<1>3. ASSUME NEW h \in Heads
      PROVE  /\ IsFiniteSet(users'[h]) /\ ref'[h] \in Nat /\ (ref'[h] # 0 => ref[h] # 0)
             /\ ref'[h] = Cardinality(users'[h]) + (IF h \in owned THEN 1 ELSE 0)
  <2>0. /\ IsFiniteSet(users[h]) /\ Cardinality(users[h]) \in Nat /\ ref[h] \in Nat
        /\ ref[h] = Cardinality(users[h]) + (IF h \in owned THEN 1 ELSE 0)
    BY RefsAre
  <2>1. CASE h = mh[p]
    <3>1. p \in users[h] /\ users'[h] = users[h] \ {p}
      BY <2>1, NoneApart DEF users
    <3>2. ref'[h] = ref[h] - 1
      BY <1>2, <2>1
    <3>3. /\ IsFiniteSet(users'[h]) /\ Cardinality(users'[h]) = Cardinality(users[h]) - 1
          /\ Cardinality(users[h]) \in Nat \ {0}
      BY <2>0, <3>1, CountMinus
    <3>4. QED
      BY <2>0, <3>2, <3>3
  <2>2. CASE h # mh[p]
    <3>1. users'[h] = users[h]
      BY <2>2, NoneApart DEF users
    <3>2. QED
      BY <1>2, <2>0, <2>2, <3>1
  <2>3. QED
    BY <2>1, <2>2
<1>4. RefsOK'
  BY <1>1, <1>3 DEF RefsOK
<1>5. ref' \in [Heads -> Nat]
  BY <1>2, <1>3
<1>6. used' \subseteq used
  BY <1>3 DEF used
<1>7. QED
  BY <1>4, <1>5, <1>6

(* findmount: a reference comes with its user. *)
LEMMA TakeRef ==
  ASSUME TypesOK, RefsOK, NEW p \in Procs, Aside(p), NEW h \in owned, mh[p] = None,
         ref' = [ref EXCEPT ![h] = ref[h] + 1],
         mh'[p] = h, \A q \in Procs : q # p => mh'[q] = mh[q]
  PROVE  RefsOK' /\ ref' \in [Heads -> Nat] /\ used' = used
<1>1. owned' = owned
  BY AsideSets
<1>2. h \in Heads /\ DOMAIN ref = Heads
  BY DEF owned, linked, leaving, TypesOK
<1>3. ASSUME NEW g \in Heads
      PROVE  /\ IsFiniteSet(users'[g]) /\ ref'[g] \in Nat /\ (ref'[g] # 0 <=> ref[g] # 0)
             /\ ref'[g] = Cardinality(users'[g]) + (IF g \in owned THEN 1 ELSE 0)
  <2>0. /\ IsFiniteSet(users[g]) /\ Cardinality(users[g]) \in Nat /\ ref[g] \in Nat
        /\ ref[g] = Cardinality(users[g]) + (IF g \in owned THEN 1 ELSE 0)
    BY RefsAre
  <2>1. CASE g = h
    <3>1. p \notin users[g] /\ users'[g] = users[g] \cup {p}
      BY <2>1, <1>2, NoneApart DEF users
    <3>2. ref'[g] = ref[g] + 1
      BY <1>2, <2>1
    <3>3. IsFiniteSet(users'[g]) /\ Cardinality(users'[g]) = Cardinality(users[g]) + 1
      BY <2>0, <3>1, CountPlus
    <3>4. QED
      BY <2>0, <2>1, <3>2, <3>3
  <2>2. CASE g # h
    <3>1. users'[g] = users[g]
      BY <2>2, NoneApart DEF users
    <3>2. QED
      BY <1>2, <2>0, <2>2, <3>1
  <2>3. QED
    BY <2>1, <2>2
<1>4. RefsOK'
  BY <1>1, <1>3 DEF RefsOK
<1>5. ref' \in [Heads -> Nat]
  BY <1>2, <1>3
<1>6. used' = used
  BY <1>3 DEF used
<1>7. QED
  BY <1>4, <1>5, <1>6

(* An Mhead of the table that nobody changes has a Mount. *)
LEMMA FoundFull ==
  ASSUME IndInv, NEW h \in linked, hw[h] = None, nsw = None
  PROVE  list[h] # <<>>
<1>1. SUFFICES ASSUME list[h] = <<>> PROVE FALSE
  OBVIOUS
<1>2. NsOK /\ HwOK /\ EmptyOK
  BY DEF IndInv, LookInv, HeadInv
<1>3. PICK q \in Procs : Replaces(q, h)
  BY <1>1, <1>2 DEF EmptyOK
<1>4. pc[q] \in Mounting /\ m[q] = h /\ h \in Heads
  BY <1>3 DEF Replaces, linked
<1>5. QED
  BY <1>2, <1>4, NoneApart DEF NsOK, HwOK, Mounting

(* The copy of a list is a sequence of copies. *)
LEMMA CopyIsSeq ==
  ASSUME TypesOK, NEW s \in Seq(Copies), NEW old \in Seq(Mounts), NEW pt \in Points
  PROVE  s \o [i \in DOMAIN old |-> [pt |-> pt, id |-> mountid + i, to |-> old[i].to,
                                     of |-> old[i].id]] \in Seq(Copies)
<1> DEFINE e(i) == [pt |-> pt, id |-> mountid + i, to |-> old[i].to, of |-> old[i].id]
           t == [i \in DOMAIN old |-> e(i)]
<1>1. DOMAIN old = 1..Len(old) /\ Len(old) \in Nat /\ mountid \in Nat
  BY DEF TypesOK
<1>2. \A i \in 1..Len(old) : old[i] \in Mounts
  BY <1>1
<1>3. ASSUME NEW i \in 1..Len(old) PROVE e(i) \in Copies
  <2>1. old[i].to \in Points \cup Dirs /\ old[i].id \in Nat /\ mountid + i \in Nat
    BY <1>1, <1>2 DEF Mounts
  <2>2. QED
    BY <2>1 DEF Copies
<1> HIDE DEF e
<1>4. t \in Seq(Copies)
  BY <1>1, <1>3
<1>5. s \o t \in Seq(Copies)
  BY <1>4
<1>6. QED
  BY <1>5 DEF e

(* A list with a Mount linked at its end or its head. *)
Elems(s) == {s[i] : i \in 1..Len(s)}
Linked(t, s, x) == t = s \o <<x>> \/ t = <<x>> \o s
LEMMA LinkOne ==
  ASSUME NEW S, NEW s \in Seq(S), NEW x \in S, NEW t, Linked(t, s, x)
  PROVE  /\ t \in Seq(S) /\ t # <<>>
         /\ Elems(t) = Elems(s) \cup {x}
<1>1. <<x>> \in Seq(S) /\ Len(<<x>>) = 1 /\ <<x>>[1] = x /\ Len(s) \in Nat
  OBVIOUS
<1>2. t \in Seq(S) /\ Len(t) = Len(s) + 1
  <2>1. PICK y \in Seq(S) : y = <<x>>
    BY <1>1
  <2>2. /\ s \o y \in Seq(S) /\ Len(s \o y) = Len(s) + Len(y)
        /\ y \o s \in Seq(S) /\ Len(y \o s) = Len(y) + Len(s)
    BY ConcatProperties
  <2>3. t = s \o y \/ t = y \o s
    BY <2>1 DEF Linked
  <2>4. t \in Seq(S) /\ (Len(t) = Len(s) + Len(y) \/ Len(t) = Len(y) + Len(s))
    BY <2>2, <2>3
  <2>5. Len(y) = 1
    BY <2>1
  <2>6. QED
    BY <1>1, <2>4, <2>5
<1>3. \/ (\A i \in 1..Len(s) : t[i] = s[i]) /\ t[Len(s) + 1] = x
      \/ (\A i \in 1..Len(s) : t[i + 1] = s[i]) /\ t[1] = x
  <2>1. CASE t = s \o <<x>>
    BY <1>1, <2>1
  <2>2. CASE t = <<x>> \o s
    BY <1>1, <2>2
  <2>3. QED
    BY <2>1, <2>2 DEF Linked
<1>4. ASSUME NEW i \in 1..Len(t) PROVE t[i] \in {s[j] : j \in 1..Len(s)} \cup {x}
  <2>1. CASE (\A j \in 1..Len(s) : t[j] = s[j]) /\ t[Len(s) + 1] = x
    <3>1. i \in 1..Len(s) \/ i = Len(s) + 1
      BY <1>1, <1>2
    <3>2. QED
      BY <2>1, <3>1
  <2>2. CASE (\A j \in 1..Len(s) : t[j + 1] = s[j]) /\ t[1] = x
    <3>1. i = 1 \/ (i - 1 \in 1..Len(s) /\ (i - 1) + 1 = i)
      BY <1>1, <1>2
    <3>2. QED
      BY <2>2, <3>1
  <2>3. QED
    BY <1>3, <2>1, <2>2
<1>5. ASSUME NEW i \in 1..Len(s) PROVE s[i] \in {t[j] : j \in 1..Len(t)}
  <2>1. i \in 1..Len(t) /\ i + 1 \in 1..Len(t)
    BY <1>1, <1>2
  <2>2. QED
    BY <1>3, <2>1
<1>6. x \in {t[j] : j \in 1..Len(t)}
  <2>1. 1 \in 1..Len(t) /\ Len(s) + 1 \in 1..Len(t)
    BY <1>1, <1>2
  <2>2. QED
    BY <1>3, <2>1
<1>7. t # <<>>
  BY <1>1, <1>2
<1>8. QED
  BY <1>2, <1>4, <1>5, <1>6, <1>7 DEF Elems

(* A list without its entry k. *)
Unlinked(t, s, k) == t = SubSeq(s, 1, k - 1) \o SubSeq(s, k + 1, Len(s))
LEMMA UnlinkOne ==
  ASSUME NEW S, NEW s \in Seq(S), NEW k \in 1..Len(s), NEW t, Unlinked(t, s, k)
  PROVE  /\ t \in Seq(S) /\ Len(t) = Len(s) - 1
         /\ \A i \in 1..Len(t) : t[i] = IF i < k THEN s[i] ELSE s[i + 1]
         /\ Elems(t) \subseteq Elems(s)
<1> DEFINE a == SubSeq(s, 1, k - 1)
           b == SubSeq(s, k + 1, Len(s))
<1>1. Len(s) \in Nat /\ k \in Nat /\ \A i \in 1..Len(s) : s[i] \in S
  OBVIOUS
<1>2. a \in Seq(S) /\ Len(a) = k - 1 /\ \A i \in 1..(k - 1) : a[i] = s[i]
  BY <1>1
<1>3. b \in Seq(S) /\ Len(b) = Len(s) - k /\ \A i \in 1..(Len(s) - k) : b[i] = s[k + i]
  BY <1>1
<1> HIDE DEF a, b
<1>4. t = a \o b
  BY DEF a, b, Unlinked
<1>5. /\ t \in Seq(S) /\ Len(t) = Len(a) + Len(b)
      /\ \A i \in 1..(Len(a) + Len(b)) : t[i] = IF i <= Len(a) THEN a[i] ELSE b[i - Len(a)]
  BY <1>2, <1>3, <1>4, ConcatProperties
<1>9. Len(t) = Len(s) - 1
  BY <1>1, <1>2, <1>3, <1>5
<1>6. ASSUME NEW i \in 1..Len(t) PROVE t[i] = IF i < k THEN s[i] ELSE s[i + 1]
  <2>1. CASE i < k
    <3>1. i \in 1..(k - 1) /\ i <= Len(a)
      BY <1>1, <1>2, <2>1
    <3>2. QED
      BY <1>2, <1>5, <2>1, <3>1
  <2>2. CASE ~(i < k)
    <3>1. i - Len(a) \in 1..(Len(s) - k) /\ k + (i - Len(a)) = i + 1 /\ ~(i <= Len(a))
      BY <1>1, <1>2, <1>9, <2>2
    <3>2. t[i] = b[i - Len(a)]
      BY <1>5, <3>1
    <3>3. QED
      BY <1>3, <2>2, <3>1, <3>2
  <2>3. QED
    BY <2>1, <2>2
<1>7. ASSUME NEW i \in 1..Len(t) PROVE t[i] \in {s[j] : j \in 1..Len(s)}
  <2>1. i \in 1..Len(s) /\ i + 1 \in 1..Len(s)
    BY <1>1, <1>9
  <2>2. QED
    BY <1>6, <2>1
<1>8. QED
  BY <1>5, <1>6, <1>7, <1>9 DEF Elems

(* Who is on its way to change an Mhead that another has locked waits for   *)
(* it, and did not make it.                                                 *)
LEMMA OthersWait ==
  ASSUME IndInv, NEW p \in Procs, NEW q \in Procs, q # p, pc[p] \in {"newmount", "link"},
         m[q] = m[p], pc[q] \in Mounting
  PROVE  pc[q] = "mlock" /\ c[q] = None
<1>1. HwOK /\ MadeOK /\ TargetsOK
  BY DEF IndInv, HeadInv
<1>2. m[p] \in Heads /\ hw[m[p]] = p
  BY <1>1 DEF HwOK, TargetsOK, Mounting
<1>3. QED
  BY <1>1, <1>2, NoneApart DEF HwOK, MadeOK, Mounting

(* Nobody is on its way to change an Mhead while cunmount has both locks. *)
LEMMA NobodyMounts ==
  ASSUME IndInv, NEW p \in Procs, pc[p] = "ulocks", hw[m[p]] = None,
         NEW q \in Procs, pc[q] \in Mounting
  PROVE  m[q] # m[p] /\ pc[q] # "mlock"
<1>1. HwOK /\ TargetsOK /\ NsOK
  BY DEF IndInv, LookInv, HeadInv
<1>2. m[p] \in Heads /\ m[q] \in Heads
  BY <1>1 DEF TargetsOK
<1>3. QED
  BY <1>1, <1>2, NoneApart DEF HwOK, NsOK, Mounting

(* A cunmount that has taken an Mhead from the table keeps its reference. *)
LEMMA KeepRef ==
  ASSUME TypesOK, RefsOK, NEW p \in Procs, NEW h \in owned, mh[p] = None,
         owned' = owned \ {h}, UNCHANGED ref,
         mh'[p] = h, \A q \in Procs : q # p => mh'[q] = mh[q]
  PROVE  RefsOK' /\ used' = used
<1>1. h \in Heads
  BY DEF owned, linked, leaving
<1>2. ASSUME NEW g \in Heads
      PROVE  /\ IsFiniteSet(users'[g])
             /\ ref'[g] = Cardinality(users'[g]) + (IF g \in owned' THEN 1 ELSE 0)
  <2>0. /\ IsFiniteSet(users[g]) /\ Cardinality(users[g]) \in Nat /\ ref'[g] = ref[g]
        /\ ref[g] = Cardinality(users[g]) + (IF g \in owned THEN 1 ELSE 0)
    BY RefsAre
  <2>1. CASE g = h
    <3>1. p \notin users[g] /\ users'[g] = users[g] \cup {p}
      BY <1>1, <2>1, NoneApart DEF users
    <3>2. IsFiniteSet(users'[g]) /\ Cardinality(users'[g]) = Cardinality(users[g]) + 1
      BY <2>0, <3>1, CountPlus
    <3>3. QED
      BY <2>0, <2>1, <3>2
  <2>2. CASE g # h
    <3>1. users'[g] = users[g]
      BY <2>2, NoneApart DEF users
    <3>2. QED
      BY <2>0, <2>2, <3>1
  <2>3. QED
    BY <2>1, <2>2
<1>3. RefsOK'
  BY <1>2 DEF RefsOK
<1>4. QED
  BY <1>3 DEF used

(* What cunmount of one member does: nothing, or the first of that name     *)
(* goes, and the Mhead with its last.                                       *)
LEMMA OneParts ==
  ASSUME TypesOK, NEW p \in Procs, m[p] \in Heads, UnmountOne(p)
  PROVE  \/ /\ UNCHANGED <<table, list, mh>>
            /\ \A i \in 1..Len(list[m[p]]) : list[m[p]][i].to # op[p].from
         \/ \E k \in 1..Len(list[m[p]]), t \in Seq(Mounts) :
              /\ list[m[p]][k].to = op[p].from
              /\ \A j \in 1..Len(list[m[p]]) : list[m[p]][j].to = op[p].from => k <= j
              /\ Unlinked(t, list[m[p]], k)
              /\ list' = [list EXCEPT ![m[p]] = t]
              /\ table' = IF t = <<>> THEN [table EXCEPT ![op[p].pt] = None] ELSE table
              /\ mh' = IF t = <<>> THEN [mh EXCEPT ![p] = m[p]] ELSE mh
<1>1. PICK old \in Seq(Mounts) : old = list[m[p]]
  BY DEF TypesOK
<1>2. PICK is : is = {i \in DOMAIN old : old[i].to = op[p].from}
  OBVIOUS
<1>3. PICK k : k = CHOOSE i \in is : \A j \in is : i <= j
  OBVIOUS
<1>4. PICK t : t = SubSeq(old, 1, k - 1) \o SubSeq(old, k + 1, Len(old))
  OBVIOUS
<1>5. IF is = {} THEN UNCHANGED <<table, list, mh>>
      ELSE /\ list' = [list EXCEPT ![m[p]] = t]
           /\ table' = IF t = <<>> THEN [table EXCEPT ![op[p].pt] = None] ELSE table
           /\ mh' = IF t = <<>> THEN [mh EXCEPT ![p] = m[p]] ELSE mh
  BY <1>1, <1>2, <1>3, <1>4 DEF UnmountOne, Set
<1>6. DOMAIN old = 1..Len(old) /\ Len(old) \in Nat
  OBVIOUS
<1>7. CASE is = {}
  BY <1>1, <1>2, <1>5, <1>6, <1>7
<1>8. CASE is # {}
  <2>1. is \subseteq Nat
    BY <1>2, <1>6
  <2>2. k \in is /\ \A j \in is : k <= j
    BY <1>3, <1>8, <2>1, Least
  <2>3. /\ k \in 1..Len(old) /\ old[k].to = op[p].from
        /\ \A j \in 1..Len(old) : old[j].to = op[p].from => k <= j
    BY <1>2, <1>6, <2>2
  <2>4. Unlinked(t, old, k)
    BY <1>4 DEF Unlinked
  <2>5. t \in Seq(Mounts)
    BY <2>3, <2>4, UnlinkOne
  <2>6. QED
    BY <1>1, <1>5, <1>8, <2>3, <2>4, <2>5
<1>9. QED
  BY <1>7, <1>8

(* Nobody has the lock of an Mhead that is in no table and not leaving it. *)
LEMMA UnownedUnlocked ==
  ASSUME IndInv, NEW h \in Heads, h \notin owned
  PROVE  hw[h] = None
<1>h. TypesOK /\ CallsOK /\ HwOK /\ TargetsOK
  BY DEF IndInv, LookInv, HeadInv
<1>1. SUFFICES ASSUME NEW q \in Procs, hw[h] = q PROVE FALSE
  BY <1>h DEF TypesOK
<1>2. pc[q] \in {"newmount", "link", "ufree"} /\ m[q] = h
  BY <1>h, <1>1 DEF HwOK
<1>3. CASE pc[q] = "ufree"
  BY <1>2, <1>3 DEF owned, leaving
<1>4. CASE pc[q] \in {"newmount", "link"}
  <2>1. op[q].pt \in Points
    BY <1>h, <1>4, CallParts DEF TypesOK, CallsOK, Mounting
  <2>2. table[op[q].pt] = h
    BY <1>h, <1>2, <1>4 DEF TargetsOK, Mounting
  <2>3. QED
    BY <2>1, <2>2 DEF owned, linked
<1>5. QED
  BY <1>2, <1>3, <1>4

(* There is an Mhead for a bind that begins, and nothing is left of what it *)
(* was before.                                                              *)
LEMMA FreeHead ==
  ASSUME IndInv, NEW p \in Procs, pc[p] = "cmount", NEW h, h = newhead
  PROVE  /\ h \in Heads /\ ref[h] = 0 /\ users[h] = {} /\ h \notin owned /\ list[h] = <<>>
         /\ members[h] = {} /\ hw[h] = None
<1>h. TypesOK /\ RefsOK /\ ListsOK /\ RoomOK
  BY DEF IndInv, LookInv, HeadInv
<1>1. used # Heads
  <2>1. Cardinality(starting) # 0
    BY <1>h, CountMinus DEF starting, RoomOK
  <2>2. /\ Cardinality(used) \in Nat /\ Cardinality(starting) \in Nat /\ ops \in Nat
        /\ Cardinality(used) + Cardinality(starting) <= ops + 1
    BY <1>h, RoomCounts DEF RoomOK
  <2>3. Cardinality(Heads) \in Nat /\ MaxOps \in Nat /\ Cardinality(Heads) > MaxOps /\ ops <= MaxOps
    BY <1>h, NamespaceAssumption, FS_CardinalityType DEF TypesOK
  <2>4. QED
    BY <2>1, <2>2, <2>3
<1>2. PICK free : free = {g \in Heads : ref[g] = 0}
  OBVIOUS
<1>3. free # {} /\ free \subseteq Nat
  BY <1>1, <1>2, NamespaceAssumption DEF used
<1>4. h \in Heads /\ ref[h] = 0
  <2>1. PICK g \in free : \A k \in free : g <= k
    BY <1>3, Least
  <2>2. g \in Heads /\ ref[g] = 0 /\ \A k \in Heads : ref[k] = 0 => g <= k
    BY <1>2, <2>1
  <2>3. QED
    BY <2>2 DEF newhead
<1>5. users[h] = {} /\ h \notin owned
  BY <1>h, <1>4, RefsAre
<1>6. list[h] = <<>> /\ members[h] = {}
  BY <1>h, <1>4, <1>5, MembersAre DEF ListsOK
<1>7. hw[h] = None
  BY <1>4, <1>5, UnownedUnlocked
<1>8. QED
  BY <1>4, <1>5, <1>6, <1>7
-----------------------------------------------------------------------------
(* findmount takes pg->ns. *)
LEMMA FindLocksOK ==
  ASSUME IndInv, NEW p \in Procs, FindLocks(p)
  PROVE  IndInv' /\ LooksOn(p)
<1>h. TypesOK /\ CallsOK /\ LocalsOK /\ NsOK /\ HrOK /\ ReadersOK /\ MountsOK
  BY DEF IndInv, LookInv, HeadInv
<1>a. /\ pc[p] = "find" /\ pc' = [pc EXCEPT ![p] = "find2"]
      /\ nsw = None /\ nsr' = nsr \cup {p}
      /\ UNCHANGED <<table, ref, list, nsw, hw, hr, op, m, mh, f, c, new, mountid, ops, crash>>
  BY <1>h DEF FindLocks, heads, locals, Goto, Set
<1>p. /\ pc[p] = "find" /\ pc'[p] = "find2" /\ pc' \in [Procs -> Places]
      /\ \A q \in Procs : q # p => pc'[q] = pc[q]
      /\ DOMAIN f = Procs /\ DOMAIN hr = Heads
  BY <1>h, <1>a DEF TypesOK, Places, Looking, Found, Mounting, Copying
<1>s. members' = members
  BY <1>a DEF members
<1>b. Aside(p)
  BY <1>h, <1>p, <1>a DEF Aside, TypesOK, Changing, Mounting
<1>1. TypesOK'
  BY <1>h, <1>p, <1>a DEF TypesOK, Places, Looking, Found, Mounting, Copying
<1>2. CallsOK'
  BY <1>h, <1>p, <1>a DEF CallsOK, Mounting, Copying
<1>3. LocalsOK'
  BY <1>h, <1>p, <1>a DEF LocalsOK, Found, Mounting
<1>4. NsOK'
  BY <1>h, <1>p, <1>a, NoneApart DEF NsOK
<1>5. HrOK'
  BY <1>h, <1>p, <1>a DEF HrOK
<1>6. ReadersOK'
  BY <1>h, <1>p, <1>a, <1>s DEF ReadersOK
<1>7. HeadInv'
  BY <1>p, <1>a, <1>b, AsideHead
<1>8. LooksOn(p)
  BY <1>p, <1>a, <1>b DEF LooksOn, Looking, Found, Copying
<1>9. QED
  BY <1>1, <1>2, <1>3, <1>4, <1>5, <1>6, <1>7, <1>8 DEF IndInv, LookInv

(* findmount finds nothing mounted. *)
LEMMA FindsNoneOK ==
  ASSUME IndInv, NEW p \in Procs, FindsNone(p)
  PROVE  IndInv' /\ LooksOn(p)
<1>h. TypesOK /\ CallsOK /\ LocalsOK /\ NsOK /\ HrOK /\ ReadersOK /\ MountsOK
  BY DEF IndInv, LookInv, HeadInv
<1>a. /\ pc[p] = "find2" /\ pc' = [pc EXCEPT ![p] = "put"]
      /\ nsr' = nsr \ {p}
      /\ UNCHANGED <<table, ref, list, nsw, hw, hr, op, m, mh, f, c, new, mountid, ops, crash>>
  BY <1>h DEF FindsNone, heads, locals, Goto, Set
<1>p. /\ pc[p] = "find2" /\ pc'[p] = "put" /\ pc' \in [Procs -> Places]
      /\ \A q \in Procs : q # p => pc'[q] = pc[q]
      /\ DOMAIN f = Procs /\ DOMAIN hr = Heads
  BY <1>h, <1>a DEF TypesOK, Places, Looking, Found, Mounting, Copying
<1>s. members' = members
  BY <1>a DEF members
<1>b. Aside(p)
  BY <1>h, <1>p, <1>a DEF Aside, TypesOK, Changing, Mounting
<1>1. TypesOK'
  BY <1>h, <1>p, <1>a DEF TypesOK, Places, Looking, Found, Mounting, Copying
<1>2. CallsOK'
  BY <1>h, <1>p, <1>a DEF CallsOK, Mounting, Copying
<1>3. LocalsOK'
  BY <1>h, <1>p, <1>a DEF LocalsOK, Found, Mounting
<1>4. NsOK'
  BY <1>h, <1>p, <1>a, NoneApart DEF NsOK
<1>5. HrOK'
  BY <1>h, <1>p, <1>a DEF HrOK
<1>6. ReadersOK'
  BY <1>h, <1>p, <1>a, <1>s DEF ReadersOK
<1>7. HeadInv'
  BY <1>p, <1>a, <1>b, AsideHead
<1>8. LooksOn(p)
  BY <1>p, <1>a, <1>b DEF LooksOn, Looking, Found, Copying
<1>9. QED
  BY <1>1, <1>2, <1>3, <1>4, <1>5, <1>6, <1>7, <1>8 DEF IndInv, LookInv

(* walk finds the name in the first directory, or goes on. *)
LEMMA WalkFirstOK ==
  ASSUME IndInv, NEW p \in Procs, WalkFirst(p)
  PROVE  IndInv' /\ LooksOn(p)
<1>h. TypesOK /\ CallsOK /\ LocalsOK /\ NsOK /\ HrOK /\ ReadersOK /\ MountsOK
  BY DEF IndInv, LookInv, HeadInv
<1>a. /\ pc[p] = "walk"
      /\ pc' = [pc EXCEPT ![p] = "put"] \/ pc' = [pc EXCEPT ![p] = "ulock"]
      /\ UNCHANGED <<table, ref, list, nsw, nsr, hw, hr, op, m, mh, f, c, new, mountid, ops, crash>>
  BY <1>h DEF WalkFirst, locks, heads, locals, Goto, Set
<1>p. /\ pc[p] = "walk" /\ pc'[p] \in {"put", "ulock"} /\ pc' \in [Procs -> Places]
      /\ \A q \in Procs : q # p => pc'[q] = pc[q]
      /\ DOMAIN f = Procs /\ DOMAIN hr = Heads
  BY <1>h, <1>a DEF TypesOK, Places, Looking, Found, Mounting, Copying
<1>s. members' = members
  BY <1>a DEF members
<1>b. Aside(p)
  BY <1>h, <1>p, <1>a DEF Aside, TypesOK, Changing, Mounting
<1>1. TypesOK'
  BY <1>h, <1>p, <1>a DEF TypesOK, Places, Looking, Found, Mounting, Copying
<1>2. CallsOK'
  BY <1>h, <1>p, <1>a DEF CallsOK, Mounting, Copying
<1>3. LocalsOK'
  BY <1>h, <1>p, <1>a DEF LocalsOK, Found, Mounting
<1>4. NsOK'
  BY <1>h, <1>p, <1>a, NoneApart DEF NsOK
<1>5. HrOK'
  BY <1>h, <1>p, <1>a DEF HrOK
<1>6. ReadersOK'
  BY <1>h, <1>p, <1>a, <1>s DEF ReadersOK
<1>7. HeadInv'
  BY <1>p, <1>a, <1>b, AsideHead
<1>8. LooksOn(p)
  BY <1>p, <1>a, <1>b DEF LooksOn, Looking, Found, Copying
<1>9. QED
  BY <1>1, <1>2, <1>3, <1>4, <1>5, <1>6, <1>7, <1>8 DEF IndInv, LookInv

(* The lock of the Mhead is taken for reading. *)
LEMMA UnionLocksOK ==
  ASSUME IndInv, NEW p \in Procs, UnionLocks(p)
  PROVE  IndInv' /\ LooksOn(p)
<1>h. TypesOK /\ CallsOK /\ LocalsOK /\ NsOK /\ HrOK /\ ReadersOK /\ MountsOK
  BY DEF IndInv, LookInv, HeadInv
<1>a. /\ pc[p] = "ulock" /\ pc' = [pc EXCEPT ![p] = "union"]
      /\ mh[p] \in Heads /\ hw[mh[p]] = None
      /\ hr' = [hr EXCEPT ![mh[p]] = hr[mh[p]] \cup {p}]
      /\ f' = [f EXCEPT ![p] = At(mh[p], IF op[p].type = "walk" THEN 2 ELSE 1)]
      /\ crash' = "walk" \/ crash' = crash
      /\ UNCHANGED <<table, ref, list, nsw, nsr, hw, op, m, mh, c, new, mountid, ops>>
  BY <1>h DEF UnionLocks, Crash, TypesOK, LocalsOK, Found, heads, locals, Goto, Set
<1>p. /\ pc[p] = "ulock" /\ pc'[p] = "union" /\ pc' \in [Procs -> Places]
      /\ \A q \in Procs : q # p => pc'[q] = pc[q]
      /\ DOMAIN f = Procs /\ DOMAIN hr = Heads
  BY <1>h, <1>a DEF TypesOK, Places, Looking, Found, Mounting, Copying
<1>s. members' = members
  BY <1>a DEF members
<1>c. PICK i \in {1, 2} : f' = [f EXCEPT ![p] = At(mh[p], i)]
  BY <1>a
<1>d. At(mh[p], i) \in Mounts \cup {None} /\ (At(mh[p], i) # None => At(mh[p], i) \in members[mh[p]])
  BY <1>h, <1>a, AtInList
<1>b. Aside(p)
  BY <1>h, <1>p, <1>a DEF Aside, TypesOK, Changing, Mounting
<1>1. TypesOK'
  BY <1>h, <1>p, <1>a, <1>c, <1>d DEF TypesOK, Places, Looking, Found, Mounting, Copying
<1>2. CallsOK'
  BY <1>h, <1>p, <1>a DEF CallsOK, Mounting, Copying
<1>3. LocalsOK'
  BY <1>h, <1>p, <1>a DEF LocalsOK, Found, Mounting
<1>4. NsOK'
  BY <1>h, <1>p, <1>a, NoneApart DEF NsOK
<1>5. HrOK'
  BY <1>h, <1>p, <1>a DEF HrOK
<1>6. ReadersOK'
  <2>1. \A q \in Procs : q # p => pc'[q] = pc[q] /\ f'[q] = f[q]
    BY <1>h, <1>a, <1>c DEF TypesOK
  <2>2. f'[p] = At(mh[p], i)
    BY <1>h, <1>c DEF TypesOK
  <2>3. QED
    BY <1>h, <1>p, <1>a, <1>d, <1>s, <2>1, <2>2 DEF ReadersOK
<1>7. HeadInv'
  BY <1>p, <1>a, <1>b, AsideHead
<1>8. LooksOn(p)
  BY <1>p, <1>a, <1>b DEF LooksOn, Looking, Found, Copying
<1>9. QED
  BY <1>1, <1>2, <1>3, <1>4, <1>5, <1>6, <1>7, <1>8 DEF IndInv, LookInv

(* The next Mount of the union. *)
LEMMA UnionNextOK ==
  ASSUME IndInv, NEW p \in Procs, UnionNext(p)
  PROVE  IndInv' /\ LooksOn(p)
<1>h. TypesOK /\ CallsOK /\ LocalsOK /\ NsOK /\ HrOK /\ ReadersOK /\ MountsOK
  BY DEF IndInv, LookInv, HeadInv
<1>a. /\ pc[p] = "union" /\ pc' = [pc EXCEPT ![p] = "union"] /\ mh[p] \in Heads
      /\ f[p] # None /\ f[p] \in members[mh[p]]
      /\ UNCHANGED <<table, ref, list, nsw, nsr, hw, hr, op, m, mh, c, new, mountid, ops>>
  BY <1>h DEF UnionNext, locks, TypesOK, LocalsOK, ReadersOK, Found, heads, locals, Goto, Set
<1>p. /\ pc[p] = "union" /\ pc'[p] = "union" /\ pc' \in [Procs -> Places]
      /\ \A q \in Procs : q # p => pc'[q] = pc[q]
      /\ DOMAIN f = Procs /\ DOMAIN hr = Heads
  BY <1>h, <1>a DEF TypesOK, Places, Looking, Found, Mounting, Copying
<1>s. members' = members
  BY <1>a DEF members
<1>c. PICK x : x = NextOf(f[p])
  OBVIOUS
<1>d. Live(f[p]) /\ (x = None \/ x \in members[mh[p]]) /\ x \in Mounts \cup {None}
  BY <1>h, <1>a, <1>c, NextInList, MembersAre
<1>e. f' = [f EXCEPT ![p] = x] /\ crash' = crash
  BY <1>c, <1>d DEF UnionNext, Set
<1>b. Aside(p)
  BY <1>h, <1>p, <1>a DEF Aside, TypesOK, Changing, Mounting
<1>1. TypesOK'
  BY <1>h, <1>p, <1>a, <1>d, <1>e DEF TypesOK, Places, Looking, Found, Mounting, Copying
<1>2. CallsOK'
  BY <1>h, <1>p, <1>a DEF CallsOK, Mounting, Copying
<1>3. LocalsOK'
  BY <1>h, <1>p, <1>a, <1>e DEF LocalsOK, Found, Mounting
<1>4. NsOK'
  BY <1>h, <1>p, <1>a, NoneApart DEF NsOK
<1>5. HrOK'
  BY <1>h, <1>p, <1>a DEF HrOK
<1>6. ReadersOK'
  <2>1. \A q \in Procs : q # p => pc'[q] = pc[q] /\ f'[q] = f[q]
    BY <1>h, <1>a, <1>e DEF TypesOK
  <2>2. f'[p] = x
    BY <1>h, <1>e DEF TypesOK
  <2>3. QED
    BY <1>h, <1>p, <1>a, <1>d, <1>s, <2>1, <2>2 DEF ReadersOK
<1>7. HeadInv'
  BY <1>p, <1>a, <1>b, AsideHead
<1>8. LooksOn(p)
  BY <1>p, <1>a, <1>b DEF LooksOn, Looking, Found, Copying
<1>9. QED
  BY <1>1, <1>2, <1>3, <1>4, <1>5, <1>6, <1>7, <1>8 DEF IndInv, LookInv

(* The lock of the Mhead is let go. *)
LEMMA UnionUnlocksOK ==
  ASSUME IndInv, NEW p \in Procs, UnionUnlocks(p)
  PROVE  IndInv' /\ LooksOn(p)
<1>h. TypesOK /\ CallsOK /\ LocalsOK /\ NsOK /\ HrOK /\ ReadersOK /\ MountsOK
  BY DEF IndInv, LookInv, HeadInv
<1>a. /\ pc[p] = "union" /\ mh[p] \in Heads
      /\ \/ pc' = [pc EXCEPT ![p] = "type"] /\ op[p].type = "walk" /\ f[p] # None
         \/ pc' = [pc EXCEPT ![p] = "put"]
      /\ hr' = [hr EXCEPT ![mh[p]] = hr[mh[p]] \ {p}]
      /\ UNCHANGED <<table, ref, list, nsw, nsr, hw, op, m, mh, f, c, new, mountid, ops, crash>>
  BY <1>h DEF UnionUnlocks, TypesOK, LocalsOK, Found, heads, locals, Goto, Set
<1>p. /\ pc[p] = "union" /\ pc'[p] \in {"type", "put"} /\ pc' \in [Procs -> Places]
      /\ \A q \in Procs : q # p => pc'[q] = pc[q]
      /\ DOMAIN f = Procs /\ DOMAIN hr = Heads
  BY <1>h, <1>a DEF TypesOK, Places, Looking, Found, Mounting, Copying
<1>s. members' = members
  BY <1>a DEF members
<1>b. Aside(p)
  BY <1>h, <1>p, <1>a DEF Aside, TypesOK, Changing, Mounting
<1>1. TypesOK'
  BY <1>h, <1>p, <1>a DEF TypesOK, Places, Looking, Found, Mounting, Copying
<1>2. CallsOK'
  BY <1>h, <1>p, <1>a DEF CallsOK, Mounting, Copying
<1>3. LocalsOK'
  BY <1>h, <1>p, <1>a DEF LocalsOK, Found, Mounting
<1>4. NsOK'
  BY <1>h, <1>p, <1>a, NoneApart DEF NsOK
<1>5. HrOK'
  BY <1>h, <1>p, <1>a DEF HrOK
<1>6. ReadersOK'
  BY <1>h, <1>p, <1>a, <1>s DEF ReadersOK
<1>7. HeadInv'
  BY <1>p, <1>a, <1>b, AsideHead
<1>8. LooksOn(p)
  BY <1>p, <1>a, <1>b DEF LooksOn, Looking, Found, Copying
<1>9. QED
  BY <1>1, <1>2, <1>3, <1>4, <1>5, <1>6, <1>7, <1>8 DEF IndInv, LookInv

(* walk looks at the Mount once more. *)
LEMMA WalkTypeOK ==
  ASSUME IndInv, NEW p \in Procs, WalkType(p)
  PROVE  IndInv' /\ LooksOn(p)
<1>h. TypesOK /\ CallsOK /\ LocalsOK /\ NsOK /\ HrOK /\ ReadersOK /\ MountsOK
  BY DEF IndInv, LookInv, HeadInv
<1>a. /\ pc[p] = "type" /\ pc' = [pc EXCEPT ![p] = "put"]
      /\ crash' = "type" \/ crash' = crash
      /\ UNCHANGED <<table, ref, list, nsw, nsr, hw, hr, op, m, mh, f, c, new, mountid, ops>>
  BY <1>h DEF WalkType, Crash, locks, heads, locals, Goto, Set
<1>p. /\ pc[p] = "type" /\ pc'[p] = "put" /\ pc' \in [Procs -> Places]
      /\ \A q \in Procs : q # p => pc'[q] = pc[q]
      /\ DOMAIN f = Procs /\ DOMAIN hr = Heads
  BY <1>h, <1>a DEF TypesOK, Places, Looking, Found, Mounting, Copying
<1>s. members' = members
  BY <1>a DEF members
<1>b. Aside(p)
  BY <1>h, <1>p, <1>a DEF Aside, TypesOK, Changing, Mounting
<1>1. TypesOK'
  BY <1>h, <1>p, <1>a DEF TypesOK, Places, Looking, Found, Mounting, Copying
<1>2. CallsOK'
  BY <1>h, <1>p, <1>a DEF CallsOK, Mounting, Copying
<1>3. LocalsOK'
  BY <1>h, <1>p, <1>a DEF LocalsOK, Found, Mounting
<1>4. NsOK'
  BY <1>h, <1>p, <1>a, NoneApart DEF NsOK
<1>5. HrOK'
  BY <1>h, <1>p, <1>a DEF HrOK
<1>6. ReadersOK'
  BY <1>h, <1>p, <1>a, <1>s DEF ReadersOK
<1>7. HeadInv'
  BY <1>p, <1>a, <1>b, AsideHead
<1>8. LooksOn(p)
  BY <1>p, <1>a, <1>b DEF LooksOn, Looking, Found, Copying
<1>9. QED
  BY <1>1, <1>2, <1>3, <1>4, <1>5, <1>6, <1>7, <1>8 DEF IndInv, LookInv

(* namec looks at m->mount. *)
LEMMA OpenLooksOK ==
  ASSUME IndInv, NEW p \in Procs, OpenLooks(p)
  PROVE  IndInv' /\ LooksOn(p)
<1>h. TypesOK /\ CallsOK /\ LocalsOK /\ NsOK /\ HrOK /\ ReadersOK /\ MountsOK
  BY DEF IndInv, LookInv, HeadInv
<1>a. /\ pc[p] = "open" /\ pc' = [pc EXCEPT ![p] = "open2"]
      /\ mh[p] \in Heads /\ f' = [f EXCEPT ![p] = At(mh[p], 1)]
      /\ UNCHANGED <<table, ref, list, nsw, nsr, hw, hr, op, m, mh, c, new, mountid, ops, crash>>
  BY <1>h DEF OpenLooks, locks, TypesOK, LocalsOK, Found, heads, locals, Goto, Set
<1>p. /\ pc[p] = "open" /\ pc'[p] = "open2" /\ pc' \in [Procs -> Places]
      /\ \A q \in Procs : q # p => pc'[q] = pc[q]
      /\ DOMAIN f = Procs /\ DOMAIN hr = Heads
  BY <1>h, <1>a DEF TypesOK, Places, Looking, Found, Mounting, Copying
<1>s. members' = members
  BY <1>a DEF members
<1>d. At(mh[p], 1) \in Mounts \cup {None}
  BY <1>h, <1>a, AtInList
<1>b. Aside(p)
  BY <1>h, <1>p, <1>a DEF Aside, TypesOK, Changing, Mounting
<1>1. TypesOK'
  BY <1>h, <1>p, <1>a, <1>d DEF TypesOK, Places, Looking, Found, Mounting, Copying
<1>2. CallsOK'
  BY <1>h, <1>p, <1>a DEF CallsOK, Mounting, Copying
<1>3. LocalsOK'
  BY <1>h, <1>p, <1>a DEF LocalsOK, Found, Mounting
<1>4. NsOK'
  BY <1>h, <1>p, <1>a, NoneApart DEF NsOK
<1>5. HrOK'
  BY <1>h, <1>p, <1>a DEF HrOK
<1>6. ReadersOK'
  BY <1>h, <1>p, <1>a, <1>s DEF ReadersOK
<1>7. HeadInv'
  BY <1>p, <1>a, <1>b, AsideHead
<1>8. LooksOn(p)
  BY <1>p, <1>a, <1>b DEF LooksOn, Looking, Found, Copying
<1>9. QED
  BY <1>1, <1>2, <1>3, <1>4, <1>5, <1>6, <1>7, <1>8 DEF IndInv, LookInv

(* namec looks at m->mount->next, and keeps a union. *)
LEMMA OpenKeepsOK ==
  ASSUME IndInv, NEW p \in Procs, OpenKeeps(p)
  PROVE  IndInv' /\ LooksOn(p)
<1>h. TypesOK /\ CallsOK /\ LocalsOK /\ NsOK /\ HrOK /\ ReadersOK /\ MountsOK
  BY DEF IndInv, LookInv, HeadInv
<1>a. /\ pc[p] = "open2"
      /\ pc' = [pc EXCEPT ![p] = "put"] \/ pc' = [pc EXCEPT ![p] = "ulock"]
      /\ crash' = "open" \/ crash' = crash
      /\ UNCHANGED <<table, ref, list, nsw, nsr, hw, hr, op, m, mh, f, c, new, mountid, ops>>
  BY <1>h DEF OpenKeeps, Crash, locks, heads, locals, Goto, Set
<1>p. /\ pc[p] = "open2" /\ pc'[p] \in {"put", "ulock"} /\ pc' \in [Procs -> Places]
      /\ \A q \in Procs : q # p => pc'[q] = pc[q]
      /\ DOMAIN f = Procs /\ DOMAIN hr = Heads
  BY <1>h, <1>a DEF TypesOK, Places, Looking, Found, Mounting, Copying
<1>s. members' = members
  BY <1>a DEF members
<1>b. Aside(p)
  BY <1>h, <1>p, <1>a DEF Aside, TypesOK, Changing, Mounting
<1>1. TypesOK'
  BY <1>h, <1>p, <1>a DEF TypesOK, Places, Looking, Found, Mounting, Copying
<1>2. CallsOK'
  BY <1>h, <1>p, <1>a DEF CallsOK, Mounting, Copying
<1>3. LocalsOK'
  BY <1>h, <1>p, <1>a DEF LocalsOK, Found, Mounting
<1>4. NsOK'
  BY <1>h, <1>p, <1>a, NoneApart DEF NsOK
<1>5. HrOK'
  BY <1>h, <1>p, <1>a DEF HrOK
<1>6. ReadersOK'
  BY <1>h, <1>p, <1>a, <1>s DEF ReadersOK
<1>7. HeadInv'
  BY <1>p, <1>a, <1>b, AsideHead
<1>8. LooksOn(p)
  BY <1>p, <1>a, <1>b DEF LooksOn, Looking, Found, Copying
<1>9. QED
  BY <1>1, <1>2, <1>3, <1>4, <1>5, <1>6, <1>7, <1>8 DEF IndInv, LookInv

(* undomount takes pg->ns. *)
LEMMA UndoLocksOK ==
  ASSUME IndInv, NEW p \in Procs, UndoLocks(p)
  PROVE  IndInv' /\ LooksOn(p)
<1>h. TypesOK /\ CallsOK /\ LocalsOK /\ NsOK /\ HrOK /\ ReadersOK /\ MountsOK
  BY DEF IndInv, LookInv, HeadInv
<1>a. /\ pc[p] = "undomount" /\ pc' = [pc EXCEPT ![p] = "undo"]
      /\ nsw = None /\ nsr' = nsr \cup {p}
      /\ f' = [f EXCEPT ![p] = IF table[op[p].pt] = None THEN None ELSE At(table[op[p].pt], 1)]
      /\ UNCHANGED <<table, ref, list, nsw, hw, hr, op, m, mh, c, new, mountid, ops, crash>>
  BY <1>h DEF UndoLocks, heads, locals, Goto, Set
<1>p. /\ pc[p] = "undomount" /\ pc'[p] = "undo" /\ pc' \in [Procs -> Places]
      /\ \A q \in Procs : q # p => pc'[q] = pc[q]
      /\ DOMAIN f = Procs /\ DOMAIN hr = Heads
  BY <1>h, <1>a DEF TypesOK, Places, Looking, Found, Mounting, Copying
<1>s. members' = members
  BY <1>a DEF members
<1>e. op[p].pt \in Points
  BY <1>h, <1>p, CallParts DEF TypesOK, CallsOK
<1>c. PICK x : x = IF table[op[p].pt] = None THEN None ELSE At(table[op[p].pt], 1)
  OBVIOUS
<1>d. x \in Mounts \cup {None} /\ f' = [f EXCEPT ![p] = x]
  BY <1>h, <1>a, <1>c, <1>e, AtInList DEF TypesOK
<1>b. Aside(p)
  BY <1>h, <1>p, <1>a DEF Aside, TypesOK, Changing, Mounting
<1>1. TypesOK'
  BY <1>h, <1>p, <1>a, <1>d DEF TypesOK, Places, Looking, Found, Mounting, Copying
<1>2. CallsOK'
  BY <1>h, <1>p, <1>a DEF CallsOK, Mounting, Copying
<1>3. LocalsOK'
  BY <1>h, <1>p, <1>a DEF LocalsOK, Found, Mounting
<1>4. NsOK'
  BY <1>h, <1>p, <1>a, NoneApart DEF NsOK
<1>5. HrOK'
  BY <1>h, <1>p, <1>a DEF HrOK
<1>6. ReadersOK'
  BY <1>h, <1>p, <1>a, <1>s DEF ReadersOK
<1>7. HeadInv'
  BY <1>p, <1>a, <1>b, AsideHead
<1>8. LooksOn(p)
  BY <1>p, <1>a, <1>b DEF LooksOn, Looking, Found, Copying
<1>9. QED
  BY <1>1, <1>2, <1>3, <1>4, <1>5, <1>6, <1>7, <1>8 DEF IndInv, LookInv

(* undomount looks at the next Mount. *)
LEMMA UndoLooksOK ==
  ASSUME IndInv, NEW p \in Procs, UndoLooks(p)
  PROVE  IndInv' /\ LooksOn(p)
<1>h. TypesOK /\ CallsOK /\ LocalsOK /\ NsOK /\ HrOK /\ ReadersOK /\ MountsOK
  BY DEF IndInv, LookInv, HeadInv
<1>a. /\ pc[p] = "undo" /\ pc' = [pc EXCEPT ![p] = "undo"]
      /\ \/ f' = f /\ crash' = "undomount"
         \/ Live(f[p]) /\ f' = [f EXCEPT ![p] = NextOf(f[p])] /\ crash' = crash
      /\ UNCHANGED <<table, ref, list, nsw, nsr, hw, hr, op, m, mh, c, new, mountid, ops>>
  BY <1>h DEF UndoLooks, Crash, locks, heads, locals, Goto, Set
<1>p. /\ pc[p] = "undo" /\ pc'[p] = "undo" /\ pc' \in [Procs -> Places]
      /\ \A q \in Procs : q # p => pc'[q] = pc[q]
      /\ DOMAIN f = Procs /\ DOMAIN hr = Heads
  BY <1>h, <1>a DEF TypesOK, Places, Looking, Found, Mounting, Copying
<1>s. members' = members
  BY <1>a DEF members
<1>c. Live(f[p]) => NextOf(f[p]) \in Mounts \cup {None}
  BY <1>h, NextOfLive
<1>d. f' \in [Procs -> Mounts \cup {None}] /\ crash' \in {crash, "undomount"}
  BY <1>h, <1>a, <1>c DEF TypesOK
<1>b. Aside(p)
  BY <1>h, <1>p, <1>a DEF Aside, TypesOK, Changing, Mounting
<1>1. TypesOK'
  BY <1>h, <1>p, <1>a, <1>d DEF TypesOK
<1>2. CallsOK'
  BY <1>h, <1>p, <1>a DEF CallsOK, Mounting, Copying
<1>3. LocalsOK'
  BY <1>h, <1>p, <1>a DEF LocalsOK, Found, Mounting
<1>4. NsOK'
  BY <1>h, <1>p, <1>a, NoneApart DEF NsOK
<1>5. HrOK'
  BY <1>h, <1>p, <1>a DEF HrOK
<1>6. ReadersOK'
  BY <1>h, <1>p, <1>a, <1>s DEF ReadersOK
<1>7. HeadInv'
  BY <1>p, <1>a, <1>b, AsideHead
<1>8. LooksOn(p)
  BY <1>p, <1>a, <1>b DEF LooksOn, Looking, Found, Copying
<1>9. QED
  BY <1>1, <1>2, <1>3, <1>4, <1>5, <1>6, <1>7, <1>8 DEF IndInv, LookInv

(* undomount lets pg->ns go. *)
LEMMA UndoUnlocksOK ==
  ASSUME IndInv, NEW p \in Procs, UndoUnlocks(p)
  PROVE  IndInv' /\ LooksOn(p)
<1>h. TypesOK /\ CallsOK /\ LocalsOK /\ NsOK /\ HrOK /\ ReadersOK /\ MountsOK
  BY DEF IndInv, LookInv, HeadInv
<1>a. /\ pc[p] = "undo" /\ pc' = [pc EXCEPT ![p] = "put"]
      /\ nsr' = nsr \ {p}
      /\ UNCHANGED <<table, ref, list, nsw, hw, hr, op, m, mh, f, c, new, mountid, ops, crash>>
  BY <1>h DEF UndoUnlocks, heads, locals, Goto, Set
<1>p. /\ pc[p] = "undo" /\ pc'[p] = "put" /\ pc' \in [Procs -> Places]
      /\ \A q \in Procs : q # p => pc'[q] = pc[q]
      /\ DOMAIN f = Procs /\ DOMAIN hr = Heads
  BY <1>h, <1>a DEF TypesOK, Places, Looking, Found, Mounting, Copying
<1>s. members' = members
  BY <1>a DEF members
<1>b. Aside(p)
  BY <1>h, <1>p, <1>a DEF Aside, TypesOK, Changing, Mounting
<1>1. TypesOK'
  BY <1>h, <1>p, <1>a DEF TypesOK, Places, Looking, Found, Mounting, Copying
<1>2. CallsOK'
  BY <1>h, <1>p, <1>a DEF CallsOK, Mounting, Copying
<1>3. LocalsOK'
  BY <1>h, <1>p, <1>a DEF LocalsOK, Found, Mounting
<1>4. NsOK'
  BY <1>h, <1>p, <1>a, NoneApart DEF NsOK
<1>5. HrOK'
  BY <1>h, <1>p, <1>a DEF HrOK
<1>6. ReadersOK'
  BY <1>h, <1>p, <1>a, <1>s DEF ReadersOK
<1>7. HeadInv'
  BY <1>p, <1>a, <1>b, AsideHead
<1>8. LooksOn(p)
  BY <1>p, <1>a, <1>b DEF LooksOn, Looking, Found, Copying
<1>9. QED
  BY <1>1, <1>2, <1>3, <1>4, <1>5, <1>6, <1>7, <1>8 DEF IndInv, LookInv

(* pgrpcpy lets pg->ns go. *)
LEMMA CopyUnlocksOK ==
  ASSUME IndInv, NEW p \in Procs, CopyUnlocks(p)
  PROVE  IndInv' /\ LooksOn(p)
<1>h. TypesOK /\ CallsOK /\ LocalsOK /\ NsOK /\ HrOK /\ ReadersOK /\ MountsOK
  BY DEF IndInv, LookInv, HeadInv
<1>a. /\ pc[p] = "copied" /\ pc' = [pc EXCEPT ![p] = "put"]
      /\ nsw' = None
      /\ UNCHANGED <<table, ref, list, nsr, hw, hr, op, m, mh, f, c, new, mountid, ops, crash>>
  BY <1>h DEF CopyUnlocks, heads, locals, Goto, Set
<1>p. /\ pc[p] = "copied" /\ pc'[p] = "put" /\ pc' \in [Procs -> Places]
      /\ \A q \in Procs : q # p => pc'[q] = pc[q]
      /\ DOMAIN f = Procs /\ DOMAIN hr = Heads
  BY <1>h, <1>a DEF TypesOK, Places, Looking, Found, Mounting, Copying
<1>s. members' = members
  BY <1>a DEF members
<1>b. Aside(p)
  BY <1>h, <1>p, <1>a DEF Aside, TypesOK, Changing, Mounting
<1>1. TypesOK'
  BY <1>h, <1>p, <1>a DEF TypesOK, Places, Looking, Found, Mounting, Copying
<1>2. CallsOK'
  BY <1>h, <1>p, <1>a DEF CallsOK, Mounting, Copying
<1>3. LocalsOK'
  BY <1>h, <1>p, <1>a DEF LocalsOK, Found, Mounting
<1>4. NsOK'
  BY <1>h, <1>p, <1>a, NoneApart DEF NsOK, TypesOK
<1>5. HrOK'
  BY <1>h, <1>p, <1>a DEF HrOK
<1>6. ReadersOK'
  BY <1>h, <1>p, <1>a, <1>s DEF ReadersOK
<1>7. HeadInv'
  BY <1>p, <1>a, <1>b, AsideHead
<1>8. LooksOn(p)
  BY <1>p, <1>a, <1>b DEF LooksOn, Looking, Found, Copying
<1>9. QED
  BY <1>1, <1>2, <1>3, <1>4, <1>5, <1>6, <1>7, <1>8 DEF IndInv, LookInv

(* A process begins a call. *)
LEMMA CallOK ==
  ASSUME IndInv, NEW p \in Procs, NEW o \in Ops, Call(p, o)
  PROVE  IndInv' /\ Aside(p)
<1>h. TypesOK /\ CallsOK /\ LocalsOK /\ NsOK /\ HrOK /\ ReadersOK /\ MountsOK
  BY DEF IndInv, LookInv, HeadInv
<1>a. /\ pc[p] = "idle" /\ pc' = [pc EXCEPT ![p] = Starts(o)]
      /\ op' = [op EXCEPT ![p] = o] /\ ops' = ops + 1 /\ ops < MaxOps
      /\ UNCHANGED <<table, ref, list, nsw, nsr, hw, hr, m, mh, f, c, new, mountid, crash>>
  BY <1>h DEF Call, locks, heads, Goto, Set
<1>p. /\ pc[p] = "idle" /\ pc'[p] = Starts(o) /\ pc' \in [Procs -> Places]
      /\ \A q \in Procs : q # p => pc'[q] = pc[q]
      /\ DOMAIN f = Procs /\ DOMAIN hr = Heads
  BY <1>h, <1>a, StartsAre DEF TypesOK, Places, Looking, Found, Mounting, Copying
<1>s. members' = members
  BY <1>a DEF members
<1>o. op'[p] = o /\ (\A q \in Procs : q # p => op'[q] = op[q]) /\ op' \in [Procs -> Ops \cup {None}]
  BY <1>h, <1>a DEF TypesOK
<1>c. /\ \/ o.type = "bind" /\ pc'[p] = "cmount"
         \/ o.type = "unmount" /\ pc'[p] = "cunmount"
         \/ o.type = "dotdot" /\ pc'[p] = "undomount"
         \/ o.type = "copy" /\ pc'[p] = "pgrpcpy"
         \/ o.type \in {"walk", "create", "open"} /\ pc'[p] = "find"
      /\ o # None
  BY <1>p, StartsAre, NoneApart
<1>b. Aside(p)
  BY <1>h, <1>p, <1>a, <1>o, <1>c DEF Aside, TypesOK, Changing, Mounting
<1>1. TypesOK'
  BY <1>h, <1>p, <1>a, <1>o, NamespaceAssumption DEF TypesOK
<1>2. CallsOK'
  BY <1>h, <1>p, <1>o, <1>c DEF CallsOK, Mounting, Copying
<1>3. LocalsOK'
  BY <1>h, <1>p, <1>a, <1>o, <1>c DEF LocalsOK, Found, Mounting
<1>4. NsOK'
  BY <1>h, <1>p, <1>a, <1>c DEF NsOK
<1>5. HrOK'
  BY <1>h, <1>p, <1>a, <1>c DEF HrOK
<1>6. ReadersOK'
  BY <1>h, <1>p, <1>a, <1>s, <1>c DEF ReadersOK
<1>7. HeadInv'
  <2>h. RefsOK /\ RoomOK
    BY DEF IndInv, HeadInv
  <2>1. users' = users /\ used' = used /\ owned' = owned
    BY <1>a, <1>b, AsideSets DEF users, used
  <2>2. RefsOK'
    BY <1>a, <2>h, <2>1 DEF RefsOK
  <2>3. starting' = starting \/ (starting' = starting \cup {p} /\ p \notin starting)
    BY <1>p DEF starting
  <2>4. RoomOK'
    BY <1>h, <1>a, <2>h, <2>1, <2>3, RoomCounts, CountPlus DEF RoomOK
  <2>5. QED
    BY <1>b, <2>2, <2>4, AsideOK DEF HeadInv
<1>8. QED
  BY <1>1, <1>2, <1>3, <1>4, <1>5, <1>6, <1>7, <1>b DEF IndInv, LookInv

(* The end of a call, which puts the reference it has. *)
LEMMA ReturnOK ==
  ASSUME IndInv, NEW p \in Procs, Return(p)
  PROVE  IndInv' /\ Aside(p)
<1>h. TypesOK /\ CallsOK /\ LocalsOK /\ NsOK /\ HrOK /\ ReadersOK /\ MountsOK
  BY DEF IndInv, LookInv, HeadInv
<1>a. /\ pc[p] = "put" /\ pc' = [pc EXCEPT ![p] = "idle"]
      /\ putmhead(mh[p])
      /\ op' = [op EXCEPT ![p] = None] /\ mh' = [mh EXCEPT ![p] = None] /\ m' = [m EXCEPT ![p] = None]
      /\ f' = [f EXCEPT ![p] = None] /\ c' = [c EXCEPT ![p] = None] /\ new' = [new EXCEPT ![p] = <<>>]
      /\ UNCHANGED <<table, list, nsw, nsr, hw, hr, mountid, ops, crash>>
  BY <1>h DEF Return, locks, heads, Goto, Set
<1>p. /\ pc[p] = "put" /\ pc'[p] = "idle" /\ pc' \in [Procs -> Places]
      /\ \A q \in Procs : q # p => pc'[q] = pc[q]
      /\ DOMAIN f = Procs /\ DOMAIN hr = Heads
  BY <1>h, <1>a DEF TypesOK, Places, Looking, Found, Mounting, Copying
<1>s. members' = members
  BY <1>a DEF members
<1>o. /\ op'[p] = None /\ mh'[p] = None /\ c'[p] = None /\ f'[p] = None /\ new'[p] = <<>>
      /\ \A q \in Procs : q # p => /\ op'[q] = op[q] /\ mh'[q] = mh[q] /\ m'[q] = m[q]
                                   /\ f'[q] = f[q] /\ c'[q] = c[q] /\ new'[q] = new[q]
  BY <1>h, <1>a DEF TypesOK
<1>b. Aside(p)
  BY <1>h, <1>p, <1>a, <1>o DEF Aside, TypesOK, Changing, Mounting
<1>i. RefsOK /\ RoomOK
  BY DEF IndInv, HeadInv
<1>r. /\ RefsOK' /\ ref' \in [Heads -> Nat] /\ used' \subseteq used
  BY <1>h, <1>a, <1>i, <1>b, <1>o, PutRef
<1>1. TypesOK'
  <2>1. /\ op' \in [Procs -> Ops \cup {None}] /\ mh' \in [Procs -> Heads \cup {None}]
        /\ f' \in [Procs -> Mounts \cup {None}] /\ c' \in [Procs -> Points \cup Dirs \cup {None}]
        /\ m' = [q \in Procs |-> m'[q]] /\ new' = [q \in Procs |-> new'[q]]
    BY <1>h, <1>a DEF TypesOK
  <2>2. QED
    BY <1>h, <1>p, <1>a, <1>r, <2>1 DEF TypesOK
<1>2. CallsOK'
  BY <1>h, <1>p, <1>o DEF CallsOK, Mounting, Copying
<1>3. LocalsOK'
  BY <1>h, <1>p, <1>o DEF LocalsOK, Found, Mounting
<1>4. NsOK'
  BY <1>h, <1>p, <1>a, NoneApart DEF NsOK
<1>5. HrOK'
  BY <1>h, <1>p, <1>a, <1>o DEF HrOK
<1>6. ReadersOK'
  BY <1>h, <1>p, <1>o, <1>s DEF ReadersOK
<1>7. HeadInv'
  <2>1. starting' = starting
    BY <1>p DEF starting
  <2>2. Cardinality(used') <= Cardinality(used) /\ Cardinality(used') \in Nat
    BY <1>h, <1>i, <1>r, RoomCounts, FS_Subset, FS_CardinalityType
  <2>3. RoomOK'
    BY <1>h, <1>i, <1>a, <2>1, <2>2, RoomCounts DEF RoomOK
  <2>4. QED
    BY <1>b, <1>r, <2>3, AsideOK DEF HeadInv
<1>8. QED
  BY <1>1, <1>2, <1>3, <1>4, <1>5, <1>6, <1>7, <1>b DEF IndInv, LookInv

(* findmount finds an Mhead: it has a Mount, and gets a reference. *)
LEMMA findmountOK ==
  ASSUME IndInv, NEW p \in Procs, findmount(p)
  PROVE  IndInv' /\ LooksOn(p)
<1>h. TypesOK /\ CallsOK /\ LocalsOK /\ NsOK /\ HrOK /\ ReadersOK /\ MountsOK
  BY DEF IndInv, LookInv, HeadInv
<1>g. PICK h : h = table[op[p].pt]
  OBVIOUS
<1>a. /\ pc[p] = "find2" /\ pc' = [pc EXCEPT ![p] = After(p)] /\ nsr' = nsr \ {p}
      /\ h # None /\ hw[h] = None
      /\ UNCHANGED <<table, list, nsw, hw, hr, op, m, f, new, mountid, ops>>
  BY <1>h, <1>g DEF findmount, Goto, Set
<1>p. /\ pc[p] = "find2" /\ pc'[p] = After(p) /\ pc' \in [Procs -> Places]
      /\ \A q \in Procs : q # p => pc'[q] = pc[q]
      /\ DOMAIN f = Procs /\ DOMAIN hr = Heads
  BY <1>h, <1>a DEF TypesOK, After, CallsOK, Places, Looking, Found, Mounting, Copying
<1>s. members' = members
  BY <1>a DEF members
<1>d. /\ h \in Heads /\ h \in linked /\ h \in owned /\ p \in nsr /\ nsw = None
  <2>1. op[p].pt \in Points
    BY <1>h, <1>p, CallParts DEF TypesOK, CallsOK
  <2>2. h \in Heads /\ h \in linked
    BY <1>h, <1>a, <1>g, <2>1 DEF TypesOK, linked
  <2>3. p \in nsr /\ nsw = None
    BY <1>h, <1>p DEF NsOK
  <2>4. QED
    BY <2>2, <2>3 DEF owned
<1>e. list[h] # <<>>
  BY <1>a, <1>d, FoundFull
<1>c. PICK d : d = list[h][1].to
  OBVIOUS
<1>i. d \in Points \cup Dirs
  <2>1. 1 \in 1..Len(list[h])
    BY <1>h, <1>d, <1>e, MembersAre
  <2>2. list[h][1] \in Mounts
    BY <1>h, <1>d, <2>1 DEF TypesOK
  <2>3. QED
    BY <1>c, <2>2 DEF Mounts
<1>j. /\ ref' = [ref EXCEPT ![h] = ref[h] + 1] /\ mh' = [mh EXCEPT ![p] = h] /\ c' = [c EXCEPT ![p] = d]
      /\ crash' = crash
  BY <1>c, <1>e, <1>g DEF findmount, Set
<1>k. /\ mh'[p] = h /\ mh[p] = None /\ mh' \in [Procs -> Heads \cup {None}]
      /\ c' \in [Procs -> Points \cup Dirs \cup {None}]
      /\ \A q \in Procs : q # p => mh'[q] = mh[q] /\ c'[q] = c[q]
  BY <1>h, <1>d, <1>i, <1>j, <1>p DEF TypesOK, LocalsOK, Found
<1>l. \/ op[p].type = "walk" /\ pc'[p] = "walk"
      \/ op[p].type = "create" /\ pc'[p] = "ulock"
      \/ op[p].type = "open" /\ pc'[p] = "open"
  BY <1>h, <1>p DEF After, CallsOK
<1>b. Aside(p)
  BY <1>h, <1>p, <1>a, <1>k, <1>l DEF Aside, TypesOK, Changing, Mounting
<1>r. RefsOK' /\ ref' \in [Heads -> Nat] /\ used' = used
  <2>1. RefsOK
    BY DEF IndInv, HeadInv
  <2>2. QED
    BY <1>h, <1>b, <1>d, <1>j, <1>k, <2>1, TakeRef
<1>1. TypesOK'
  BY <1>h, <1>p, <1>a, <1>j, <1>k, <1>r DEF TypesOK
<1>2. CallsOK'
  BY <1>h, <1>p, <1>a, <1>l DEF CallsOK, Mounting, Copying
<1>3. LocalsOK'
  BY <1>h, <1>p, <1>a, <1>d, <1>k, <1>l, NoneApart DEF LocalsOK, Found, Mounting
<1>4. NsOK'
  BY <1>h, <1>p, <1>a, <1>l DEF NsOK
<1>5. HrOK'
  BY <1>h, <1>p, <1>a, <1>k, <1>l DEF HrOK
<1>6. ReadersOK'
  BY <1>h, <1>p, <1>a, <1>s, <1>k, <1>l DEF ReadersOK
<1>7. HeadInv'
  <2>1. starting' = starting
    BY <1>p, <1>l DEF starting
  <2>2. RoomOK'
    BY <1>a, <1>r, <2>1 DEF IndInv, HeadInv, RoomOK
  <2>3. QED
    BY <1>b, <1>r, <2>2, AsideOK DEF HeadInv
<1>8. LooksOn(p)
  BY <1>p, <1>a, <1>b DEF LooksOn, Looking, Found, Copying
<1>9. QED
  BY <1>1, <1>2, <1>3, <1>4, <1>5, <1>6, <1>7, <1>8 DEF IndInv, LookInv

(* pgrpcpy takes pg->ns. *)
LEMMA CopyLocksOK ==
  ASSUME IndInv, NEW p \in Procs, CopyLocks(p)
  PROVE  IndInv' /\ LooksOn(p)
<1>h. TypesOK /\ CallsOK /\ LocalsOK /\ NsOK /\ HrOK /\ ReadersOK /\ MountsOK
  BY DEF IndInv, LookInv, HeadInv
<1>a. /\ pc[p] = "pgrpcpy" /\ pc' = [pc EXCEPT ![p] = "cplist"]
      /\ nsw = None /\ nsr = {} /\ nsw' = p /\ m' = [m EXCEPT ![p] = {}]
      /\ UNCHANGED <<table, ref, list, nsr, hw, hr, op, mh, f, c, new, mountid, ops, crash>>
  BY <1>h DEF CopyLocks, heads, locals, Goto, Set
<1>p. /\ pc[p] = "pgrpcpy" /\ pc'[p] = "cplist" /\ pc' \in [Procs -> Places]
      /\ \A q \in Procs : q # p => pc'[q] = pc[q]
      /\ DOMAIN f = Procs /\ DOMAIN hr = Heads
  BY <1>h, <1>a DEF TypesOK, Places, Looking, Found, Mounting, Copying
<1>s. members' = members
  BY <1>a DEF members
<1>c. m' = [q \in Procs |-> m'[q]] /\ \A q \in Procs : q # p => m'[q] = m[q]
  BY <1>h, <1>a DEF TypesOK
<1>d. new'[p] \in Seq(Copies)
  <2>1. new'[p] = <<>>
    BY <1>h, <1>p, <1>a DEF LocalsOK
  <2>2. <<>> \in Seq(Copies)
    OBVIOUS
  <2>3. QED
    BY <2>1, <2>2
<1>b. Aside(p)
  BY <1>h, <1>p, <1>a, <1>c DEF Aside, TypesOK, Changing, Mounting
<1>1. TypesOK'
  BY <1>h, <1>p, <1>a, <1>c DEF TypesOK
<1>2. CallsOK'
  BY <1>h, <1>p, <1>a DEF CallsOK, Mounting, Copying
<1>3. LocalsOK'
  BY <1>h, <1>p, <1>a, <1>d DEF LocalsOK, Found, Mounting
<1>4. NsOK'
  BY <1>h, <1>p, <1>a, NoneApart DEF NsOK
<1>5. HrOK'
  BY <1>h, <1>p, <1>a DEF HrOK
<1>6. ReadersOK'
  BY <1>h, <1>p, <1>a, <1>s DEF ReadersOK
<1>7. HeadInv'
  BY <1>p, <1>a, <1>b, AsideHead
<1>8. LooksOn(p)
  BY <1>p, <1>a, <1>b DEF LooksOn, Looking, Found, Copying
<1>9. QED
  BY <1>1, <1>2, <1>3, <1>4, <1>5, <1>6, <1>7, <1>8 DEF IndInv, LookInv

(* pgrpcpy copies a list. *)
LEMMA CopyListOK ==
  ASSUME IndInv, NEW p \in Procs, NEW pt \in Points, CopyList(p, pt)
  PROVE  IndInv' /\ LooksOn(p)
<1>h. TypesOK /\ CallsOK /\ LocalsOK /\ NsOK /\ HrOK /\ ReadersOK /\ MountsOK
  BY DEF IndInv, LookInv, HeadInv
<1>g. PICK old : old = IF table[pt] = None THEN <<>> ELSE list[table[pt]]
  OBVIOUS
<1>i. PICK t : t = new[p] \o [i \in DOMAIN old |->
                  [pt |-> pt, id |-> mountid + i, to |-> old[i].to, of |-> old[i].id]]
  OBVIOUS
<1>a. /\ pc[p] = "cplist" /\ pc' = [pc EXCEPT ![p] = "cplist"]
      /\ new' = [new EXCEPT ![p] = t] /\ mountid' = mountid + Len(old)
      /\ m' = [m EXCEPT ![p] = m[p] \cup {pt}]
      /\ UNCHANGED <<table, ref, list, nsw, nsr, hw, hr, op, mh, f, c, ops, crash>>
  BY <1>h, <1>g, <1>i DEF CopyList, locks, heads, Goto, Set
<1>p. /\ pc[p] = "cplist" /\ pc'[p] = "cplist" /\ pc' \in [Procs -> Places]
      /\ \A q \in Procs : q # p => pc'[q] = pc[q]
      /\ DOMAIN f = Procs /\ DOMAIN hr = Heads
  BY <1>h, <1>a DEF TypesOK, Places, Looking, Found, Mounting, Copying
<1>s. members' = members
  BY <1>a DEF members
<1>c. /\ m' = [q \in Procs |-> m'[q]] /\ new' = [q \in Procs |-> new'[q]] /\ new'[p] = t
      /\ \A q \in Procs : q # p => m'[q] = m[q] /\ new'[q] = new[q]
  BY <1>h, <1>a DEF TypesOK
<1>d. old \in Seq(Mounts) /\ Len(old) \in Nat /\ mountid' \in Nat /\ mountid' >= mountid
  BY <1>h, <1>a, <1>g DEF TypesOK
<1>e. t \in Seq(Copies)
  <2>1. new[p] \in Seq(Copies)
    BY <1>h, <1>p DEF LocalsOK
  <2>2. QED
    BY <1>h, <1>d, <1>i, <2>1, CopyIsSeq
<1>b. Aside(p)
  BY <1>h, <1>p, <1>a, <1>c, <1>d DEF Aside, TypesOK, Changing, Mounting
<1>1. TypesOK'
  BY <1>h, <1>p, <1>a, <1>c, <1>d DEF TypesOK
<1>2. CallsOK'
  BY <1>h, <1>p, <1>a DEF CallsOK, Mounting, Copying
<1>3. LocalsOK'
  BY <1>h, <1>p, <1>a, <1>c, <1>e DEF LocalsOK, Found, Mounting
<1>4. NsOK'
  BY <1>h, <1>p, <1>a, NoneApart DEF NsOK
<1>5. HrOK'
  BY <1>h, <1>p, <1>a DEF HrOK
<1>6. ReadersOK'
  BY <1>h, <1>p, <1>a, <1>s DEF ReadersOK
<1>7. HeadInv'
  BY <1>p, <1>a, <1>b, AsideHead
<1>8. LooksOn(p)
  BY <1>p, <1>a, <1>b DEF LooksOn, Looking, Found, Copying
<1>9. QED
  BY <1>1, <1>2, <1>3, <1>4, <1>5, <1>6, <1>7, <1>8 DEF IndInv, LookInv

(* pgrpcpy gives the copies their mountids. *)
LEMMA CopyIdsOK ==
  ASSUME IndInv, NEW p \in Procs, CopyIds(p)
  PROVE  IndInv' /\ LooksOn(p)
<1>h. TypesOK /\ CallsOK /\ LocalsOK /\ NsOK /\ HrOK /\ ReadersOK /\ MountsOK
  BY DEF IndInv, LookInv, HeadInv
<1>a. /\ pc[p] = "cplist" /\ pc' = [pc EXCEPT ![p] = "copied"]
      /\ new' = [new EXCEPT ![p] = new'[p]] /\ mountid' = mountid + Len(new[p])
      /\ UNCHANGED <<table, ref, list, nsw, nsr, hw, hr, op, m, mh, f, c, ops, crash>>
  BY <1>h DEF CopyIds, locks, heads, Goto, Set, TypesOK
<1>p. /\ pc[p] = "cplist" /\ pc'[p] = "copied" /\ pc' \in [Procs -> Places]
      /\ \A q \in Procs : q # p => pc'[q] = pc[q]
      /\ DOMAIN f = Procs /\ DOMAIN hr = Heads
  BY <1>h, <1>a DEF TypesOK, Places, Looking, Found, Mounting, Copying
<1>s. members' = members
  BY <1>a DEF members
<1>c. new' = [q \in Procs |-> new'[q]] /\ \A q \in Procs : q # p => new'[q] = new[q]
  BY <1>h, <1>a DEF TypesOK
<1>d. Len(new[p]) \in Nat /\ mountid' \in Nat /\ mountid' >= mountid
  <2>1. new[p] \in Seq(Copies)
    BY <1>h, <1>p DEF LocalsOK
  <2>2. Len(new[p]) \in Nat
    BY <2>1
  <2>3. QED
    BY <1>h, <1>a, <2>2 DEF TypesOK
<1>b. Aside(p)
  BY <1>h, <1>p, <1>a, <1>c, <1>d DEF Aside, TypesOK, Changing, Mounting
<1>1. TypesOK'
  BY <1>h, <1>p, <1>a, <1>c, <1>d DEF TypesOK
<1>2. CallsOK'
  BY <1>h, <1>p, <1>a DEF CallsOK, Mounting, Copying
<1>3. LocalsOK'
  BY <1>h, <1>p, <1>a, <1>c DEF LocalsOK, Found, Mounting
<1>4. NsOK'
  BY <1>h, <1>p, <1>a, NoneApart DEF NsOK
<1>5. HrOK'
  BY <1>h, <1>p, <1>a DEF HrOK
<1>6. ReadersOK'
  BY <1>h, <1>p, <1>a, <1>s DEF ReadersOK
<1>7. HeadInv'
  BY <1>p, <1>a, <1>b, AsideHead
<1>8. LooksOn(p)
  BY <1>p, <1>a, <1>b DEF LooksOn, Looking, Found, Copying
<1>9. QED
  BY <1>1, <1>2, <1>3, <1>4, <1>5, <1>6, <1>7, <1>8 DEF IndInv, LookInv

(* cmount locks its Mhead and lets pg->ns go. *)
LEMMA MountLocksOK ==
  ASSUME IndInv, NEW p \in Procs, MountLocks(p)
  PROVE  IndInv'
<1>h. /\ TypesOK /\ CallsOK /\ LocalsOK /\ NsOK /\ HrOK /\ ReadersOK /\ HwOK /\ TargetsOK
      /\ TableOK /\ RefsOK /\ MountsOK /\ ListsOK /\ EmptyOK /\ MadeOK /\ RoomOK
  BY DEF IndInv, LookInv, HeadInv
<1>a. /\ pc[p] = "mlock" /\ pc' = [pc EXCEPT ![p] = "newmount"]
      /\ hw[m[p]] = None /\ hr[m[p]] = {} /\ hw' = [hw EXCEPT ![m[p]] = p] /\ nsw' = None
      /\ UNCHANGED <<table, ref, list, nsr, hr, op, m, mh, f, c, new, mountid, ops, crash>>
  BY DEF MountLocks, heads, locals, Goto, Set
<1>p. /\ pc[p] = "mlock" /\ pc'[p] = "newmount" /\ pc' \in [Procs -> Places]
      /\ \A q \in Procs : q # p => pc'[q] = pc[q]
      /\ DOMAIN f = Procs /\ DOMAIN hr = Heads
  BY <1>h, <1>a DEF TypesOK, Places, Looking, Found, Mounting, Copying
<1>b. /\ m[p] \in Heads /\ hw'[m[p]] = p /\ hw' \in [Heads -> Procs \cup {None}]
      /\ \A h \in Heads : h # m[p] => hw'[h] = hw[h]
  BY <1>h, <1>p, <1>a DEF TypesOK, TargetsOK, Mounting
<1>s. UNCHANGED <<members, users, linked, used>>
  BY <1>a DEF members, users, linked, used
<1>t. UNCHANGED <<leaving, starting>>
  BY <1>p, <1>a DEF leaving, starting
<1>u. owned' = owned
  BY <1>s, <1>t DEF owned
<1>v. \A q \in Procs : pc'[q] # "mlock"
  BY <1>h, <1>p DEF NsOK
<1>1. TypesOK'
  BY <1>h, <1>p, <1>a, <1>b, <1>s, <1>t, <1>u, NoneApart DEF TypesOK
<1>2. CallsOK'
  BY <1>h, <1>p, <1>a, <1>b, <1>s, <1>t, <1>u, NoneApart DEF CallsOK, Mounting, Copying
<1>3. LocalsOK'
  BY <1>h, <1>p, <1>a, <1>b, <1>s, <1>t, <1>u, NoneApart DEF LocalsOK, Found, Mounting
<1>4. NsOK'
  BY <1>h, <1>p, <1>a, <1>b, <1>s, <1>t, <1>u, NoneApart DEF NsOK
<1>5. HrOK'
  BY <1>h, <1>p, <1>a, <1>b, <1>s, <1>t, <1>u, NoneApart DEF HrOK
<1>6. ReadersOK'
  BY <1>h, <1>p, <1>a, <1>b, <1>s, <1>t, <1>u, NoneApart DEF ReadersOK
<1>7. HwOK'
  BY <1>h, <1>p, <1>a, <1>b, <1>s, <1>t, <1>u, NoneApart DEF HwOK
<1>8. TargetsOK'
  BY <1>h, <1>p, <1>a, <1>b, <1>s, <1>t, <1>u, NoneApart DEF TargetsOK, Mounting
<1>9. TableOK'
  BY <1>h, <1>p, <1>a, <1>b, <1>s, <1>t, <1>u, NoneApart DEF TableOK
<1>10. RefsOK'
  BY <1>h, <1>p, <1>a, <1>b, <1>s, <1>t, <1>u, NoneApart DEF RefsOK
<1>11. MountsOK'
  BY <1>h, <1>p, <1>a, <1>b, <1>s, <1>t, <1>u, NoneApart DEF MountsOK
<1>12. ListsOK'
  BY <1>h, <1>p, <1>a, <1>b, <1>s, <1>t, <1>u, NoneApart DEF ListsOK
<1>13. EmptyOK'
  BY <1>h, <1>p, <1>a, <1>b, <1>s, <1>t, <1>u, NoneApart DEF EmptyOK, Replaces, Mounting
<1>14. MadeOK'
  BY <1>h, <1>p, <1>a, <1>b, <1>v DEF MadeOK, Mounting
<1>15. RoomOK'
  BY <1>h, <1>p, <1>a, <1>b, <1>s, <1>t, <1>u, NoneApart DEF RoomOK
<1>16. QED
  BY <1>1, <1>2, <1>3, <1>4, <1>5, <1>6, <1>7, <1>8, <1>9, <1>10, <1>11, <1>12, <1>13, <1>14, <1>15
     DEF IndInv, LookInv, HeadInv

(* cmount makes the Mount, and frees those it replaces. *)
LEMMA NewMountOK ==
  ASSUME IndInv, NEW p \in Procs, NewMount(p)
  PROVE  IndInv'
<1>h. /\ TypesOK /\ CallsOK /\ LocalsOK /\ NsOK /\ HrOK /\ ReadersOK /\ HwOK /\ TargetsOK
      /\ TableOK /\ RefsOK /\ MountsOK /\ ListsOK /\ EmptyOK /\ MadeOK /\ RoomOK
  BY DEF IndInv, LookInv, HeadInv
<1>x. PICK x : x = [id |-> mountid + 1, to |-> op[p].from]
  OBVIOUS
<1>a. /\ pc[p] = "newmount" /\ pc' = [pc EXCEPT ![p] = "link"]
      /\ new' = [new EXCEPT ![p] = <<x>>] /\ mountid' = mountid + 1
      /\ list' = IF op[p].order = "MREPL" THEN [list EXCEPT ![m[p]] = <<>>] ELSE list
      /\ UNCHANGED <<table, ref, nsw, nsr, hw, hr, op, m, mh, f, c, ops, crash>>
  BY <1>x DEF NewMount, locks, heads, Goto, Set
<1>p. /\ pc[p] = "newmount" /\ pc'[p] = "link" /\ pc' \in [Procs -> Places]
      /\ \A q \in Procs : q # p => pc'[q] = pc[q]
      /\ DOMAIN f = Procs /\ DOMAIN hr = Heads
  BY <1>h, <1>a DEF TypesOK, Places, Looking, Found, Mounting, Copying
<1>c. m[p] \in Heads /\ hw[m[p]] = p /\ hr[m[p]] = {}
  BY <1>h, <1>p, NoneApart DEF TargetsOK, HwOK, HrOK, Mounting
<1>b. /\ mountid' \in Nat /\ list' \in [Heads -> Seq(Mounts)]
      /\ op[p].order = "MREPL" => list'[m[p]] = <<>>
      /\ op[p].order # "MREPL" => list' = list
      /\ \A h \in Heads : h # m[p] => list'[h] = list[h]
  BY <1>h, <1>a, <1>c DEF TypesOK
<1>n. /\ new' = [q \in Procs |-> new'[q]] /\ new'[p] = <<x>> /\ new'[p][1] = x
      /\ \A q \in Procs : q # p => new'[q] = new[q]
  BY <1>h, <1>a DEF TypesOK
<1>y. x \in Mounts /\ x.id = mountid + 1 /\ x.to = op[p].from
  <2>1. op[p].from \in Dirs
    BY <1>h, <1>p, CallParts DEF TypesOK, CallsOK, Mounting
  <2>2. QED
    BY <1>h, <1>x, <2>1 DEF Mounts, TypesOK
<1>s. /\ UNCHANGED <<users, linked, used>>
      /\ \A h \in Heads : /\ members'[h] \subseteq members[h]
                          /\ h # m[p] => members'[h] = members[h]
  <2>1. UNCHANGED <<users, linked, used>>
    BY <1>a DEF users, linked, used
  <2>2. ASSUME NEW h \in Heads, list'[h] = list[h] PROVE members'[h] = members[h]
    BY <2>2 DEF members
  <2>3. ASSUME NEW h \in Heads, list'[h] = <<>> PROVE members'[h] = {}
    BY <2>3 DEF members
  <2>4. QED
    BY <1>b, <1>c, <2>1, <2>2, <2>3
<1>t. UNCHANGED <<leaving, starting>>
  BY <1>p, <1>a DEF leaving, starting
<1>u. owned' = owned
  BY <1>s, <1>t DEF owned
<1>1. TypesOK'
  BY <1>h, <1>p, <1>a, <1>b, <1>c, <1>n, <1>s, <1>t, <1>u, NoneApart DEF TypesOK
<1>2. CallsOK'
  BY <1>h, <1>p, <1>a, <1>b, <1>c, <1>n, <1>s, <1>t, <1>u, NoneApart DEF CallsOK, Mounting, Copying
<1>3. LocalsOK'
  BY <1>h, <1>p, <1>a, <1>b, <1>c, <1>n, <1>s, <1>t, <1>u, NoneApart DEF LocalsOK, Found, Mounting
<1>4. NsOK'
  BY <1>h, <1>p, <1>a, <1>b, <1>c, <1>n, <1>s, <1>t, <1>u, NoneApart DEF NsOK
<1>5. HrOK'
  BY <1>h, <1>p, <1>a, <1>b, <1>c, <1>n, <1>s, <1>t, <1>u, NoneApart DEF HrOK
<1>6. ReadersOK'
  <2>1. \A q \in Procs : pc'[q] = "union" => pc[q] = "union" /\ mh[q] # m[p]
    BY <1>h, <1>p, <1>c DEF HrOK
  <2>2. \A q \in Procs : pc[q] = "union" => mh[q] \in Heads
    BY <1>h DEF LocalsOK, TypesOK, Found
  <2>3. QED
    BY <1>h, <1>a, <1>s, <2>1, <2>2 DEF ReadersOK
<1>7. HwOK'
  BY <1>h, <1>p, <1>a, <1>b, <1>c, <1>n, <1>s, <1>t, <1>u, NoneApart DEF HwOK
<1>8. TargetsOK'
  BY <1>h, <1>p, <1>a, <1>b, <1>c, <1>n, <1>s, <1>t, <1>u, NoneApart DEF TargetsOK, Mounting
<1>9. TableOK'
  BY <1>h, <1>p, <1>a, <1>b, <1>c, <1>n, <1>s, <1>t, <1>u, NoneApart DEF TableOK
<1>10. RefsOK'
  BY <1>h, <1>p, <1>a, <1>b, <1>c, <1>n, <1>s, <1>t, <1>u, NoneApart DEF RefsOK
<1>11. MountsOK'
  <2>1. \A h \in Heads : \A y \in members[h] : y \in Mounts /\ y.id \in Nat /\ y.id <= mountid
    BY <1>h, MembersAre DEF MountsOK, Mounts
  <2>2. \A h \in Heads : x \notin members[h]
    BY <1>h, <1>y, <2>1 DEF TypesOK
  <2>3. \A q \in Procs : q # p /\ pc'[q] = "link" =>
          /\ new[q] = <<new[q][1]>> /\ new[q][1] \in Mounts
          /\ new[q][1].id <= mountid /\ new[q][1].to = op[q].from
          /\ \A h \in Heads : new[q][1] \notin members[h]
    BY <1>h, <1>p DEF MountsOK
  <2>4. \A q \in Procs : q # p /\ pc'[q] = "link" => new[q][1].id \in Nat
    BY <2>3 DEF Mounts
  <2>5. \A q \in Procs : q # p /\ pc'[q] = "link" => new[q][1] # x /\ new[q][1].id <= mountid'
    BY <1>h, <1>a, <1>y, <2>3, <2>4 DEF TypesOK
  <2>6. \A q \in Procs : pc'[q] = "link" =>
          /\ new'[q] = <<new'[q][1]>> /\ new'[q][1] \in Mounts
          /\ new'[q][1].id <= mountid' /\ new'[q][1].to = op'[q].from
          /\ \A h \in Heads : new'[q][1] \notin members'[h]
    <3>1. x.id <= mountid'
      BY <1>h, <1>a, <1>y DEF TypesOK
    <3>2. QED
      BY <1>a, <1>n, <1>s, <1>y, <2>2, <2>3, <2>5, <3>1
  <2>7. \A q, r \in Procs : pc'[q] = "link" /\ pc'[r] = "link" /\ new'[q][1] = new'[r][1] => q = r
    <3>1. \A q, r \in Procs : q # p /\ r # p /\ pc'[q] = "link" /\ pc'[r] = "link"
                              /\ new[q][1] = new[r][1] => q = r
      BY <1>h, <1>p DEF MountsOK
    <3>2. QED
      BY <1>n, <2>5, <3>1
  <2>8. \A h \in Heads : \A y \in members'[h] : y.id <= mountid'
    BY <1>h, <1>a, <1>s, <2>1 DEF TypesOK
  <2>9. \A g, h \in Heads : \A y \in members'[g] : y \in members'[h] => g = h
    BY <1>h, <1>s DEF MountsOK
  <2>10. QED
    BY <2>6, <2>7, <2>8, <2>9 DEF MountsOK
<1>12. ListsOK'
  BY <1>h, <1>p, <1>a, <1>b, <1>c, <1>n, <1>s, <1>t, <1>u, NoneApart DEF ListsOK
<1>13. EmptyOK'
  <2> SUFFICES ASSUME NEW h \in linked', list'[h] = <<>> PROVE \E q \in Procs : Replaces(q, h)'
    BY DEF EmptyOK
  <2>1. h \in Heads /\ h \in linked
    BY <1>s DEF linked
  <2>2. CASE h = m[p] /\ op[p].order = "MREPL"
    BY <1>p, <1>a, <2>2 DEF Replaces, Mounting
  <2>3. CASE ~(h = m[p] /\ op[p].order = "MREPL")
    <3>1. list[h] = <<>>
      BY <1>b, <2>1, <2>3
    <3>2. PICK q \in Procs : Replaces(q, h)
      BY <1>h, <2>1, <3>1 DEF EmptyOK
    <3>3. q # p
      BY <2>3, <3>2 DEF Replaces
    <3>4. QED
      BY <1>p, <1>a, <3>2, <3>3 DEF Replaces
  <2>4. QED
    BY <2>2, <2>3
<1>14. MadeOK'
  <2>1. ASSUME NEW q \in Procs, q # p, m[q] = m[p], pc[q] \in Mounting PROVE c[q] = None /\ pc[q] # "link"
    BY <1>h, <1>c, <2>1, NoneApart DEF MadeOK, HwOK, Mounting
  <2>2. \A q \in Procs : pc[q] \in Mounting => m[q] \in Heads
    BY <1>h DEF TargetsOK
  <2>3. pc[p] \in Mounting
    BY <1>p DEF Mounting
  <2>4. QED
    BY <1>h, <1>p, <1>a, <1>b, <1>c, <2>1, <2>2, <2>3 DEF MadeOK, Mounting
<1>15. RoomOK'
  BY <1>h, <1>p, <1>a, <1>b, <1>c, <1>n, <1>s, <1>t, <1>u, NoneApart DEF RoomOK
<1>16. QED
  BY <1>1, <1>2, <1>3, <1>4, <1>5, <1>6, <1>7, <1>8, <1>9, <1>10, <1>11, <1>12, <1>13, <1>14, <1>15
     DEF IndInv, LookInv, HeadInv

(* cmount links the Mount and unlocks. *)
LEMMA MountLinksOK ==
  ASSUME IndInv, NEW p \in Procs, MountLinks(p)
  PROVE  IndInv'
<1>h. /\ TypesOK /\ CallsOK /\ LocalsOK /\ NsOK /\ HrOK /\ ReadersOK /\ HwOK /\ TargetsOK
      /\ TableOK /\ RefsOK /\ MountsOK /\ ListsOK /\ EmptyOK /\ MadeOK /\ RoomOK
  BY DEF IndInv, LookInv, HeadInv
<1>x. PICK t : t = IF op[p].order = "MAFTER" THEN list[m[p]] \o new[p] ELSE new[p] \o list[m[p]]
  OBVIOUS
<1>a. /\ pc[p] = "link" /\ pc' = [pc EXCEPT ![p] = "put"]
      /\ list' = [list EXCEPT ![m[p]] = t] /\ hw' = [hw EXCEPT ![m[p]] = None]
      /\ UNCHANGED <<table, ref, nsw, nsr, hr, op, m, mh, f, c, new, mountid, ops, crash>>
  BY <1>x DEF MountLinks, locals, Goto, Set
<1>p. /\ pc[p] = "link" /\ pc'[p] = "put" /\ pc' \in [Procs -> Places]
      /\ \A q \in Procs : q # p => pc'[q] = pc[q]
      /\ DOMAIN f = Procs /\ DOMAIN hr = Heads
  BY <1>h, <1>a DEF TypesOK, Places, Looking, Found, Mounting, Copying
<1>c. /\ m[p] \in Heads /\ hw[m[p]] = p /\ hr[m[p]] = {} /\ m[p] \in linked
  <2>1. op[p].pt \in Points
    BY <1>h, <1>p, CallParts DEF TypesOK, CallsOK
  <2>2. QED
    BY <1>h, <1>p, <2>1, NoneApart DEF TargetsOK, HwOK, HrOK, Mounting, linked
<1>y. PICK x \in Mounts : /\ new[p] = <<x>> /\ x.id <= mountid /\ x = new[p][1]
                          /\ \A h \in Heads : x \notin members[h]
  BY <1>h, <1>p DEF MountsOK
<1>l. PICK s \in Seq(Mounts) : s = list[m[p]] /\ Linked(t, s, x)
  BY <1>h, <1>c, <1>x, <1>y DEF TypesOK, Linked
<1>z. t \in Seq(Mounts) /\ t # <<>> /\ Elems(t) = Elems(s) \cup {x}
  BY <1>l, LinkOne
<1>b. /\ list' \in [Heads -> Seq(Mounts)] /\ list'[m[p]] = t /\ hw'[m[p]] = None
      /\ hw' \in [Heads -> Procs \cup {None}]
      /\ \A h \in Heads : h # m[p] => list'[h] = list[h] /\ hw'[h] = hw[h]
  BY <1>h, <1>a, <1>c, <1>z DEF TypesOK
<1>s. /\ UNCHANGED <<users, linked, used>>
      /\ members'[m[p]] = members[m[p]] \cup {x}
      /\ \A h \in Heads : h # m[p] => members'[h] = members[h]
  <2>1. UNCHANGED <<users, linked, used>>
    BY <1>a DEF users, linked, used
  <2>2. ASSUME NEW h \in Heads, list'[h] = list[h] PROVE members'[h] = members[h]
    BY <2>2 DEF members
  <2>3. members'[m[p]] = members[m[p]] \cup {x}
    <3>1. members'[m[p]] = Elems(t)
      BY <1>b, <1>c DEF members, Elems
    <3>2. members[m[p]] = Elems(s)
      BY <1>c, <1>l DEF members, Elems
    <3>3. QED
      BY <1>z, <3>1, <3>2
  <2>4. QED
    BY <1>b, <2>1, <2>2, <2>3
<1>t. UNCHANGED <<leaving, starting>>
  BY <1>p, <1>a DEF leaving, starting
<1>u. owned' = owned /\ m[p] \in owned
  BY <1>c, <1>s, <1>t DEF owned
<1>1. TypesOK'
  BY <1>h, <1>p, <1>a, <1>b, <1>c, <1>s, <1>t, <1>u, NoneApart DEF TypesOK
<1>2. CallsOK'
  BY <1>h, <1>p, <1>a, <1>b, <1>c, <1>s, <1>t, <1>u, NoneApart DEF CallsOK, Mounting, Copying
<1>3. LocalsOK'
  BY <1>h, <1>p, <1>a, <1>b, <1>c, <1>s, <1>t, <1>u, NoneApart DEF LocalsOK, Found, Mounting
<1>4. NsOK'
  BY <1>h, <1>p, <1>a, <1>b, <1>c, <1>s, <1>t, <1>u, NoneApart DEF NsOK
<1>5. HrOK'
  BY <1>h, <1>p, <1>a, <1>b, <1>c, <1>s, <1>t, <1>u, NoneApart DEF HrOK
<1>6. ReadersOK'
  <2>1. \A q \in Procs : pc'[q] = "union" => pc[q] = "union" /\ mh[q] # m[p]
    BY <1>h, <1>p, <1>c DEF HrOK
  <2>2. \A q \in Procs : pc[q] = "union" => mh[q] \in Heads
    BY <1>h DEF LocalsOK, TypesOK, Found
  <2>3. QED
    BY <1>h, <1>a, <1>s, <2>1, <2>2 DEF ReadersOK
<1>7. HwOK'
  BY <1>h, <1>p, <1>a, <1>b, <1>c, <1>s, <1>t, <1>u, NoneApart DEF HwOK
<1>8. TargetsOK'
  BY <1>h, <1>p, <1>a, <1>b, <1>c, <1>s, <1>t, <1>u, NoneApart DEF TargetsOK, Mounting
<1>9. TableOK'
  BY <1>h, <1>p, <1>a, <1>b, <1>c, <1>s, <1>t, <1>u, NoneApart DEF TableOK
<1>10. RefsOK'
  BY <1>h, <1>p, <1>a, <1>b, <1>c, <1>s, <1>t, <1>u, NoneApart DEF RefsOK
<1>11. MountsOK'
  <2>1. \A h \in Heads : \A y \in members'[h] : y \in members[h] \/ (h = m[p] /\ y = x)
    BY <1>c, <1>s
  <2>2. \A h \in Heads : \A y \in members'[h] : y.id <= mountid'
    BY <1>h, <1>a, <1>y, <2>1 DEF MountsOK
  <2>3. \A g, h \in Heads : \A y \in members'[g] : y \in members'[h] => g = h
    BY <1>h, <1>y, <2>1 DEF MountsOK
  <2>4. \A q \in Procs : pc'[q] = "link" =>
          /\ new'[q] = <<new'[q][1]>> /\ new'[q][1] \in Mounts
          /\ new'[q][1].id <= mountid' /\ new'[q][1].to = op'[q].from
    BY <1>h, <1>p, <1>a DEF MountsOK
  <2>5. \A q \in Procs : pc'[q] = "link" => q # p /\ pc[q] = "link" /\ new[q][1] # x
    BY <1>h, <1>p, <1>y DEF MountsOK
  <2>6. \A q \in Procs : pc'[q] = "link" => \A h \in Heads : new'[q][1] \notin members'[h]
    BY <1>h, <1>a, <2>1, <2>5 DEF MountsOK
  <2>7. \A q, r \in Procs : pc'[q] = "link" /\ pc'[r] = "link" /\ new'[q][1] = new'[r][1] => q = r
    BY <1>h, <1>a, <2>5 DEF MountsOK
  <2>8. QED
    BY <2>2, <2>3, <2>4, <2>6, <2>7 DEF MountsOK
<1>12. ListsOK'
  BY <1>h, <1>p, <1>a, <1>b, <1>c, <1>s, <1>t, <1>u, NoneApart DEF ListsOK
<1>13. EmptyOK'
  <2> SUFFICES ASSUME NEW h \in linked', list'[h] = <<>> PROVE \E q \in Procs : Replaces(q, h)'
    BY DEF EmptyOK
  <2>1. h \in Heads /\ h \in linked /\ h # m[p] /\ list[h] = <<>>
    BY <1>b, <1>c, <1>s, <1>z DEF linked
  <2>2. PICK q \in Procs : Replaces(q, h)
    BY <1>h, <2>1 DEF EmptyOK
  <2>3. q # p
    BY <2>1, <2>2 DEF Replaces
  <2>4. QED
    BY <1>p, <1>a, <2>2, <2>3 DEF Replaces
<1>14. MadeOK'
  <2>1. ASSUME NEW q \in Procs, q # p, m[q] = m[p], pc[q] \in Mounting PROVE c[q] = None /\ pc[q] # "link"
    BY <1>p, <2>1, OthersWait
  <2>2. \A q \in Procs : pc[q] \in Mounting => m[q] \in Heads
    BY <1>h DEF TargetsOK
  <2>3. \A q \in Procs : pc'[q] \in Mounting => q # p /\ pc[q] \in Mounting
    BY <1>p DEF Mounting
  <2>4. \A q \in Procs : pc'[q] \in Mounting /\ (c[q] # None \/ pc[q] = "link") =>
          list'[m[q]] = list[m[q]] /\ hw'[m[q]] = hw[m[q]]
    BY <1>b, <2>1, <2>2, <2>3
  <2>5. QED
    BY <1>h, <1>p, <1>a, <2>3, <2>4 DEF MadeOK, Mounting
<1>15. RoomOK'
  BY <1>h, <1>p, <1>a, <1>b, <1>c, <1>s, <1>t, <1>u, NoneApart DEF RoomOK
<1>16. QED
  BY <1>1, <1>2, <1>3, <1>4, <1>5, <1>6, <1>7, <1>8, <1>9, <1>10, <1>11, <1>12, <1>13, <1>14, <1>15
     DEF IndInv, LookInv, HeadInv

(* cunmount finds the Mhead, or nothing. *)
LEMMA UnmountFindsOK ==
  ASSUME IndInv, NEW p \in Procs, UnmountFinds(p)
  PROVE  IndInv'
<1>h. /\ TypesOK /\ CallsOK /\ LocalsOK /\ NsOK /\ HrOK /\ ReadersOK /\ HwOK /\ TargetsOK
      /\ TableOK /\ RefsOK /\ MountsOK /\ ListsOK /\ EmptyOK /\ MadeOK /\ RoomOK
  BY DEF IndInv, LookInv, HeadInv
<1>x. PICK h : h = table[op[p].pt]
  OBVIOUS
<1>a. /\ pc[p] = "cunmount"
      /\ \/ h = None /\ pc' = [pc EXCEPT ![p] = "put"] /\ nsw' = None
         \/ h # None /\ pc' = [pc EXCEPT ![p] = "ulocks"] /\ nsw' = p
      /\ nsw = None /\ nsr = {} /\ m' = [m EXCEPT ![p] = h]
      /\ UNCHANGED <<table, ref, list, nsr, hw, hr, op, mh, f, c, new, mountid, ops, crash>>
  BY <1>x DEF UnmountFinds, heads, Goto, Set
<1>p. /\ pc[p] = "cunmount" /\ pc'[p] \in {"put", "ulocks"} /\ pc' \in [Procs -> Places]
      /\ \A q \in Procs : q # p => pc'[q] = pc[q]
      /\ DOMAIN f = Procs /\ DOMAIN hr = Heads
  BY <1>h, <1>a DEF TypesOK, Places, Looking, Found, Mounting, Copying
<1>b. /\ m'[p] = h /\ (\A q \in Procs : q # p => m'[q] = m[q]) /\ m' = [q \in Procs |-> m'[q]]
      /\ op[p].pt \in Points /\ h \in Heads \cup {None}
      /\ h = None => pc'[p] = "put" /\ nsw' = None
      /\ h # None => pc'[p] = "ulocks" /\ nsw' = p
  <2>1. op[p].pt \in Points
    BY <1>h, <1>p, CallParts DEF TypesOK, CallsOK
  <2>2. h \in Heads \cup {None}
    BY <1>h, <1>x, <2>1 DEF TypesOK
  <2>3. m'[p] = h /\ (\A q \in Procs : q # p => m'[q] = m[q]) /\ m' = [q \in Procs |-> m'[q]]
    BY <1>h, <1>a DEF TypesOK
  <2>4. (h = None => pc'[p] = "put" /\ nsw' = None) /\ (h # None => pc'[p] = "ulocks" /\ nsw' = p)
    BY <1>h, <1>a DEF TypesOK
  <2>5. QED
    BY <2>1, <2>2, <2>3, <2>4
<1>s. UNCHANGED <<members, users, linked, used>>
  BY <1>a DEF members, users, linked, used
<1>t. UNCHANGED <<leaving, starting>>
  <2>1. starting' = starting
    BY <1>p DEF starting
  <2>2. \A q \in Procs : (pc'[q] = "ufree" <=> pc[q] = "ufree") /\ (pc[q] = "ufree" => m'[q] = m[q])
    BY <1>p, <1>b
  <2>3. QED
    BY <2>1, <2>2 DEF leaving
<1>u. owned' = owned
  BY <1>s, <1>t DEF owned
<1>1. TypesOK'
  BY <1>h, <1>p, <1>a, <1>b, <1>s, <1>t, <1>u, NoneApart DEF TypesOK
<1>2. CallsOK'
  BY <1>h, <1>p, <1>a, <1>b, <1>s, <1>t, <1>u, NoneApart DEF CallsOK, Mounting, Copying
<1>3. LocalsOK'
  BY <1>h, <1>p, <1>a, <1>b, <1>s, <1>t, <1>u, NoneApart DEF LocalsOK, Found, Mounting
<1>4. NsOK'
  BY <1>h, <1>p, <1>a, <1>b, <1>s, <1>t, <1>u, NoneApart DEF NsOK
<1>5. HrOK'
  BY <1>h, <1>p, <1>a, <1>b, <1>s, <1>t, <1>u, NoneApart DEF HrOK
<1>6. ReadersOK'
  BY <1>h, <1>p, <1>a, <1>b, <1>s, <1>t, <1>u, NoneApart DEF ReadersOK
<1>7. HwOK'
  BY <1>h, <1>p, <1>a, <1>b, <1>s, <1>t, <1>u, NoneApart DEF HwOK
<1>8. TargetsOK'
  BY <1>h, <1>p, <1>a, <1>b, <1>s, <1>t, <1>u, NoneApart, <1>x DEF TargetsOK, Mounting
<1>9. TableOK'
  BY <1>h, <1>p, <1>a, <1>b, <1>s, <1>t, <1>u, NoneApart DEF TableOK
<1>10. RefsOK'
  BY <1>h, <1>p, <1>a, <1>b, <1>s, <1>t, <1>u, NoneApart DEF RefsOK
<1>11. MountsOK'
  BY <1>h, <1>p, <1>a, <1>b, <1>s, <1>t, <1>u, NoneApart DEF MountsOK
<1>12. ListsOK'
  BY <1>h, <1>p, <1>a, <1>b, <1>s, <1>t, <1>u, NoneApart DEF ListsOK
<1>13. EmptyOK'
  <2>1. ASSUME NEW g, NEW q \in Procs, Replaces(q, g) PROVE Replaces(q, g)'
    BY <1>p, <1>a, <1>b, <2>1 DEF Replaces, Mounting
  <2>2. QED
    BY <1>h, <1>a, <1>s, <2>1 DEF EmptyOK
<1>14. MadeOK'
  BY <1>h, <1>p, <1>a, <1>b, <1>s, <1>t, <1>u, NoneApart DEF MadeOK, Mounting
<1>15. RoomOK'
  BY <1>h, <1>p, <1>a, <1>b, <1>s, <1>t, <1>u, NoneApart DEF RoomOK
<1>16. QED
  BY <1>1, <1>2, <1>3, <1>4, <1>5, <1>6, <1>7, <1>8, <1>9, <1>10, <1>11, <1>12, <1>13, <1>14, <1>15
     DEF IndInv, LookInv, HeadInv

(* cunmount takes the Mhead from the table, to free its list. *)
LEMMA UnmountAllOK ==
  ASSUME IndInv, NEW p \in Procs, UnmountAll(p)
  PROVE  IndInv'
<1>h. /\ TypesOK /\ CallsOK /\ LocalsOK /\ NsOK /\ HrOK /\ ReadersOK /\ HwOK /\ TargetsOK
      /\ TableOK /\ RefsOK /\ MountsOK /\ ListsOK /\ EmptyOK /\ MadeOK /\ RoomOK
  BY DEF IndInv, LookInv, HeadInv
<1>a. /\ pc[p] = "ulocks" /\ pc' = [pc EXCEPT ![p] = "ufree"]
      /\ hw[m[p]] = None /\ hr[m[p]] = {} /\ hw' = [hw EXCEPT ![m[p]] = p] /\ nsw' = None
      /\ table' = [table EXCEPT ![op[p].pt] = None]
      /\ UNCHANGED <<ref, list, nsr, hr, op, m, mh, f, c, new, mountid, ops, crash>>
  BY DEF UnmountAll, locals, Goto, Set
<1>p. /\ pc[p] = "ulocks" /\ pc'[p] = "ufree" /\ pc' \in [Procs -> Places]
      /\ \A q \in Procs : q # p => pc'[q] = pc[q]
      /\ DOMAIN f = Procs /\ DOMAIN hr = Heads
  BY <1>h, <1>a DEF TypesOK, Places, Looking, Found, Mounting, Copying
<1>c. op[p].pt \in Points /\ m[p] \in Heads /\ table[op[p].pt] = m[p] /\ m[p] \in linked
  BY <1>h, <1>p, CallParts DEF TypesOK, CallsOK, TargetsOK, linked
<1>b. /\ hw'[m[p]] = p /\ hw' \in [Heads -> Procs \cup {None}]
      /\ \A h \in Heads : h # m[p] => hw'[h] = hw[h]
      /\ table' \in [Points -> Heads \cup {None}] /\ table'[op[p].pt] = None
      /\ \A pt \in Points : pt # op[p].pt => table'[pt] = table[pt]
  BY <1>h, <1>a, <1>c DEF TypesOK
<1>d. \A q \in Procs : pc[q] \in Mounting => m[q] # m[p] /\ pc[q] # "mlock"
  BY <1>p, <1>a, NobodyMounts
<1>s. UNCHANGED <<members, users, used>> /\ linked' = linked \ {m[p]}
  <2>1. UNCHANGED <<members, users, used>>
    BY <1>a DEF members, users, used
  <2>2. \A pt \in Points : pt # op[p].pt => table[pt] # m[p]
    BY <1>h, <1>c, NoneApart DEF TableOK
  <2>3. linked' = linked \ {m[p]}
    BY <1>b, <1>c, <2>2, NoneApart DEF linked
  <2>4. QED
    BY <2>1, <2>3
<1>t. leaving' = leaving \cup {m[p]} /\ starting' = starting
  BY <1>p, <1>a, <1>c DEF leaving, starting
<1>u. owned' = owned
  BY <1>c, <1>s, <1>t DEF owned
<1>v. \A q \in Procs : q # p => pc'[q] # "ulocks" /\ pc'[q] # "mlock"
  BY <1>h, <1>p DEF NsOK
<1>1. TypesOK'
  BY <1>h, <1>p, <1>a, <1>b, <1>c, <1>s, <1>t, <1>u, NoneApart DEF TypesOK
<1>2. CallsOK'
  BY <1>h, <1>p, <1>a, <1>b, <1>c, <1>s, <1>t, <1>u, NoneApart DEF CallsOK, Mounting, Copying
<1>3. LocalsOK'
  BY <1>h, <1>p, <1>a, <1>b, <1>c, <1>s, <1>t, <1>u, NoneApart DEF LocalsOK, Found, Mounting
<1>4. NsOK'
  BY <1>h, <1>p, <1>a, <1>b, <1>c, <1>s, <1>t, <1>u, NoneApart DEF NsOK
<1>5. HrOK'
  BY <1>h, <1>p, <1>a, <1>b, <1>c, <1>s, <1>t, <1>u, NoneApart DEF HrOK
<1>6. ReadersOK'
  BY <1>h, <1>p, <1>a, <1>b, <1>c, <1>s, <1>t, <1>u, NoneApart DEF ReadersOK
<1>7. HwOK'
  BY <1>h, <1>p, <1>a, <1>b, <1>c, <1>s, <1>t, <1>u, NoneApart DEF HwOK
<1>8. TargetsOK'
  <2>1. \A q \in Procs : pc'[q] = "ufree" => m'[q] \in Heads /\ m'[q] \notin linked'
    BY <1>h, <1>p, <1>a, <1>c, <1>s DEF TargetsOK
  <2>2. ASSUME NEW q \in Procs, pc'[q] \in Mounting \cup {"ulocks"}
        PROVE  m'[q] \in Heads /\ table'[op'[q].pt] = m'[q]
    <3>1. q # p /\ pc[q] \in Mounting /\ m'[q] = m[q] /\ op'[q] = op[q]
      BY <1>p, <1>a, <1>v, <2>2 DEF Mounting
    <3>2. m[q] \in Heads /\ table[op[q].pt] = m[q] /\ m[q] # m[p]
      BY <1>h, <1>d, <3>1 DEF TargetsOK
    <3>3. op[q].pt \in Points /\ op[q].pt # op[p].pt
      BY <1>h, <1>c, <3>1, <3>2, CallParts DEF TypesOK, CallsOK, Mounting
    <3>4. QED
      BY <1>b, <3>1, <3>2, <3>3
  <2>3. QED
    BY <2>1, <2>2 DEF TargetsOK
<1>9. TableOK'
  BY <1>h, <1>p, <1>a, <1>b, <1>c, <1>s, <1>t, <1>u, NoneApart DEF TableOK
<1>10. RefsOK'
  BY <1>h, <1>p, <1>a, <1>b, <1>c, <1>s, <1>t, <1>u, NoneApart DEF RefsOK
<1>11. MountsOK'
  BY <1>h, <1>p, <1>a, <1>b, <1>c, <1>s, <1>t, <1>u, NoneApart DEF MountsOK
<1>12. ListsOK'
  BY <1>h, <1>p, <1>a, <1>b, <1>c, <1>s, <1>t, <1>u, NoneApart DEF ListsOK
<1>13. EmptyOK'
  <2>1. ASSUME NEW g, NEW q \in Procs, Replaces(q, g) PROVE Replaces(q, g)'
    BY <1>p, <1>a, <2>1 DEF Replaces, Mounting
  <2>2. QED
    BY <1>h, <1>a, <1>s, <2>1 DEF EmptyOK
<1>14. MadeOK'
  <2>1. \A q \in Procs : pc'[q] \in Mounting => pc[q] \in Mounting /\ pc'[q] = pc[q] /\ pc[q] # "mlock"
    BY <1>p, <1>d DEF Mounting
  <2>2. QED
    BY <1>h, <1>a, <2>1 DEF MadeOK, Mounting
<1>15. RoomOK'
  BY <1>h, <1>p, <1>a, <1>b, <1>c, <1>s, <1>t, <1>u, NoneApart DEF RoomOK
<1>16. QED
  BY <1>1, <1>2, <1>3, <1>4, <1>5, <1>6, <1>7, <1>8, <1>9, <1>10, <1>11, <1>12, <1>13, <1>14, <1>15
     DEF IndInv, LookInv, HeadInv

(* cunmount frees the list, and keeps the reference for its end. *)
LEMMA UnmountFreesOK ==
  ASSUME IndInv, NEW p \in Procs, UnmountFrees(p)
  PROVE  IndInv'
<1>h. /\ TypesOK /\ CallsOK /\ LocalsOK /\ NsOK /\ HrOK /\ ReadersOK /\ HwOK /\ TargetsOK
      /\ TableOK /\ RefsOK /\ MountsOK /\ ListsOK /\ EmptyOK /\ MadeOK /\ RoomOK
  BY DEF IndInv, LookInv, HeadInv
<1>a. /\ pc[p] = "ufree" /\ pc' = [pc EXCEPT ![p] = "put"]
      /\ list' = [list EXCEPT ![m[p]] = <<>>] /\ hw' = [hw EXCEPT ![m[p]] = None]
      /\ mh' = [mh EXCEPT ![p] = m[p]]
      /\ UNCHANGED <<table, ref, nsw, nsr, hr, op, m, f, c, new, mountid, ops, crash>>
  BY DEF UnmountFrees, Goto, Set
<1>p. /\ pc[p] = "ufree" /\ pc'[p] = "put" /\ pc' \in [Procs -> Places]
      /\ \A q \in Procs : q # p => pc'[q] = pc[q]
      /\ DOMAIN f = Procs /\ DOMAIN hr = Heads
  BY <1>h, <1>a DEF TypesOK, Places, Looking, Found, Mounting, Copying
<1>c. m[p] \in Heads /\ m[p] \notin linked /\ hw[m[p]] = p /\ hr[m[p]] = {} /\ mh[p] = None
  BY <1>h, <1>p, NoneApart DEF TargetsOK, HwOK, HrOK, LocalsOK, Found
<1>b. /\ list' \in [Heads -> Seq(Mounts)] /\ list'[m[p]] = <<>> /\ hw'[m[p]] = None
      /\ hw' \in [Heads -> Procs \cup {None}]
      /\ \A h \in Heads : h # m[p] => list'[h] = list[h] /\ hw'[h] = hw[h]
      /\ mh'[p] = m[p] /\ mh' \in [Procs -> Heads \cup {None}]
      /\ \A q \in Procs : q # p => mh'[q] = mh[q]
  BY <1>h, <1>a, <1>c DEF TypesOK
<1>s. /\ UNCHANGED <<linked, used>>
      /\ members'[m[p]] = {}
      /\ \A h \in Heads : h # m[p] => members'[h] = members[h]
  <2>1. UNCHANGED <<linked, used>>
    BY <1>a DEF linked, used
  <2>2. ASSUME NEW h \in Heads, list'[h] = list[h] PROVE members'[h] = members[h]
    BY <2>2 DEF members
  <2>3. members'[m[p]] = {}
    BY <1>b, <1>c DEF members
  <2>4. QED
    BY <1>b, <2>1, <2>2, <2>3
<1>t. leaving' = leaving \ {m[p]} /\ m[p] \in leaving /\ starting' = starting
  <2>1. starting' = starting
    BY <1>p DEF starting
  <2>2. \A q \in Procs : q # p /\ pc[q] = "ufree" => m[q] # m[p]
    BY <1>h, <1>c DEF HwOK
  <2>3. QED
    BY <1>p, <1>a, <1>c, <2>1, <2>2 DEF leaving
<1>u. owned' = owned \ {m[p]} /\ m[p] \in owned
  BY <1>c, <1>s, <1>t DEF owned
<1>v. \A q \in Procs : pc[q] \in Mounting => q # p /\ m[q] # m[p] /\ m[q] \in Heads /\ m[q] \in linked
  <2>1. \A q \in Procs : pc[q] \in Mounting => op[q].pt \in Points
    BY <1>h, CallParts DEF TypesOK, CallsOK, Mounting
  <2>2. QED
    BY <1>h, <1>p, <1>c, <2>1 DEF TargetsOK, linked, Mounting
<1>w. \A q \in Procs : pc'[q] \in Mounting => pc[q] \in Mounting /\ pc'[q] = pc[q]
  BY <1>p DEF Mounting
<1>1. TypesOK'
  BY <1>h, <1>p, <1>a, <1>b, <1>c, <1>s, <1>t, <1>u, NoneApart DEF TypesOK
<1>2. CallsOK'
  BY <1>h, <1>p, <1>a, <1>b, <1>c, <1>s, <1>t, <1>u, NoneApart DEF CallsOK, Mounting, Copying
<1>3. LocalsOK'
  BY <1>h, <1>p, <1>a, <1>b, <1>c DEF LocalsOK, Found, Mounting
<1>4. NsOK'
  BY <1>h, <1>p, <1>a, <1>b, <1>c, <1>s, <1>t, <1>u, NoneApart DEF NsOK
<1>5. HrOK'
  BY <1>h, <1>p, <1>a, <1>b, <1>c, <1>s, <1>t, <1>u, NoneApart DEF HrOK
<1>6. ReadersOK'
  <2>1. \A q \in Procs : pc'[q] = "union" => q # p /\ pc[q] = "union" /\ mh[q] # m[p]
    BY <1>h, <1>p, <1>c DEF HrOK
  <2>2. \A q \in Procs : pc[q] = "union" => mh[q] \in Heads
    BY <1>h DEF LocalsOK, TypesOK, Found
  <2>3. QED
    BY <1>h, <1>a, <1>b, <1>s, <2>1, <2>2 DEF ReadersOK
<1>7. HwOK'
  BY <1>h, <1>p, <1>a, <1>b, <1>c, <1>s, <1>t, <1>u, NoneApart DEF HwOK
<1>8. TargetsOK'
  BY <1>h, <1>p, <1>a, <1>b, <1>c, <1>s, <1>t, <1>u, NoneApart DEF TargetsOK, Mounting
<1>9. TableOK'
  BY <1>h, <1>p, <1>a, <1>b, <1>c, <1>s, <1>t, <1>u, NoneApart DEF TableOK
<1>10. RefsOK'
  BY <1>h, <1>a, <1>b, <1>c, <1>u, KeepRef
<1>11. MountsOK'
  <2>1. \A h \in Heads : \A y \in members'[h] : y \in members[h]
    BY <1>c, <1>s
  <2>2. \A q \in Procs : pc'[q] = "link" => pc[q] = "link"
    BY <1>p
  <2>3. QED
    BY <1>h, <1>a, <2>1, <2>2 DEF MountsOK
<1>12. ListsOK'
  BY <1>h, <1>p, <1>a, <1>b, <1>c, <1>s, <1>t, <1>u, NoneApart DEF ListsOK
<1>13. EmptyOK'
  <2>1. ASSUME NEW g, NEW q \in Procs, Replaces(q, g) PROVE Replaces(q, g)'
    BY <1>p, <1>a, <2>1 DEF Replaces, Mounting
  <2>2. \A h \in linked' : h \in linked /\ list'[h] = list[h]
    BY <1>b, <1>c, <1>s DEF linked
  <2>3. QED
    BY <1>h, <2>1, <2>2 DEF EmptyOK
<1>14. MadeOK'
  BY <1>h, <1>a, <1>b, <1>v, <1>w DEF MadeOK, Mounting
<1>15. RoomOK'
  BY SMTT(60), <1>h, <1>p, <1>a, <1>b, <1>c, <1>s, <1>t, <1>u, NoneApart DEF RoomOK
<1>16. QED
  BY <1>1, <1>2, <1>3, <1>4, <1>5, <1>6, <1>7, <1>8, <1>9, <1>10, <1>11, <1>12, <1>13, <1>14, <1>15
     DEF IndInv, LookInv, HeadInv

(* cunmount unlinks one member, and with the last the Mhead. *)
LEMMA UnmountOneOK ==
  ASSUME IndInv, NEW p \in Procs, UnmountOne(p)
  PROVE  IndInv'
<1>h. /\ TypesOK /\ CallsOK /\ LocalsOK /\ NsOK /\ HrOK /\ ReadersOK /\ HwOK /\ TargetsOK
      /\ TableOK /\ RefsOK /\ MountsOK /\ ListsOK /\ EmptyOK /\ MadeOK /\ RoomOK
  BY DEF IndInv, LookInv, HeadInv
<1>a. /\ pc[p] = "ulocks" /\ pc' = [pc EXCEPT ![p] = "put"]
      /\ hw[m[p]] = None /\ hr[m[p]] = {} /\ nsw' = None
      /\ UNCHANGED <<ref, nsr, hw, hr, op, m, f, c, new, mountid, ops, crash>>
  BY DEF UnmountOne, Goto, Set
<1>p. /\ pc[p] = "ulocks" /\ pc'[p] = "put" /\ pc' \in [Procs -> Places]
      /\ \A q \in Procs : q # p => pc'[q] = pc[q]
      /\ DOMAIN f = Procs /\ DOMAIN hr = Heads
  BY <1>h, <1>a DEF TypesOK, Places, Looking, Found, Mounting, Copying
<1>c. /\ op[p].pt \in Points /\ m[p] \in Heads /\ table[op[p].pt] = m[p] /\ m[p] \in linked
      /\ mh[p] = None
  <2>1. mh[p] = None
    BY <1>h, <1>p DEF LocalsOK, Found
  <2>2. op[p].pt \in Points /\ m[p] \in Heads /\ table[op[p].pt] = m[p]
    BY <1>h, <1>p, CallParts DEF TypesOK, CallsOK, TargetsOK
  <2>3. QED
    BY <2>1, <2>2 DEF linked
<1>d. \A q \in Procs : pc[q] \in Mounting => q # p /\ m[q] # m[p] /\ pc[q] # "mlock" /\ m[q] \in Heads
  BY <1>h, <1>p, <1>a, NobodyMounts DEF TargetsOK, Mounting
<1>e. list[m[p]] # <<>>
  BY <1>h, <1>c, <1>d DEF EmptyOK, Replaces
<1>b. /\ list' \in [Heads -> Seq(Mounts)] /\ members'[m[p]] \subseteq members[m[p]]
      /\ \A h \in Heads : h # m[p] => list'[h] = list[h]
      /\ \/ list'[m[p]] # <<>> /\ UNCHANGED <<table, mh>>
         \/ /\ list'[m[p]] = <<>> /\ table' = [table EXCEPT ![op[p].pt] = None]
            /\ mh' = [mh EXCEPT ![p] = m[p]]
  <2>1. CASE UNCHANGED <<table, list, mh>>
    BY <1>h, <1>e, <2>1 DEF TypesOK, members
  <2>2. ASSUME NEW k \in 1..Len(list[m[p]]), NEW t \in Seq(Mounts), Unlinked(t, list[m[p]], k),
               list' = [list EXCEPT ![m[p]] = t],
               table' = IF t = <<>> THEN [table EXCEPT ![op[p].pt] = None] ELSE table,
               mh' = IF t = <<>> THEN [mh EXCEPT ![p] = m[p]] ELSE mh
        PROVE  /\ list' \in [Heads -> Seq(Mounts)] /\ members'[m[p]] \subseteq members[m[p]]
               /\ \A h \in Heads : h # m[p] => list'[h] = list[h]
               /\ \/ list'[m[p]] # <<>> /\ UNCHANGED <<table, mh>>
                  \/ /\ list'[m[p]] = <<>> /\ table' = [table EXCEPT ![op[p].pt] = None]
                     /\ mh' = [mh EXCEPT ![p] = m[p]]
    <3>1. PICK s \in Seq(Mounts) : s = list[m[p]]
      BY <1>h, <1>c DEF TypesOK
    <3>2. Elems(t) \subseteq Elems(s)
      BY <2>2, <3>1, UnlinkOne
    <3>3. /\ list' \in [Heads -> Seq(Mounts)] /\ list'[m[p]] = t
          /\ \A h \in Heads : h # m[p] => list'[h] = list[h]
      BY <1>h, <1>c, <2>2 DEF TypesOK
    <3>4. members'[m[p]] = Elems(t) /\ members[m[p]] = Elems(s)
      BY <1>c, <3>1, <3>3 DEF members, Elems
    <3>5. QED
      BY <2>2, <3>2, <3>3, <3>4
  <2>3. QED
    BY <1>h, <1>c, <2>1, <2>2, OneParts
<1>f. /\ mh' \in [Procs -> Heads \cup {None}] /\ (\A q \in Procs : q # p => mh'[q] = mh[q])
      /\ mh'[p] = IF list'[m[p]] = <<>> THEN m[p] ELSE None
      /\ table' \in [Points -> Heads \cup {None}]
      /\ \A pt \in Points : pt # op[p].pt => table'[pt] = table[pt]
      /\ table'[op[p].pt] = IF list'[m[p]] = <<>> THEN None ELSE m[p]
  BY <1>h, <1>b, <1>c DEF TypesOK
<1>l. linked' = IF list'[m[p]] = <<>> THEN linked \ {m[p]} ELSE linked
  <2>1. \A pt \in Points : pt # op[p].pt => table[pt] # m[p]
    BY <1>h, <1>c, NoneApart DEF TableOK
  <2>2. CASE list'[m[p]] = <<>>
    BY <1>c, <1>f, <2>1, <2>2, NoneApart DEF linked
  <2>3. CASE list'[m[p]] # <<>>
    BY <1>c, <1>f, <2>3, NoneApart DEF linked
  <2>4. QED
    BY <2>2, <2>3
<1>t. UNCHANGED <<leaving, starting>> /\ m[p] \notin leaving
  BY <1>h, <1>p, <1>a, <1>c DEF leaving, starting, TargetsOK
<1>u. owned' = (IF list'[m[p]] = <<>> THEN owned \ {m[p]} ELSE owned) /\ m[p] \in owned
  BY <1>c, <1>l, <1>t DEF owned
<1>s. \A h \in Heads : members'[h] \subseteq members[h] /\ (h # m[p] => members'[h] = members[h])
  <2>1. ASSUME NEW h \in Heads, list'[h] = list[h] PROVE members'[h] = members[h]
    BY <2>1 DEF members
  <2>2. QED
    BY <1>b, <2>1
<1>r. RefsOK' /\ used' = used
  <2>1. CASE list'[m[p]] = <<>>
    BY <1>h, <1>a, <1>c, <1>f, <1>u, <2>1, KeepRef
  <2>2. CASE list'[m[p]] # <<>>
    <3>1. users' = users /\ used' = used
      BY <1>a, <1>b, <2>2 DEF users, used
    <3>2. QED
      BY <1>h, <1>a, <1>u, <2>2, <3>1 DEF RefsOK
  <2>3. QED
    BY <2>1, <2>2
<1>v. \A q \in Procs : q # p => pc'[q] # "ulocks"
  BY <1>h, <1>p DEF NsOK
<1>w. \A q \in Procs : pc'[q] \in Mounting => pc[q] \in Mounting /\ pc'[q] = pc[q] /\ q # p
  BY <1>p DEF Mounting
<1>1. TypesOK'
  BY <1>h, <1>p, <1>a, <1>b, <1>f DEF TypesOK
<1>2. CallsOK'
  BY <1>h, <1>p, <1>a, <1>f, NoneApart DEF CallsOK, Mounting, Copying
<1>3. LocalsOK'
  BY <1>h, <1>p, <1>a, <1>f DEF LocalsOK, Found, Mounting
<1>4. NsOK'
  BY <1>h, <1>p, <1>a, <1>f, NoneApart DEF NsOK
<1>5. HrOK'
  BY <1>h, <1>p, <1>a, <1>f, NoneApart DEF HrOK
<1>6. ReadersOK'
  <2>1. \A q \in Procs : pc'[q] = "union" => q # p /\ pc[q] = "union" /\ mh[q] # m[p]
    BY <1>h, <1>p, <1>a, <1>c DEF HrOK
  <2>2. \A q \in Procs : pc[q] = "union" => mh[q] \in Heads
    BY <1>h DEF LocalsOK, TypesOK, Found
  <2>3. QED
    BY <1>h, <1>a, <1>f, <1>s, <2>1, <2>2 DEF ReadersOK
<1>7. HwOK'
  BY <1>h, <1>p, <1>a, <1>f, NoneApart DEF HwOK
<1>8. TargetsOK'
  <2>1. \A q \in Procs : pc'[q] = "ufree" => m'[q] \in Heads /\ m'[q] \notin linked'
    BY <1>h, <1>p, <1>a, <1>l DEF TargetsOK
  <2>2. ASSUME NEW q \in Procs, pc'[q] \in Mounting \cup {"ulocks"}
        PROVE  m'[q] \in Heads /\ table'[op'[q].pt] = m'[q]
    <3>1. q # p /\ pc[q] \in Mounting /\ m'[q] = m[q] /\ op'[q] = op[q]
      BY <1>p, <1>a, <1>v, <2>2 DEF Mounting
    <3>2. m[q] \in Heads /\ table[op[q].pt] = m[q] /\ m[q] # m[p]
      BY <1>h, <1>d, <3>1 DEF TargetsOK
    <3>3. op[q].pt \in Points /\ op[q].pt # op[p].pt
      BY <1>h, <1>c, <3>1, <3>2, CallParts DEF TypesOK, CallsOK, Mounting
    <3>4. QED
      BY <1>f, <3>1, <3>2, <3>3
  <2>3. QED
    BY <2>1, <2>2 DEF TargetsOK
<1>9. TableOK'
  BY <1>h, <1>c, <1>f, NoneApart DEF TableOK
<1>10. RefsOK'
  BY <1>r
<1>11. MountsOK'
  <2>1. \A q \in Procs : pc'[q] = "link" => pc[q] = "link"
    BY <1>p
  <2>2. \A h \in Heads : \A y \in members'[h] : y \in members[h]
    BY <1>s
  <2>3. QED
    BY <1>h, <1>a, <2>1, <2>2 DEF MountsOK
<1>12. ListsOK'
  BY <1>h, <1>b, <1>u DEF ListsOK
<1>13. EmptyOK'
  <2>1. ASSUME NEW g, NEW q \in Procs, Replaces(q, g) PROVE Replaces(q, g)'
    BY <1>p, <1>a, <2>1 DEF Replaces, Mounting
  <2>2. \A h \in linked' : h \in linked /\ (list'[h] = <<>> => list[h] = <<>>)
    BY <1>b, <1>c, <1>l DEF linked
  <2>3. QED
    BY <1>h, <2>1, <2>2 DEF EmptyOK
<1>14. MadeOK'
  BY <1>h, <1>a, <1>b, <1>d, <1>w DEF MadeOK, Mounting
<1>15. RoomOK'
  BY <1>h, <1>a, <1>r, <1>t DEF RoomOK
<1>16. QED
  BY <1>1, <1>2, <1>3, <1>4, <1>5, <1>6, <1>7, <1>8, <1>9, <1>10, <1>11, <1>12, <1>13, <1>14, <1>15
     DEF IndInv, LookInv, HeadInv

(* cmount finds the Mhead of its point. *)
LEMMA FindsMheadOK ==
  ASSUME IndInv, NEW p \in Procs, MountFinds(p), table[op[p].pt] # None
  PROVE  IndInv'
<1>h. /\ TypesOK /\ CallsOK /\ LocalsOK /\ NsOK /\ HrOK /\ ReadersOK /\ HwOK /\ TargetsOK
      /\ TableOK /\ RefsOK /\ MountsOK /\ ListsOK /\ EmptyOK /\ MadeOK /\ RoomOK
  BY DEF IndInv, LookInv, HeadInv
<1>a. /\ pc[p] = "cmount" /\ pc' = [pc EXCEPT ![p] = "mlock"]
      /\ nsw = None /\ nsr = {} /\ nsw' = p /\ m' = [m EXCEPT ![p] = table[op[p].pt]]
      /\ UNCHANGED <<table, ref, list, nsr, hw, hr, op, mh, f, c, new, mountid, ops, crash>>
  BY DEF MountFinds, heads, Goto, Set
<1>p. /\ pc[p] = "cmount" /\ pc'[p] = "mlock" /\ pc' \in [Procs -> Places]
      /\ \A q \in Procs : q # p => pc'[q] = pc[q]
      /\ DOMAIN f = Procs /\ DOMAIN hr = Heads
  BY <1>h, <1>a DEF TypesOK, Places, Looking, Found, Mounting, Copying
<1>b. /\ op[p].pt \in Points /\ table[op[p].pt] \in Heads /\ c[p] = None
      /\ m'[p] = table[op[p].pt] /\ (\A q \in Procs : q # p => m'[q] = m[q])
      /\ m' = [q \in Procs |-> m'[q]]
  <2>1. op[p].pt \in Points
    BY <1>h, <1>p, CallParts DEF TypesOK, CallsOK
  <2>2. table[op[p].pt] \in Heads
    BY <1>h, <2>1 DEF TypesOK
  <2>3. c[p] = None
    BY <1>h, <1>p DEF LocalsOK
  <2>4. m'[p] = table[op[p].pt] /\ (\A q \in Procs : q # p => m'[q] = m[q]) /\ m' = [q \in Procs |-> m'[q]]
    BY <1>h, <1>a DEF TypesOK
  <2>5. QED
    BY <2>1, <2>2, <2>3, <2>4
<1>s. UNCHANGED <<members, users, linked, used>>
  BY <1>a DEF members, users, linked, used
<1>t. leaving' = leaving /\ starting' = starting \ {p} /\ p \in starting
  <2>1. starting' = starting \ {p} /\ p \in starting
    BY <1>p DEF starting
  <2>2. \A q \in Procs : (pc'[q] = "ufree" <=> pc[q] = "ufree") /\ (pc[q] = "ufree" => m'[q] = m[q])
    BY <1>p, <1>b
  <2>3. QED
    BY <2>1, <2>2 DEF leaving
<1>u. owned' = owned
  BY <1>s, <1>t DEF owned
<1>1. TypesOK'
  BY <1>h, <1>p, <1>a, <1>b, <1>s, <1>u, NoneApart DEF TypesOK
<1>2. CallsOK'
  BY <1>h, <1>p, <1>a, <1>b, <1>s, <1>u, NoneApart DEF CallsOK, Mounting, Copying
<1>3. LocalsOK'
  BY <1>h, <1>p, <1>a, <1>b, <1>s, <1>u, NoneApart DEF LocalsOK, Found, Mounting
<1>4. NsOK'
  BY <1>h, <1>p, <1>a, <1>b, <1>s, <1>u, NoneApart DEF NsOK
<1>5. HrOK'
  BY <1>h, <1>p, <1>a, <1>b, <1>s, <1>u, NoneApart DEF HrOK
<1>6. ReadersOK'
  BY <1>h, <1>p, <1>a, <1>b, <1>s, <1>u, NoneApart DEF ReadersOK
<1>7. HwOK'
  BY <1>h, <1>p, <1>a, <1>b, <1>s, <1>u, NoneApart DEF HwOK
<1>8. TargetsOK'
  BY <1>h, <1>p, <1>a, <1>b, <1>s, <1>u, NoneApart DEF TargetsOK, Mounting
<1>9. TableOK'
  BY <1>h, <1>p, <1>a, <1>b, <1>s, <1>u, NoneApart DEF TableOK
<1>10. RefsOK'
  BY <1>h, <1>p, <1>a, <1>b, <1>s, <1>u, NoneApart DEF RefsOK
<1>11. MountsOK'
  BY <1>h, <1>p, <1>a, <1>b, <1>s, <1>u, NoneApart DEF MountsOK
<1>12. ListsOK'
  BY <1>h, <1>p, <1>a, <1>b, <1>s, <1>u, NoneApart DEF ListsOK
<1>13. EmptyOK'
  <2>1. ASSUME NEW g, NEW q \in Procs, Replaces(q, g) PROVE Replaces(q, g)'
    BY <1>p, <1>a, <1>b, <2>1 DEF Replaces, Mounting
  <2>2. QED
    BY <1>h, <1>a, <1>s, <2>1 DEF EmptyOK
<1>14. MadeOK'
  BY <1>h, <1>p, <1>a, <1>b, <1>s, <1>u, NoneApart DEF MadeOK, Mounting
<1>15. RoomOK'
  <2>1. IsFiniteSet(starting') /\ Cardinality(starting') = Cardinality(starting) - 1
    BY <1>h, <1>t, CountMinus DEF RoomOK
  <2>2. Cardinality(used) \in Nat /\ Cardinality(starting) \in Nat /\ ops \in Nat
    BY <1>h, RoomCounts
  <2>3. QED
    BY <1>h, <1>a, <1>s, <2>1, <2>2 DEF RoomOK
<1>16. QED
  BY <1>1, <1>2, <1>3, <1>4, <1>5, <1>6, <1>7, <1>8, <1>9, <1>10, <1>11, <1>12, <1>13, <1>14, <1>15
     DEF IndInv, LookInv, HeadInv

(* cmount makes an Mhead for its point. *)
LEMMA MakesMheadOK ==
  ASSUME IndInv, NEW p \in Procs, MountFinds(p), table[op[p].pt] = None
  PROVE  IndInv'
<1>h. /\ TypesOK /\ CallsOK /\ LocalsOK /\ NsOK /\ HrOK /\ ReadersOK /\ HwOK /\ TargetsOK
      /\ TableOK /\ RefsOK /\ MountsOK /\ ListsOK /\ EmptyOK /\ MadeOK /\ RoomOK
  BY DEF IndInv, LookInv, HeadInv
<1>x. PICK h : h = newhead
  OBVIOUS
<1>y. PICK x : x = [id |-> mountid + 1, to |-> op[p].pt]
  OBVIOUS
<1>a. /\ pc[p] = "cmount" /\ pc' = [pc EXCEPT ![p] = "mlock"]
      /\ nsw = None /\ nsr = {} /\ nsw' = p
      /\ c' = [c EXCEPT ![p] = op[p].pt] /\ m' = [m EXCEPT ![p] = h]
      /\ table' = [table EXCEPT ![op[p].pt] = h] /\ ref' = [ref EXCEPT ![h] = 1]
      /\ list' = IF op[p].order = "MREPL" THEN list ELSE [list EXCEPT ![h] = <<x>>]
      /\ mountid' = IF op[p].order = "MREPL" THEN mountid ELSE mountid + 1
      /\ UNCHANGED <<nsr, hw, hr, op, mh, f, new, ops, crash>>
  BY <1>x, <1>y DEF MountFinds, Goto, Set
<1>p. /\ pc[p] = "cmount" /\ pc'[p] = "mlock" /\ pc' \in [Procs -> Places]
      /\ \A q \in Procs : q # p => pc'[q] = pc[q]
      /\ DOMAIN f = Procs /\ DOMAIN hr = Heads
  BY <1>h, <1>a DEF TypesOK, Places, Looking, Found, Mounting, Copying
<1>z. op[p].pt \in Points /\ x \in Mounts /\ x.id = mountid + 1 /\ x.to = op[p].pt /\ mountid \in Nat
  <2>1. op[p].pt \in Points /\ mountid \in Nat
    BY <1>h, <1>p, CallParts DEF TypesOK, CallsOK
  <2>2. QED
    BY <1>y, <2>1 DEF Mounts
<1>f. /\ h \in Heads /\ ref[h] = 0 /\ users[h] = {} /\ h \notin owned /\ list[h] = <<>> /\ members[h] = {}
      /\ hw[h] = None
  BY <1>h, <1>p, <1>x, FreeHead
<1>b. /\ table' \in [Points -> Heads \cup {None}] /\ table'[op[p].pt] = h
      /\ \A pt \in Points : pt # op[p].pt => table'[pt] = table[pt]
      /\ ref' \in [Heads -> Nat] /\ ref'[h] = 1 /\ \A g \in Heads : g # h => ref'[g] = ref[g]
  BY <1>h, <1>a, <1>f, <1>z DEF TypesOK
<1>c. /\ c' \in [Procs -> Points \cup Dirs \cup {None}] /\ c'[p] = op[p].pt
      /\ m'[p] = h /\ m' = [q \in Procs |-> m'[q]]
      /\ \A q \in Procs : q # p => m'[q] = m[q] /\ c'[q] = c[q]
  BY <1>h, <1>a, <1>z DEF TypesOK
<1>d. /\ list' \in [Heads -> Seq(Mounts)] /\ (\A g \in Heads : g # h => list'[g] = list[g])
      /\ op[p].order = "MREPL" => list'[h] = <<>>
      /\ op[p].order # "MREPL" => list'[h] = <<x>>
      /\ mountid' \in Nat /\ mountid' >= mountid /\ (op[p].order # "MREPL" => mountid' = mountid + 1)
  BY <1>h, <1>a, <1>f, <1>z DEF TypesOK
<1>l. linked' = linked \cup {h}
  BY <1>b, <1>f, <1>z, NoneApart DEF linked
<1>t. leaving' = leaving /\ starting' = starting \ {p} /\ p \in starting
  <2>1. starting' = starting \ {p} /\ p \in starting
    BY <1>p DEF starting
  <2>2. \A q \in Procs : (pc'[q] = "ufree" <=> pc[q] = "ufree") /\ (pc[q] = "ufree" => m'[q] = m[q])
    BY <1>p, <1>c
  <2>3. QED
    BY <2>1, <2>2 DEF leaving
<1>u. owned' = owned \cup {h} /\ users' = users
  BY <1>a, <1>l, <1>t DEF owned, users
<1>r. used' = used \cup {h} /\ h \notin used
  BY <1>b, <1>f DEF used
<1>s. /\ \A g \in Heads : g # h => members'[g] = members[g]
      /\ \A y \in members'[h] : y = x /\ op[p].order # "MREPL"
  <2>1. ASSUME NEW g \in Heads, list'[g] = list[g] PROVE members'[g] = members[g]
    BY <2>1 DEF members
  <2>2. ASSUME op[p].order # "MREPL" PROVE members'[h] = {x}
    <3>1. members'[h] = Elems(<<x>>)
      BY <1>d, <1>f, <2>2 DEF members, Elems
    <3>2. Len(<<x>>) = 1 /\ <<x>>[1] = x
      OBVIOUS
    <3>3. QED
      BY <3>1, <3>2 DEF Elems
  <2>3. ASSUME op[p].order = "MREPL" PROVE members'[h] = {}
    BY <1>d, <1>f, <2>1, <2>3
  <2>4. QED
    BY <1>d, <2>1, <2>2, <2>3
<1>v. \A q \in Procs : pc[q] \in Mounting => q # p /\ m[q] \in Heads /\ m[q] # h
  <2>1. \A q \in Procs : pc[q] \in Mounting => op[q].pt \in Points
    BY <1>h, CallParts DEF TypesOK, CallsOK, Mounting
  <2>2. QED
    BY <1>h, <1>p, <1>f, <2>1 DEF TargetsOK, owned, linked, Mounting
<1>w. \A q \in Procs : q # p => pc'[q] = pc[q] /\ pc'[q] # "mlock" /\ pc'[q] # "ulocks"
  BY <1>h, <1>p, <1>a, NoneApart DEF NsOK
<1>1. TypesOK'
  BY <1>h, <1>p, <1>a, <1>b, <1>c, <1>f, NoneApart, <1>d DEF TypesOK
<1>2. CallsOK'
  BY <1>h, <1>p, <1>a, <1>b, <1>c, <1>f, NoneApart DEF CallsOK, Mounting, Copying
<1>3. LocalsOK'
  BY <1>h, <1>p, <1>a, <1>b, <1>c, <1>f, NoneApart DEF LocalsOK, Found, Mounting
<1>4. NsOK'
  BY <1>h, <1>p, <1>a, <1>b, <1>c, <1>f, NoneApart DEF NsOK
<1>5. HrOK'
  BY <1>h, <1>p, <1>a, <1>b, <1>c, <1>f, NoneApart DEF HrOK
<1>6. ReadersOK'
  <2>1. \A q \in Procs : pc'[q] = "union" => pc[q] = "union" /\ mh[q] \in Heads /\ mh[q] # h
    BY <1>h, <1>p, <1>f DEF LocalsOK, TypesOK, Found, users
  <2>2. QED
    BY <1>h, <1>a, <1>s, <2>1 DEF ReadersOK
<1>7. HwOK'
  <2>1. \A g \in Heads, q \in Procs : q # p =>
          (hw[g] = q <=> pc[q] \in {"newmount", "link", "ufree"} /\ m[q] = g)
    BY <1>h DEF HwOK
  <2>2. \A g \in Heads : hw[g] # p
    BY <1>h, <1>p DEF HwOK
  <2>3. QED
    BY <1>p, <1>a, <1>c, <2>1, <2>2 DEF HwOK
<1>8. TargetsOK'
  <2>1. \A q \in Procs : pc'[q] = "ufree" => m'[q] \in Heads /\ m'[q] \notin linked'
    <3>1. \A q \in Procs : pc'[q] = "ufree" =>
            q # p /\ m[q] \in Heads /\ m[q] \notin linked /\ m[q] \in leaving
      BY <1>h, <1>p DEF TargetsOK, leaving
    <3>2. QED
      BY <1>c, <1>f, <1>l, <3>1 DEF owned
  <2>2. ASSUME NEW q \in Procs, pc'[q] \in Mounting \cup {"ulocks"}, q # p
        PROVE  m'[q] \in Heads /\ table'[op'[q].pt] = m'[q]
    <3>1. pc[q] \in Mounting /\ m'[q] = m[q] /\ op'[q] = op[q]
      BY <1>p, <1>a, <1>c, <1>w, <2>2 DEF Mounting
    <3>2. m[q] \in Heads /\ table[op[q].pt] = m[q]
      BY <1>h, <3>1 DEF TargetsOK
    <3>3. op[q].pt \in Points /\ op[q].pt # op[p].pt
      BY <1>h, <3>1, <3>2, CallParts, NoneApart DEF TypesOK, CallsOK, Mounting
    <3>4. QED
      BY <1>b, <3>1, <3>2, <3>3
  <2>3. m'[p] \in Heads /\ table'[op'[p].pt] = m'[p]
    BY <1>a, <1>b, <1>c, <1>f
  <2>4. QED
    BY <2>1, <2>2, <2>3 DEF TargetsOK
<1>9. TableOK'
  BY <1>h, <1>b, <1>f DEF TableOK, owned, linked
<1>10. RefsOK'
  <2>1. IsFiniteSet(users[h]) /\ Cardinality(users[h]) = 0
    BY <1>f, FS_EmptySet
  <2>2. /\ IsFiniteSet(users'[h]) /\ h \in owned'
        /\ ref'[h] = Cardinality(users'[h]) + 1
    BY <1>b, <1>u, <2>1
  <2>3. ASSUME NEW g \in Heads, g # h
        PROVE  /\ IsFiniteSet(users'[g])
               /\ ref'[g] = Cardinality(users'[g]) + (IF g \in owned' THEN 1 ELSE 0)
    <3>1. IsFiniteSet(users[g]) /\ ref[g] = Cardinality(users[g]) + (IF g \in owned THEN 1 ELSE 0)
      BY <1>h, <2>3 DEF RefsOK
    <3>2. ref'[g] = ref[g] /\ users'[g] = users[g] /\ (g \in owned' <=> g \in owned)
      BY <1>b, <1>u, <2>3
    <3>3. QED
      BY <3>1, <3>2
  <2>4. QED
    BY <2>2, <2>3 DEF RefsOK
<1>11. MountsOK'
  <2>1. \A g \in Heads : \A y \in members[g] : y \in Mounts /\ y.id \in Nat /\ y.id <= mountid
    BY <1>h, MembersAre DEF MountsOK, Mounts
  <2>2. \A g \in Heads : x \notin members[g]
    BY <1>z, <2>1
  <2>3. \A q \in Procs : pc'[q] = "link" =>
          /\ q # p /\ new[q] = <<new[q][1]>> /\ new[q][1] \in Mounts
          /\ new[q][1].id <= mountid /\ new[q][1].to = op[q].from
          /\ \A g \in Heads : new[q][1] \notin members[g]
    BY <1>h, <1>p DEF MountsOK
  <2>4. \A q \in Procs : pc'[q] = "link" => new[q][1].id \in Nat
    BY <2>3 DEF Mounts
  <2>5. \A q \in Procs : pc'[q] = "link" => new[q][1] # x /\ new[q][1].id <= mountid'
    BY <1>d, <1>z, <2>3, <2>4
  <2>6. \A q \in Procs : pc'[q] = "link" => \A g \in Heads : new[q][1] \notin members'[g]
    BY <1>f, <1>s, <2>3, <2>5
  <2>7. \A q, r \in Procs : pc'[q] = "link" /\ pc'[r] = "link" /\ new[q][1] = new[r][1] => q = r
    BY <1>h, <1>p DEF MountsOK
  <2>8. \A g \in Heads : \A y \in members'[g] : y.id <= mountid'
    BY <1>d, <1>f, <1>s, <1>z, <2>1
  <2>9. \A g, k \in Heads : \A y \in members'[g] : y \in members'[k] => g = k
    BY <1>h, <1>f, <1>s, <2>2 DEF MountsOK
  <2>10. QED
    BY <1>a, <2>3, <2>5, <2>6, <2>7, <2>8, <2>9 DEF MountsOK
<1>12. ListsOK'
  BY <1>h, <1>d, <1>f, <1>u DEF ListsOK
<1>13. EmptyOK'
  <2> SUFFICES ASSUME NEW g \in linked', list'[g] = <<>> PROVE \E q \in Procs : Replaces(q, g)'
    BY DEF EmptyOK
  <2>1. CASE g = h
    <3>1. op[p].order = "MREPL"
      <4>1. <<x>> # <<>>
        OBVIOUS
      <4>2. QED
        BY <1>d, <2>1, <4>1
    <3>2. Replaces(p, g)'
      BY <1>p, <1>a, <1>c, <1>z, <2>1, <3>1, NoneApart DEF Replaces, Mounting
    <3>3. QED
      BY <3>2
  <2>2. CASE g # h
    <3>1. g \in linked /\ list[g] = <<>>
      BY <1>d, <1>l, <2>2 DEF linked
    <3>2. PICK q \in Procs : Replaces(q, g)
      BY <1>h, <3>1 DEF EmptyOK
    <3>3. q # p
      BY <1>p, <3>2 DEF Replaces, Mounting
    <3>4. QED
      BY <1>p, <1>a, <1>c, <3>2, <3>3 DEF Replaces
  <2>3. QED
    BY <2>1, <2>2
<1>14. MadeOK'
  <2>1. /\ op'[p].order = "MREPL" => list'[m'[p]] = <<>>
        /\ op'[p].order # "MREPL" => Len(list'[m'[p]]) = 1 /\ list'[m'[p]][1].to = op'[p].pt
        /\ hw'[m'[p]] = None /\ pc'[p] # "link"
    BY <1>p, <1>a, <1>c, <1>d, <1>f, <1>z
  <2>2. \A q \in Procs : q # p /\ pc'[q] \in Mounting =>
          pc[q] \in Mounting /\ list'[m'[q]] = list[m[q]] /\ pc'[q] # "mlock"
    BY <1>c, <1>d, <1>v, <1>w
  <2>3. QED
    BY <1>h, <1>p, <1>a, <1>c, <2>1, <2>2 DEF MadeOK, Mounting
<1>15. RoomOK'
  <2>1. IsFiniteSet(starting') /\ Cardinality(starting') = Cardinality(starting) - 1
    BY <1>h, <1>t, CountMinus DEF RoomOK
  <2>2. /\ IsFiniteSet(used) /\ Cardinality(used) \in Nat /\ Cardinality(starting) \in Nat
        /\ ops \in Nat
    BY <1>h, RoomCounts
  <2>3. Cardinality(used') = Cardinality(used) + 1
    BY <1>r, <2>2, CountPlus
  <2>4. QED
    BY <1>h, <1>a, <2>1, <2>2, <2>3 DEF RoomOK
<1>16. QED
  BY <1>1, <1>2, <1>3, <1>4, <1>5, <1>6, <1>7, <1>8, <1>9, <1>10, <1>11, <1>12, <1>13, <1>14, <1>15
     DEF IndInv, LookInv, HeadInv
-----------------------------------------------------------------------------
LEMMA InitOK == Init => IndInv
<1> SUFFICES ASSUME Init PROVE IndInv
  OBVIOUS
<1>1. PICK x, y : x = [id |-> 2, to |-> First] /\ y = [id |-> 1, to |-> Union]
  OBVIOUS
<1>2. x \in Mounts /\ y \in Mounts /\ x.id = 2 /\ y.id = 1 /\ 1 \in Heads /\ Union \in Points
  BY <1>1, NamespaceAssumption DEF Mounts
<1>3. /\ DOMAIN list = Heads /\ list[1] = <<x, y>> /\ \A h \in Heads : h # 1 => list[h] = <<>>
      /\ mountid = 2
  BY <1>1, <1>2 DEF Init
<1>4. members[1] = {x, y} /\ \A h \in Heads : h # 1 => members[h] = {}
  <2>1. Len(<<x, y>>) = 2 /\ <<x, y>>[1] = x /\ <<x, y>>[2] = y
    OBVIOUS
  <2>2. Elems(<<x, y>>) = {x, y}
    <3>1. 1..2 = {1, 2}
      OBVIOUS
    <3>2. QED
      BY <2>1, <3>1 DEF Elems
  <2>3. members[1] = Elems(<<x, y>>)
    BY <1>2, <1>3 DEF members, Elems
  <2>4. ASSUME NEW h \in Heads, h # 1 PROVE members[h] = {}
    BY <1>3, <2>4 DEF members
  <2>5. QED
    BY <2>2, <2>3, <2>4
<1>5. linked = {1} /\ leaving = {} /\ owned = {1}
  <2>1. linked = {1}
    BY <1>2, NoneApart DEF Init, linked
  <2>2. leaving = {}
    BY DEF Init, leaving
  <2>3. QED
    BY <2>1, <2>2 DEF owned
<1>6. users = [h \in Heads |-> {}] /\ used = {1} /\ starting = {}
  BY <1>2, NoneApart DEF Init, users, used, starting
<1>7. TypesOK
  <2>1. <<x, y>> \in Seq(Mounts) /\ <<>> \in Seq(Mounts)
    BY <1>2
  <2>2. list \in [Heads -> Seq(Mounts)]
    BY <1>3, <2>1 DEF Init
  <2>3. QED
    BY <1>2, <2>2, NamespaceAssumption DEF Init, TypesOK, Places
<1>8. CallsOK /\ LocalsOK /\ NsOK /\ HrOK /\ ReadersOK
  <2>1. CallsOK
    BY DEF Init, CallsOK, Mounting, Copying
  <2>2. LocalsOK
    BY DEF Init, LocalsOK, Found, Mounting
  <2>3. NsOK /\ HrOK
    BY NoneApart DEF Init, NsOK, HrOK
  <2>4. ReadersOK
    BY DEF Init, ReadersOK
  <2>5. QED
    BY <2>1, <2>2, <2>3, <2>4
<1>9. HwOK /\ TargetsOK /\ TableOK
  <2>1. HwOK /\ TargetsOK
    BY NoneApart DEF Init, HwOK, TargetsOK, Mounting
  <2>2. TableOK
    BY DEF Init, TableOK
  <2>3. QED
    BY <2>1, <2>2
<1>10. RefsOK
  <2>1. IsFiniteSet({}) /\ Cardinality({}) = 0
    BY FS_EmptySet
  <2>2. \A h \in Heads : users[h] = {} /\ ref[h] = IF h \in owned THEN 1 ELSE 0
    BY <1>5, <1>6 DEF Init
  <2>3. QED
    BY <2>1, <2>2 DEF RefsOK
<1>11. MountsOK
  <2>1. \A p \in Procs : pc[p] # "link"
    BY DEF Init
  <2>2. QED
    BY <1>2, <1>3, <1>4, <2>1 DEF MountsOK
<1>12. ListsOK /\ EmptyOK /\ MadeOK
  <2>1. <<x, y>> # <<>>
    OBVIOUS
  <2>2. \A p \in Procs : pc[p] \notin Mounting
    BY DEF Init, Mounting
  <2>3. QED
    BY <1>3, <1>5, <2>1, <2>2 DEF ListsOK, EmptyOK, MadeOK, Mounting
<1>13. RoomOK
  <2>1. IsFiniteSet({}) /\ Cardinality({}) = 0 /\ Cardinality({1}) = 1
    BY FS_EmptySet, FS_Singleton
  <2>2. QED
    BY <1>6, <2>1 DEF RoomOK, Init
<1>14. QED
  BY <1>7, <1>8, <1>9, <1>10, <1>11, <1>12, <1>13 DEF IndInv, LookInv, HeadInv

LEMMA StutterOK == IndInv /\ UNCHANGED vars => IndInv'
<1> SUFFICES ASSUME IndInv, UNCHANGED vars PROVE IndInv'
  OBVIOUS
<1>1. UNCHANGED <<table, ref, list, nsw, nsr, hw, hr, pc, op, m, mh, f, c, new, mountid, ops, crash>>
  BY DEF vars, heads, locks, locals
<1>2. UNCHANGED <<members, users, linked, leaving, used, starting>>
  BY <1>1 DEF members, users, linked, leaving, used, starting
<1>3. owned' = owned
  BY <1>2 DEF owned
<1>4. LookInv'
  BY <1>1, <1>2 DEF IndInv, LookInv, TypesOK, CallsOK, LocalsOK, NsOK, HrOK, ReadersOK
<1>5. HwOK' /\ TargetsOK' /\ TableOK' /\ RefsOK' /\ MountsOK'
  BY <1>1, <1>2, <1>3 DEF IndInv, HeadInv, HwOK, TargetsOK, TableOK, RefsOK, MountsOK
<1>6. ListsOK' /\ EmptyOK' /\ MadeOK' /\ RoomOK'
  BY <1>1, <1>2, <1>3 DEF IndInv, HeadInv, ListsOK, EmptyOK, Replaces, MadeOK, RoomOK
<1>7. QED
  BY <1>4, <1>5, <1>6 DEF IndInv, HeadInv

LEMMA NextOK == IndInv /\ [Next]_vars => IndInv'
<1> SUFFICES ASSUME IndInv, [Next]_vars PROVE IndInv'
  OBVIOUS
<1>1. ASSUME NEW p \in Procs, NEW o \in Ops, Call(p, o) PROVE IndInv'
  BY <1>1, CallOK
<1>2. ASSUME NEW p \in Procs, Step(p) PROVE IndInv'
  <2>1. CASE Return(p)
    BY <2>1, ReturnOK
  <2>2. CASE FindLocks(p)
    BY <2>2, FindLocksOK
  <2>3. CASE findmount(p)
    BY <2>3, findmountOK
  <2>4. CASE FindsNone(p)
    BY <2>4, FindsNoneOK
  <2>5. CASE WalkFirst(p)
    BY <2>5, WalkFirstOK
  <2>6. CASE UnionLocks(p)
    BY <2>6, UnionLocksOK
  <2>7. CASE UnionNext(p)
    BY <2>7, UnionNextOK
  <2>8. CASE UnionUnlocks(p)
    BY <2>8, UnionUnlocksOK
  <2>9. CASE WalkType(p)
    BY <2>9, WalkTypeOK
  <2>10. CASE OpenLooks(p)
    BY <2>10, OpenLooksOK
  <2>11. CASE OpenKeeps(p)
    BY <2>11, OpenKeepsOK
  <2>12. CASE UndoLocks(p)
    BY <2>12, UndoLocksOK
  <2>13. CASE UndoLooks(p)
    BY <2>13, UndoLooksOK
  <2>14. CASE UndoUnlocks(p)
    BY <2>14, UndoUnlocksOK
  <2>15. CASE MountLocks(p)
    BY <2>15, MountLocksOK
  <2>16. CASE NewMount(p)
    BY <2>16, NewMountOK
  <2>17. CASE MountLinks(p)
    BY <2>17, MountLinksOK
  <2>18. CASE UnmountFinds(p)
    BY <2>18, UnmountFindsOK
  <2>19. CASE UnmountAll(p)
    BY <2>19, UnmountAllOK
  <2>20. CASE UnmountFrees(p)
    BY <2>20, UnmountFreesOK
  <2>21. CASE UnmountOne(p)
    BY <2>21, UnmountOneOK
  <2>22. CASE CopyLocks(p)
    BY <2>22, CopyLocksOK
  <2>23. CASE CopyIds(p)
    BY <2>23, CopyIdsOK
  <2>24. CASE CopyUnlocks(p)
    BY <2>24, CopyUnlocksOK
  <2>25. CASE MountFinds(p)
    BY <2>25, FindsMheadOK, MakesMheadOK
  <2>26. CASE \E pt \in Points : CopyList(p, pt)
    BY <2>26, CopyListOK
  <2>27. QED
    BY <1>2, <2>1, <2>2, <2>3, <2>4, <2>5, <2>6, <2>7, <2>8, <2>9, <2>10, <2>11, <2>12, <2>13,
       <2>14, <2>15, <2>16, <2>17, <2>18, <2>19, <2>20, <2>21, <2>22, <2>23, <2>24, <2>25, <2>26 DEF Step
<1>3. CASE UNCHANGED vars
  BY <1>3, StutterOK
<1>4. QED
  BY <1>1, <1>2, <1>3 DEF Next, Over

LEMMA Invariance == Spec => []IndInv
<1>1. QED
  BY InitOK, NextOK, PTL DEF Spec

(* The reference of the table to an Mhead, and that of a cunmount. *)
LEMMA OwnersCount ==
  ASSUME IndInv, NEW h \in Heads
  PROVE  \E a, b \in Nat : /\ a = Cardinality({pt \in Points : table[pt] = h})
                           /\ b = Cardinality({p \in Procs : pc[p] = "ufree" /\ m[p] = h})
                           /\ a + b = IF h \in owned THEN 1 ELSE 0
<1>h. HwOK /\ TargetsOK /\ TableOK
  BY DEF IndInv, HeadInv
<1>1. PICK a, b : a = {pt \in Points : table[pt] = h} /\ b = {p \in Procs : pc[p] = "ufree" /\ m[p] = h}
  OBVIOUS
<1>2. h \in linked => \E pt : a = {pt}
  BY <1>h, <1>1, NoneApart DEF linked, TableOK
<1>3. h \notin linked => a = {}
  BY <1>1 DEF linked
<1>4. h \in leaving => \E p : b = {p}
  BY <1>h, <1>1 DEF leaving, HwOK
<1>5. h \notin leaving => b = {}
  BY <1>1 DEF leaving
<1>6. ~ (h \in linked /\ h \in leaving)
  BY <1>h DEF leaving, TargetsOK
<1>7. Cardinality({}) = 0 /\ \A x : Cardinality({x}) = 1
  BY FS_EmptySet, FS_Singleton
<1>8. /\ Cardinality(a) = IF h \in linked THEN 1 ELSE 0
      /\ Cardinality(b) = IF h \in leaving THEN 1 ELSE 0
  BY <1>2, <1>3, <1>4, <1>5, <1>7
<1>9. /\ Cardinality(a) \in Nat /\ Cardinality(b) \in Nat
      /\ Cardinality(a) + Cardinality(b) = IF h \in owned THEN 1 ELSE 0
  BY <1>6, <1>8 DEF owned
<1>10. QED
  BY <1>1, <1>9

(***************************************************************************)
(* The mount table, the references to its Mheads and their lists agree:    *)
(* putmhead frees an Mhead once, with its last user and when no lock of it *)
(* is held, and the Mhead findmount meets has a Mount, although cmount     *)
(* enters it empty and cunmount empties it.                                *)
(***************************************************************************)
THEOREM HeadsAreExact == Spec => []HeadsExact
<1>1. IndInv => HeadsExact
  <2> SUFFICES ASSUME IndInv PROVE HeadsExact
    OBVIOUS
  <2>h. TypesOK /\ CallsOK /\ HrOK /\ HwOK /\ TargetsOK /\ RefsOK /\ ListsOK
    BY DEF IndInv, LookInv, HeadInv
  <2>1. TypeOK
    <3>1. \A h \in Heads : \A i \in DOMAIN list[h] : list[h][i] \in Mounts
      BY <2>h DEF TypesOK
    <3>2. QED
      BY <2>h, <3>1 DEF TypesOK, TypeOK, CallsOK
  <2>2. ASSUME NEW h \in Heads
        PROVE  /\ ref[h] = Cardinality({pt \in Points : table[pt] = h}) + Cardinality({p \in Procs : mh[p] = h})
                           + Cardinality({p \in Procs : pc[p] = "ufree" /\ m[p] = h})
               /\ ref[h] = 0 => list[h] = <<>> /\ hw[h] = None /\ hr[h] = {}
    <3>1. /\ users[h] = {p \in Procs : mh[p] = h} /\ Cardinality(users[h]) \in Nat
          /\ ref[h] = Cardinality(users[h]) + (IF h \in owned THEN 1 ELSE 0)
          /\ ref[h] = 0 <=> users[h] = {} /\ h \notin owned
      BY <2>h, RefsAre DEF users
    <3>2. PICK a, b \in Nat : /\ a = Cardinality({pt \in Points : table[pt] = h})
                              /\ b = Cardinality({p \in Procs : pc[p] = "ufree" /\ m[p] = h})
                              /\ a + b = IF h \in owned THEN 1 ELSE 0
      BY OwnersCount
    <3>4. ref[h] = a + Cardinality(users[h]) + b
      BY <3>1, <3>2
    <3>5. ASSUME ref[h] = 0 PROVE list[h] = <<>> /\ hw[h] = None /\ hr[h] = {}
      <4>1. users[h] = {} /\ h \notin owned
        BY <3>1, <3>5
      <4>2. hr[h] = {} /\ list[h] = <<>>
        BY <2>h, <4>1 DEF TypesOK, HrOK, ListsOK, users
      <4>3. hw[h] = None
        BY <4>1, UnownedUnlocked
      <4>4. QED
        BY <4>2, <4>3
    <3>6. QED
      BY <3>1, <3>2, <3>4, <3>5
  <2>3. HeadRefs
    BY <2>2 DEF HeadRefs
  <2>4. FoundHasMounts
    BY <2>h, FoundFull DEF FoundHasMounts, linked, TypesOK
  <2>5. QED
    BY <2>1, <2>3, <2>4 DEF HeadsExact
<1>2. QED
  BY <1>1, Invariance, PTL

(***************************************************************************)
(* A process that goes through a union with the lock of its Mhead stands   *)
(* on a Mount of that list: cmount and cunmount free none under it.        *)
(***************************************************************************)
THEOREM ReadersSafe == Spec => []LockedReadersSafe
<1>1. IndInv => LockedReadersSafe
  <2> SUFFICES ASSUME IndInv, NEW p \in Procs, pc[p] = "union", f[p] # None
               PROVE  \E i \in DOMAIN list[mh[p]] : list[mh[p]][i] = f[p]
    BY DEF LockedReadersSafe
  <2>1. TypesOK /\ mh[p] \in Heads /\ f[p] \in members[mh[p]]
    BY DEF IndInv, LookInv, TypesOK, LocalsOK, ReadersOK, Found
  <2>2. QED
    BY <2>1, MembersAre
<1>2. QED
  BY <1>1, Invariance, PTL
-----------------------------------------------------------------------------
(* The refinement of MountTable.  The directories of a list, before and     *)
(* after a Mount is linked or unlinked.                                     *)
LEMMA ToIs ==
  ASSUME NEW s \in Seq(Mounts)
  PROVE  /\ To(s) \in Seq(Points \cup Dirs) /\ Len(To(s)) = Len(s) /\ DOMAIN To(s) = 1..Len(s)
         /\ \A i \in 1..Len(s) : To(s)[i] = s[i].to
         /\ To(s) = <<>> <=> s = <<>>
<1>1. DOMAIN s = 1..Len(s) /\ Len(s) \in Nat /\ \A i \in 1..Len(s) : s[i] \in Mounts
  OBVIOUS
<1>2. \A i \in 1..Len(s) : s[i].to \in Points \cup Dirs
  BY <1>1 DEF Mounts
<1>3. To(s) = [i \in 1..Len(s) |-> s[i].to]
  BY <1>1 DEF To
<1>4. To(s) \in Seq(Points \cup Dirs) /\ Len(To(s)) = Len(s)
  BY <1>1, <1>2, <1>3
<1>5. To(s) = <<>> <=> s = <<>>
  BY <1>1, <1>4, EmptySeq
<1>6. QED
  BY <1>3, <1>4, <1>5

LEMMA ToOne ==
  ASSUME NEW x \in Mounts
  PROVE  To(<<x>>) = <<x.to>>
<1>1. DOMAIN <<x>> = {1} /\ <<x>>[1] = x
  OBVIOUS
<1>2. To(<<x>>) = [i \in {1} |-> x.to]
  BY <1>1 DEF To
<1>3. QED
  BY <1>2

LEMMA ToLink ==
  ASSUME NEW s \in Seq(Mounts), NEW x \in Mounts
  PROVE  To(<<x>> \o s) = <<x.to>> \o To(s) /\ To(s \o <<x>>) = To(s) \o <<x.to>>
<1>1. /\ To(s) \in Seq(Points \cup Dirs) /\ Len(To(s)) = Len(s) /\ Len(s) \in Nat
      /\ \A i \in 1..Len(s) : To(s)[i] = s[i].to
  BY ToIs
<1>2. x.to \in Points \cup Dirs
  BY DEF Mounts
<1>0. <<x>> \in Seq(Mounts) /\ <<x.to>> \in Seq(Points \cup Dirs)
  BY <1>2
<1>a. PICK y \in Seq(Mounts) : y = <<x>>
  BY <1>0
<1>b. PICK d \in Seq(Points \cup Dirs) : d = <<x.to>>
  BY <1>0
<1>3. y = <<x>> /\ d = <<x.to>>
  BY <1>a, <1>b
<1>4. Len(y) = 1 /\ y[1] = x /\ Len(d) = 1 /\ d[1] = x.to
  BY <1>3
<1>5. /\ y \o s \in Seq(Mounts) /\ Len(y \o s) = Len(y) + Len(s)
      /\ \A i \in 1..(Len(y) + Len(s)) : (y \o s)[i] = IF i <= Len(y) THEN y[i] ELSE s[i - Len(y)]
      /\ s \o y \in Seq(Mounts) /\ Len(s \o y) = Len(s) + Len(y)
      /\ \A i \in 1..(Len(s) + Len(y)) : (s \o y)[i] = IF i <= Len(s) THEN s[i] ELSE y[i - Len(s)]
  BY ConcatProperties
<1>6. /\ d \o To(s) \in Seq(Points \cup Dirs) /\ Len(d \o To(s)) = Len(d) + Len(To(s))
      /\ \A i \in 1..(Len(d) + Len(To(s))) :
           (d \o To(s))[i] = IF i <= Len(d) THEN d[i] ELSE To(s)[i - Len(d)]
      /\ To(s) \o d \in Seq(Points \cup Dirs) /\ Len(To(s) \o d) = Len(To(s)) + Len(d)
      /\ \A i \in 1..(Len(To(s)) + Len(d)) :
           (To(s) \o d)[i] = IF i <= Len(To(s)) THEN To(s)[i] ELSE d[i - Len(To(s))]
  BY <1>1, ConcatProperties
<1>7. To(y \o s) = d \o To(s)
  <2>1. PICK a \in Seq(Mounts), b \in Seq(Points \cup Dirs) : a = y \o s /\ b = d \o To(s)
    BY <1>5, <1>6
  <2>2. /\ To(a) \in Seq(Points \cup Dirs) /\ Len(To(a)) = Len(a)
        /\ \A i \in 1..Len(a) : To(a)[i] = a[i].to
    BY ToIs
  <2>3. Len(a) = Len(s) + 1 /\ Len(b) = Len(s) + 1
    BY <1>1, <1>4, <1>5, <1>6, <2>1
  <2>4. ASSUME NEW i \in 1..(Len(s) + 1) PROVE a[i].to = b[i]
    <3>1. CASE i = 1
      BY <1>1, <1>4, <1>5, <1>6, <2>1, <3>1
    <3>2. CASE i # 1
      <4>1. i - 1 \in 1..Len(s) /\ ~(i <= 1)
        BY <1>1, <3>2
      <4>2. a[i] = s[i - 1] /\ b[i] = To(s)[i - 1]
        BY <1>1, <1>4, <1>5, <1>6, <2>1, <4>1
      <4>3. QED
        BY <1>1, <4>1, <4>2
    <3>3. QED
      BY <3>1, <3>2
  <2>5. To(a) = b
    BY SMTT(60), <2>2, <2>3, <2>4, SeqEqual
  <2>6. QED
    BY <2>1, <2>5
<1>8. To(s \o y) = To(s) \o d
  <2>1. PICK a \in Seq(Mounts), b \in Seq(Points \cup Dirs) : a = s \o y /\ b = To(s) \o d
    BY <1>5, <1>6
  <2>2. /\ To(a) \in Seq(Points \cup Dirs) /\ Len(To(a)) = Len(a)
        /\ \A i \in 1..Len(a) : To(a)[i] = a[i].to
    BY ToIs
  <2>3. Len(a) = Len(s) + 1 /\ Len(b) = Len(s) + 1
    BY <1>1, <1>4, <1>5, <1>6, <2>1
  <2>4. ASSUME NEW i \in 1..(Len(s) + 1) PROVE a[i].to = b[i]
    <3>1. CASE i <= Len(s)
      <4>1. a[i] = s[i] /\ b[i] = To(s)[i]
        BY <1>1, <1>4, <1>5, <1>6, <2>1, <3>1
      <4>2. QED
        BY <1>1, <3>1, <4>1
    <3>2. CASE ~(i <= Len(s))
      <4>1. i - Len(s) = 1
        BY <1>1, <3>2
      <4>2. a[i] = y[1] /\ b[i] = d[1]
        BY <1>1, <1>4, <1>5, <1>6, <2>1, <3>2, <4>1
      <4>3. QED
        BY <1>4, <4>2
    <3>3. QED
      BY <3>1, <3>2
  <2>5. To(a) = b
    BY <2>2, <2>3, <2>4, SeqEqual
  <2>6. QED
    BY <2>1, <2>5
<1>9. QED
  BY <1>3, <1>7, <1>8

LEMMA ToUnlink ==
  ASSUME NEW s \in Seq(Mounts), NEW k \in 1..Len(s), NEW t, Unlinked(t, s, k)
  PROVE  Unlinked(To(t), To(s), k)
<1>1. /\ To(s) \in Seq(Points \cup Dirs) /\ Len(To(s)) = Len(s) /\ Len(s) \in Nat
      /\ \A i \in 1..Len(s) : To(s)[i] = s[i].to
  BY ToIs
<1>2. /\ t \in Seq(Mounts) /\ Len(t) = Len(s) - 1
      /\ \A i \in 1..Len(t) : t[i] = IF i < k THEN s[i] ELSE s[i + 1]
  BY UnlinkOne
<1>3. PICK v \in Seq(Points \cup Dirs) : v = To(s)
  BY <1>1
<1>4. PICK u : u = SubSeq(v, 1, k - 1) \o SubSeq(v, k + 1, Len(v))
  OBVIOUS
<1>5. k \in 1..Len(v) /\ Unlinked(u, v, k)
  BY <1>1, <1>3, <1>4 DEF Unlinked
<1>6. /\ u \in Seq(Points \cup Dirs) /\ Len(u) = Len(v) - 1
      /\ \A i \in 1..Len(u) : u[i] = IF i < k THEN v[i] ELSE v[i + 1]
  BY <1>5, UnlinkOne
<1>7. /\ To(t) \in Seq(Points \cup Dirs) /\ Len(To(t)) = Len(t)
      /\ \A i \in 1..Len(t) : To(t)[i] = t[i].to
  BY <1>2, ToIs
<1>8. ASSUME NEW i \in 1..Len(t) PROVE To(t)[i] = u[i]
  <2>1. i \in 1..Len(s) /\ i + 1 \in 1..Len(s) /\ i \in 1..Len(u)
    BY <1>1, <1>2, <1>3, <1>6
  <2>2. QED
    BY <1>1, <1>2, <1>3, <1>6, <1>7, <2>1
<1>9. To(t) = u
  BY SMTT(60), <1>1, <1>2, <1>3, <1>6, <1>7, <1>8, SeqEqual
<1>10. QED
  BY <1>3, <1>5, <1>9

(* Who is on its way to change what a point shows: an Mhead it has made for *)
(* a union, which is not seen yet, or a list it has replaced.               *)
Making(pt) ==
  \E q \in Procs : pc[q] \in Mounting /\ m[q] = table[pt] /\ c[q] = pt /\ op[q].order # "MREPL"
Replacing(q, pt) == pc[q] = "link" /\ m[q] = table[pt] /\ op[q].order = "MREPL"

LEMMA VisibleIs ==
  ASSUME IndInv, NEW pt \in Points
  PROVE  /\ table[pt] = None \/ Making(pt) => Visible(pt) = <<>>
         /\ table[pt] # None /\ ~ Making(pt) =>
              /\ \A q \in Procs : Replacing(q, pt) => Visible(pt) = To(new[q])
              /\ (\A q \in Procs : ~ Replacing(q, pt)) => Visible(pt) = To(list[table[pt]])
<1>1. PICK h, mounting : h = table[pt] /\ mounting = {q \in Procs : pc[q] \in Mounting /\ m[q] = h}
  OBVIOUS
<1>2. Visible(pt) =
        IF h = None \/ (\E q \in mounting : c[q] = pt /\ op[q].order # "MREPL") THEN <<>>
        ELSE IF \E q \in mounting : pc[q] = "link" /\ op[q].order = "MREPL"
             THEN To(new[CHOOSE q \in mounting : pc[q] = "link"])
             ELSE To(list[h])
  BY <1>1 DEF Visible, Mounting
<1>3. Making(pt) <=> \E q \in mounting : c[q] = pt /\ op[q].order # "MREPL"
  BY <1>1 DEF Making
<1>4. \A q \in Procs : Replacing(q, pt) <=> q \in mounting /\ pc[q] = "link" /\ op[q].order = "MREPL"
  BY <1>1 DEF Replacing, Mounting
<1>5. h # None => h \in Heads
  BY <1>1 DEF IndInv, LookInv, TypesOK
<1>6. ASSUME NEW q \in Procs, Replacing(q, pt), h # None
      PROVE  (CHOOSE r \in mounting : pc[r] = "link") = q
  <2>1. q \in mounting /\ pc[q] = "link"
    BY <1>4, <1>6
  <2>2. \A r \in mounting : pc[r] = "link" => r \in Procs /\ m[r] = h
    BY <1>1
  <2>3. \A r \in mounting : pc[r] = "link" => r = q
    BY <1>5, <1>6, <2>1, <2>2 DEF IndInv, HeadInv, HwOK
  <2>4. QED
    BY <2>1, <2>3
<1>7. mounting \subseteq Procs
  BY <1>1
<1>8. QED
  BY <1>1, <1>2, <1>3, <1>4, <1>6, <1>7

LEMMA VisibleIsNext ==
  ASSUME IndInv', NEW pt \in Points
  PROVE  /\ table'[pt] = None \/ Making(pt)' => Visible(pt)' = <<>>
         /\ table'[pt] # None /\ ~ Making(pt)' =>
              /\ \A q \in Procs : Replacing(q, pt)' => Visible(pt)' = To(new'[q])
              /\ (\A q \in Procs : ~ Replacing(q, pt)') => Visible(pt)' = To(list'[table'[pt]])
<1>1. PICK h, mounting : h = table'[pt] /\ mounting = {q \in Procs : pc'[q] \in Mounting /\ m'[q] = h}
  OBVIOUS
<1>2. Visible(pt)' =
        IF h = None \/ (\E q \in mounting : c'[q] = pt /\ op'[q].order # "MREPL") THEN <<>>
        ELSE IF \E q \in mounting : pc'[q] = "link" /\ op'[q].order = "MREPL"
             THEN To(new'[CHOOSE q \in mounting : pc'[q] = "link"])
             ELSE To(list'[h])
  BY <1>1 DEF Visible, Mounting
<1>3. Making(pt)' <=> \E q \in mounting : c'[q] = pt /\ op'[q].order # "MREPL"
  BY <1>1 DEF Making
<1>4. \A q \in Procs : Replacing(q, pt)' <=> q \in mounting /\ pc'[q] = "link" /\ op'[q].order = "MREPL"
  BY <1>1 DEF Replacing, Mounting
<1>5. h # None => h \in Heads
  BY <1>1 DEF IndInv, LookInv, TypesOK
<1>6. ASSUME NEW q \in Procs, Replacing(q, pt)', h # None
      PROVE  (CHOOSE r \in mounting : pc'[r] = "link") = q
  <2>1. q \in mounting /\ pc'[q] = "link"
    BY <1>4, <1>6
  <2>2. \A r \in mounting : pc'[r] = "link" => r \in Procs /\ m'[r] = h
    BY <1>1
  <2>3. \A r \in mounting : pc'[r] = "link" => r = q
    BY <1>5, <1>6, <2>1, <2>2 DEF IndInv, HeadInv, HwOK
  <2>4. QED
    BY <2>1, <2>3
<1>7. mounting \subseteq Procs
  BY <1>1
<1>8. QED
  BY <1>1, <1>2, <1>3, <1>4, <1>6, <1>7

(* A step that concerns none of it leaves what the point shows. *)
LEMMA SameVisible ==
  ASSUME IndInv, IndInv', NEW pt \in Points, table'[pt] = table[pt],
         Making(pt)' <=> Making(pt), \A q \in Procs : Replacing(q, pt)' <=> Replacing(q, pt),
         \A q \in Procs : Replacing(q, pt) => new'[q] = new[q],
         table[pt] # None /\ (\A q \in Procs : ~ Replacing(q, pt)) => list'[table[pt]] = list[table[pt]]
  PROVE  Visible(pt)' = Visible(pt)
  BY VisibleIs, VisibleIsNext

(* The steps of MountTable. *)
TableStep == [Table!Next]_<<[pt \in Points |-> Visible(pt)], [p \in Procs |-> Want(p)]>>

LEMMA TableStutters ==
  ASSUME \A pt \in Points : Visible(pt)' = Visible(pt), \A q \in Procs : Want(q)' = Want(q)
  PROVE  TableStep
<1>1. [pt \in Points |-> Visible(pt)]' = [pt \in Points |-> Visible(pt)]
  OBVIOUS
<1>2. [p \in Procs |-> Want(p)]' = [p \in Procs |-> Want(p)]
  OBVIOUS
<1>3. QED
  BY <1>1, <1>2 DEF TableStep

LEMMA TableCalls ==
  ASSUME NEW p \in Procs, NEW o \in Changes, \A pt \in Points : Visible(pt)' = Visible(pt),
         \A q \in Procs : q # p => Want(q)' = Want(q),
         Want(p) = None, Want(p)' = [call |-> o, done |-> FALSE]
  PROVE  TableStep
<1>1. [pt \in Points |-> Visible(pt)]' = [pt \in Points |-> Visible(pt)]
  OBVIOUS
<1>2. [q \in Procs |-> Want(q)]' = [[q \in Procs |-> Want(q)] EXCEPT ![p] = [call |-> o, done |-> FALSE]]
  OBVIOUS
<1>3. Table!Call(p, o)
  BY <1>1, <1>2 DEF Table!Call
<1>4. QED
  BY <1>3 DEF TableStep, Table!Next

LEMMA WantsNotNone ==
  ASSUME NEW o \in Op
  PROVE  [call |-> o, done |-> FALSE] # None /\ [call |-> o, done |-> TRUE] # None
<1>1. FALSE \in BOOLEAN /\ TRUE \in BOOLEAN
  OBVIOUS
<1>2. /\ [call |-> o, done |-> FALSE] \in [call : Op, done : BOOLEAN]
      /\ [call |-> o, done |-> TRUE] \in [call : Op, done : BOOLEAN]
  BY <1>1, Zenon
<1>3. QED
  BY <1>2, NamespaceAssumption, Zenon

LEMMA TableReturns ==
  ASSUME NEW p \in Procs, NEW o \in Op, \A pt \in Points : Visible(pt)' = Visible(pt),
         \A q \in Procs : q # p => Want(q)' = Want(q),
         Want(p) = [call |-> o, done |-> TRUE], Want(p)' = None
  PROVE  TableStep
<1>1. [pt \in Points |-> Visible(pt)]' = [pt \in Points |-> Visible(pt)]
  OBVIOUS
<1>2. [q \in Procs |-> Want(q)]' = [[q \in Procs |-> Want(q)] EXCEPT ![p] = None]
  OBVIOUS
<1>3. [q \in Procs |-> Want(q)][p] = [call |-> o, done |-> TRUE]
  BY Zenon
<1>4. [call |-> o, done |-> TRUE].done /\ [call |-> o, done |-> TRUE] # None
  <2>1. [call |-> o, done |-> TRUE].done
    BY Zenon
  <2>2. QED
    BY <2>1, WantsNotNone
<1>5. Table!Return(p)
  BY <1>1, <1>2, <1>3, <1>4, Zenon DEF Table!Return
<1>6. QED
  BY <1>5 DEF TableStep, Table!Next

LEMMA SetDone ==
  ASSUME NEW o, NEW a, NEW b
  PROVE  [[call |-> o, done |-> a] EXCEPT !.done = b] = [call |-> o, done |-> b]
  OBVIOUS

LEMMA TableChanges ==
  ASSUME NEW p \in Procs, NEW o \in Changes,
         \A pt \in Points : pt # o.pt => Visible(pt)' = Visible(pt),
         Visible(o.pt)' = IF o.type = "bind" THEN Table!Bound(Visible(o.pt), o)
                          ELSE Table!Unbound(Visible(o.pt), o),
         \A q \in Procs : q # p => Want(q)' = Want(q),
         Want(p) = [call |-> o, done |-> FALSE], Want(p)' = [call |-> o, done |-> TRUE]
  PROVE  TableStep
<1>1. PICK v : v = IF o.type = "bind" THEN Table!Bound(Visible(o.pt), o) ELSE Table!Unbound(Visible(o.pt), o)
  OBVIOUS
<1>2. o \in Ops /\ o \in Op /\ o.pt \in Points
  BY CallParts, NamespaceAssumption DEF Changes
<1>3. [call |-> o, done |-> FALSE] # None
  BY <1>2, WantsNotNone
<1>4. [pt \in Points |-> Visible(pt)]' = [[pt \in Points |-> Visible(pt)] EXCEPT ![o.pt] = v]
  BY <1>1, <1>2
<1>5. [[call |-> o, done |-> FALSE] EXCEPT !.done = TRUE] = [call |-> o, done |-> TRUE]
  BY SetDone, Zenon
<1>6. [q \in Procs |-> Want(q)]' =
        [[q \in Procs |-> Want(q)] EXCEPT ![p] = [[call |-> o, done |-> FALSE] EXCEPT !.done = TRUE]]
  BY <1>5, Zenon
<1>7. [q \in Procs |-> Want(q)][p] = [call |-> o, done |-> FALSE]
  BY Zenon
<1>8. [q \in Procs |-> Want(q)]' = [[q \in Procs |-> Want(q)] EXCEPT ![p].done = TRUE]
  BY <1>6, <1>7, Zenon
<1>9. [call |-> o, done |-> FALSE].call = o /\ ~ [call |-> o, done |-> FALSE].done
  BY Zenon
<1>10. Table!Effect(p)
  BY <1>1, <1>2, <1>3, <1>4, <1>7, <1>8, <1>9, Zenon DEF Table!Effect
<1>11. QED
  BY <1>10 DEF TableStep, Table!Next

(* What MountTable knows of a process. *)
LEMMA WantIs ==
  ASSUME NEW p \in Procs
  PROVE  /\ op[p] \notin Changes => Want(p) = None
         /\ op[p] \in Changes /\ InEffect(p) => Want(p) = [call |-> op[p], done |-> TRUE]
         /\ op[p] \in Changes /\ ~ InEffect(p) => Want(p) = [call |-> op[p], done |-> FALSE]
<1>1. InEffect(p) => InEffect(p) = TRUE
  BY Zenon DEF InEffect
<1>2. ~ InEffect(p) => InEffect(p) = FALSE
  BY Zenon DEF InEffect
<1>3. QED
  BY <1>1, <1>2, Zenon DEF Want

LEMMA WantIsNext ==
  ASSUME NEW p \in Procs
  PROVE  /\ op'[p] \notin Changes => Want(p)' = None
         /\ op'[p] \in Changes /\ InEffect(p)' => Want(p)' = [call |-> op'[p], done |-> TRUE]
         /\ op'[p] \in Changes /\ ~ InEffect(p)' => Want(p)' = [call |-> op'[p], done |-> FALSE]
<1>1. InEffect(p)' => InEffect(p)' = TRUE
  BY Zenon DEF InEffect
<1>2. ~ InEffect(p)' => InEffect(p)' = FALSE
  BY Zenon DEF InEffect
<1>3. QED
  BY <1>1, <1>2, Zenon DEF Want

LEMMA WantSame ==
  ASSUME NEW p \in Procs, op'[p] = op[p], op[p] \in Changes => (InEffect(p)' <=> InEffect(p))
  PROVE  Want(p)' = Want(p)
  BY WantIs, WantIsNext, Zenon

LEMMA WantOthers ==
  ASSUME NEW p \in Procs, \A q \in Procs : q # p => pc'[q] = pc[q] /\ op'[q] = op[q]
  PROVE  \A q \in Procs : q # p => Want(q)' = Want(q)
<1>1. ASSUME NEW q \in Procs, q # p PROVE Want(q)' = Want(q)
  <2>1. pc'[q] = pc[q] /\ op'[q] = op[q]
    BY <1>1
  <2>2. InEffect(q)' <=> InEffect(q)
    BY <2>1 DEF InEffect
  <2>3. QED
    BY <2>1, <2>2, WantSame
<1>2. QED
  BY <1>1

LEMMA AsideVisible ==
  ASSUME IndInv, IndInv', NEW p \in Procs, Aside(p), NEW pt \in Points
  PROVE  Visible(pt)' = Visible(pt)
<1>1. /\ pc[p] \notin Mounting /\ pc'[p] \notin Mounting /\ table' = table /\ list' = list
      /\ \A q \in Procs : q # p => /\ pc'[q] = pc[q] /\ op'[q] = op[q] /\ m'[q] = m[q]
                                   /\ c'[q] = c[q] /\ new'[q] = new[q]
  BY DEF Aside, Changing
<1>2. Making(pt)' <=> Making(pt)
  BY <1>1 DEF Making
<1>3. \A q \in Procs : Replacing(q, pt)' <=> Replacing(q, pt)
  BY <1>1 DEF Replacing, Mounting
<1>4. \A q \in Procs : Replacing(q, pt) => new'[q] = new[q]
  BY <1>1 DEF Replacing, Mounting
<1>5. QED
  BY <1>1, <1>2, <1>3, <1>4, SameVisible

(* A call that only looks is no step of MountTable. *)
LEMMA LooksStep ==
  ASSUME IndInv, IndInv', NEW p \in Procs, LooksOn(p)
  PROVE  TableStep
<1>1. Aside(p) /\ op' = op /\ pc[p] \in Looking \cup Copying
  BY DEF LooksOn
<1>2. \A pt \in Points : Visible(pt)' = Visible(pt)
  BY <1>1, AsideVisible
<1>3. op[p] \notin Changes
  BY <1>1 DEF IndInv, LookInv, CallsOK, Looking, Found, Copying, Changes
<1>4. Want(p)' = Want(p)
  BY <1>1, <1>3, WantIs, WantIsNext
<1>5. \A q \in Procs : q # p => Want(q)' = Want(q)
  BY <1>1, WantOthers DEF Aside
<1>6. QED
  BY <1>2, <1>4, <1>5, TableStutters

(* A call begins, and returns. *)
LEMMA CallStep ==
  ASSUME IndInv, IndInv', NEW p \in Procs, NEW o \in Ops, Call(p, o), Aside(p)
  PROVE  TableStep
<1>1. \A pt \in Points : Visible(pt)' = Visible(pt)
  BY AsideVisible
<1>2. pc[p] = "idle" /\ pc' = [pc EXCEPT ![p] = Starts(o)] /\ op' = [op EXCEPT ![p] = o]
  BY DEF Call, Goto, Set
<1>3. op[p] = None /\ op'[p] = o /\ pc'[p] = Starts(o)
  BY <1>2 DEF IndInv, LookInv, TypesOK, CallsOK
<1>4. Want(p) = None
  BY <1>3, NoneApart, WantIs DEF Changes
<1>5. \A q \in Procs : q # p => Want(q)' = Want(q)
  BY WantOthers DEF Aside
<1>6. ~ InEffect(p)'
  BY <1>3, StartsAre DEF InEffect
<1>7. CASE o \in Changes
  BY <1>1, <1>3, <1>4, <1>5, <1>6, <1>7, WantIsNext, TableCalls
<1>8. CASE o \notin Changes
  BY <1>1, <1>3, <1>4, <1>5, <1>8, WantIsNext, TableStutters
<1>9. QED
  BY <1>7, <1>8

LEMMA ReturnStep ==
  ASSUME IndInv, IndInv', NEW p \in Procs, Return(p), Aside(p)
  PROVE  TableStep
<1>1. \A pt \in Points : Visible(pt)' = Visible(pt)
  BY AsideVisible
<1>2. pc[p] = "put" /\ op' = [op EXCEPT ![p] = None]
  BY DEF Return, Goto, Set
<1>3. op[p] \in Ops /\ op'[p] = None
  BY <1>2 DEF IndInv, LookInv, TypesOK, CallsOK
<1>4. Want(p)' = None
  BY <1>3, NoneApart, WantIsNext DEF Changes
<1>5. \A q \in Procs : q # p => Want(q)' = Want(q)
  BY WantOthers DEF Aside
<1>6. InEffect(p)
  BY <1>2 DEF InEffect
<1>7. CASE op[p] \in Changes
  <2>1. Want(p) = [call |-> op[p], done |-> TRUE]
    BY <1>6, <1>7, WantIs
  <2>2. op[p] \in Op
    BY <1>3, NamespaceAssumption
  <2>3. QED
    BY <1>1, <1>4, <1>5, <2>1, <2>2, TableReturns
<1>8. CASE op[p] \notin Changes
  BY <1>1, <1>4, <1>5, <1>8, WantIs, TableStutters
<1>9. QED
  BY <1>7, <1>8

(* A step of a process on its way to change a point leaves the others. *)
Others(p) ==
  \A q \in Procs : q # p => /\ pc'[q] = pc[q] /\ op'[q] = op[q] /\ m'[q] = m[q]
                            /\ c'[q] = c[q] /\ new'[q] = new[q]
LEMMA OthersVisible ==
  ASSUME IndInv, IndInv', NEW p \in Procs, Others(p), NEW pt \in Points, table'[pt] = table[pt],
         pc[p] \in Mounting => m[p] # table[pt], pc'[p] \in Mounting => m'[p] # table[pt],
         table[pt] # None => list'[table[pt]] = list[table[pt]]
  PROVE  Visible(pt)' = Visible(pt)
<1>1. Making(pt)' <=> Making(pt)
  BY DEF Others, Making
<1>2. \A q \in Procs : Replacing(q, pt)' <=> Replacing(q, pt)
  BY DEF Others, Replacing, Mounting
<1>3. \A q \in Procs : Replacing(q, pt) => new'[q] = new[q]
  BY DEF Others, Replacing, Mounting
<1>4. QED
  BY <1>1, <1>2, <1>3, SameVisible

LEMMA ChangerIs ==
  ASSUME IndInv, NEW p \in Procs,
         pc[p] \in {"cmount", "cunmount", "ulocks", "ufree"} \cup Mounting
  PROVE  /\ op[p] \in Ops /\ op[p] \in Changes /\ op[p].pt \in Points
         /\ pc[p] \in {"cmount"} \cup Mounting => op[p].type = "bind"
         /\ pc[p] \in {"cunmount", "ulocks", "ufree"} => op[p].type = "unmount"
<1>1. TypesOK /\ CallsOK
  BY DEF IndInv, LookInv
<1>2. op[p] \in Ops
  BY <1>1 DEF TypesOK, CallsOK, Mounting
<1>3. /\ pc[p] \in {"cmount"} \cup Mounting => op[p].type = "bind"
      /\ pc[p] \in {"cunmount", "ulocks", "ufree"} => op[p].type = "unmount"
  BY <1>1 DEF CallsOK
<1>4. QED
  BY <1>2, <1>3, CallParts DEF Changes

(* The point of a process that changes its Mhead, and no other. *)
LEMMA PointIs ==
  ASSUME IndInv, NEW p \in Procs, pc[p] \in Mounting \cup {"ulocks"}
  PROVE  /\ m[p] \in Heads /\ m[p] # None /\ table[op[p].pt] = m[p]
         /\ \A pt \in Points : pt # op[p].pt => table[pt] # m[p]
<1>1. TargetsOK /\ TableOK
  BY DEF IndInv, HeadInv
<1>2. m[p] \in Heads /\ table[op[p].pt] = m[p] /\ op[p].pt \in Points
  BY <1>1, ChangerIs DEF TargetsOK
<1>3. QED
  BY <1>1, <1>2, NoneApart DEF TableOK

LEMMA MountLocksStep ==
  ASSUME IndInv, IndInv', NEW p \in Procs, MountLocks(p)
  PROVE  TableStep
<1>a. /\ pc[p] = "mlock" /\ pc' = [pc EXCEPT ![p] = "newmount"]
      /\ UNCHANGED <<table, list, op, m, c, new>>
  BY DEF MountLocks, heads, locals, Goto, Set
<1>b. pc'[p] = "newmount" /\ Others(p)
  BY <1>a DEF IndInv, LookInv, TypesOK, Others
<1>c. ASSUME NEW pt \in Points PROVE Visible(pt)' = Visible(pt)
  <2>1. Making(pt)' <=> Making(pt)
    BY <1>a, <1>b DEF Making, Others, Mounting
  <2>2. \A q \in Procs : Replacing(q, pt)' <=> Replacing(q, pt)
    BY <1>a, <1>b DEF Replacing, Others
  <2>3. QED
    BY <1>a, <2>1, <2>2, SameVisible
<1>d. Want(p)' = Want(p)
  BY <1>a, <1>b, WantSame DEF InEffect
<1>e. \A q \in Procs : q # p => Want(q)' = Want(q)
  BY <1>b, WantOthers DEF Others
<1>f. QED
  BY <1>c, <1>d, <1>e, TableStutters

LEMMA NewMountStep ==
  ASSUME IndInv, IndInv', NEW p \in Procs, NewMount(p)
  PROVE  TableStep
<1>o. PICK o : o = op[p]
  OBVIOUS
<1>x. PICK x : x = [id |-> mountid + 1, to |-> o.from]
  OBVIOUS
<1>a. /\ pc[p] = "newmount" /\ pc' = [pc EXCEPT ![p] = "link"] /\ new' = [new EXCEPT ![p] = <<x>>]
      /\ list' = IF o.order = "MREPL" THEN [list EXCEPT ![m[p]] = <<>>] ELSE list
      /\ UNCHANGED <<table, op, m, c>> /\ op'[p] = o
  BY <1>o, <1>x DEF NewMount, Goto, Set
<1>t. TypesOK /\ CallsOK
  BY DEF IndInv, LookInv
<1>b. pc'[p] = "link" /\ Others(p) /\ new'[p] = <<x>>
  BY <1>a, <1>t DEF TypesOK, Others
<1>c. /\ o \in Ops /\ o \in Changes /\ o.pt \in Points /\ o.type = "bind"
      /\ o.from \in Dirs
  BY <1>o, <1>a, ChangerIs, CallParts DEF Mounting
<1>d. /\ m[p] \in Heads /\ m[p] # None /\ table[o.pt] = m[p]
      /\ \A pt \in Points : pt # o.pt => table[pt] # m[p]
  BY <1>o, <1>a, PointIs DEF Mounting
<1>e. \A q \in Procs : q # p => Want(q)' = Want(q)
  BY <1>b, WantOthers DEF Others
<1>f. CASE o.order # "MREPL"
  <2>1. ASSUME NEW pt \in Points PROVE Visible(pt)' = Visible(pt)
    <3>1. Making(pt)' <=> Making(pt)
      BY <1>a, <1>b DEF Making, Others, Mounting
    <3>2. \A q \in Procs : Replacing(q, pt)' <=> Replacing(q, pt)
      BY <1>o, <1>a, <1>b, <1>f DEF Replacing, Others
    <3>3. \A q \in Procs : Replacing(q, pt) => new'[q] = new[q]
      BY <1>a, <1>b DEF Replacing, Others
    <3>4. QED
      BY <1>a, <1>f, <3>1, <3>2, <3>3, SameVisible
  <2>2. Want(p)' = Want(p)
    BY <1>o, <1>a, <1>b, <1>f, WantSame DEF InEffect
  <2>3. QED
    BY <1>e, <2>1, <2>2, TableStutters
<1>g. CASE o.order = "MREPL"
  <2>1. ASSUME NEW pt \in Points, pt # o.pt PROVE Visible(pt)' = Visible(pt)
    <3>1. table'[pt] = table[pt] /\ table[pt] # m[p] /\ m'[p] = m[p]
      BY <1>a, <1>d, <2>1
    <3>2. table[pt] # None => list'[table[pt]] = list[table[pt]]
      BY <1>a, <1>t, <1>g, <2>1, <3>1 DEF TypesOK
    <3>3. QED
      BY <1>b, <3>1, <3>2, OthersVisible
  <2>2. ~ Making(o.pt)'
    <3>1. ASSUME NEW q \in Procs, pc'[q] \in Mounting, m'[q] = table'[o.pt], c'[q] = o.pt,
                 op'[q].order # "MREPL"
          PROVE  FALSE
      <4>1. q # p
        BY <1>a, <1>g, <3>1
      <4>2. pc[q] \in Mounting /\ m[q] = m[p] /\ c[q] = o.pt
        BY <1>a, <1>b, <1>d, <3>1, <4>1 DEF Others
      <4>3. c[q] = None
        BY <1>a, <4>1, <4>2, OthersWait
      <4>4. QED
        BY <1>c, <4>2, <4>3, NoneApart
    <3>2. QED
      BY <3>1 DEF Making
  <2>3. Replacing(p, o.pt)'
    BY <1>a, <1>b, <1>d, <1>g DEF Replacing
  <2>4. Visible(o.pt)' = To(<<x>>)
    BY <1>a, <1>b, <1>c, <1>d, <2>2, <2>3, VisibleIsNext
  <2>5. To(<<x>>) = <<o.from>>
    <3>1. x \in Mounts /\ x.to = o.from
      BY <1>x, <1>t, <1>c DEF Mounts, TypesOK
    <3>2. QED
      BY <3>1, ToOne
  <2>6. Table!Bound(Visible(o.pt), o) = <<o.from>>
    BY <1>g DEF Table!Bound
  <2>7. Want(p) = [call |-> o, done |-> FALSE] /\ Want(p)' = [call |-> o, done |-> TRUE]
    <3>1. ~ InEffect(p) /\ InEffect(p)'
      BY <1>o, <1>a, <1>b, <1>c, <1>g DEF InEffect
    <3>2. QED
      BY <1>o, <1>a, <1>c, <3>1, WantIs, WantIsNext
  <2>8. QED
    BY <1>c, <1>e, <2>1, <2>4, <2>5, <2>6, <2>7, TableChanges
<1>h. QED
  BY <1>f, <1>g

LEMMA MountLinksStep ==
  ASSUME IndInv, IndInv', NEW p \in Procs, MountLinks(p)
  PROVE  TableStep
<1>o. PICK o : o = op[p]
  OBVIOUS
<1>w. PICK t : t = IF o.order = "MAFTER" THEN list[m[p]] \o new[p] ELSE new[p] \o list[m[p]]
  OBVIOUS
<1>a. /\ pc[p] = "link" /\ pc' = [pc EXCEPT ![p] = "put"] /\ list' = [list EXCEPT ![m[p]] = t]
      /\ UNCHANGED <<table, op, m, c, new>> /\ op'[p] = o
  BY <1>o, <1>w DEF MountLinks, locals, Goto, Set
<1>t. TypesOK /\ MountsOK /\ MadeOK /\ LocalsOK /\ EmptyOK
  BY DEF IndInv, LookInv, HeadInv
<1>c. /\ o \in Ops /\ o \in Changes /\ o.pt \in Points /\ o.type = "bind"
      /\ o.from \in Dirs /\ o.order \in {"MREPL", "MBEFORE", "MAFTER"}
  BY <1>o, <1>a, ChangerIs, CallParts DEF Mounting
<1>d. /\ m[p] \in Heads /\ m[p] # None /\ table[o.pt] = m[p]
      /\ \A pt \in Points : pt # o.pt => table[pt] # m[p]
  BY <1>o, <1>a, PointIs DEF Mounting
<1>b. /\ pc'[p] = "put" /\ Others(p) /\ list'[m[p]] = t
      /\ \A h \in Heads : h # m[p] => list'[h] = list[h]
  BY <1>a, <1>d, <1>t DEF TypesOK, Others
<1>e. \A q \in Procs : q # p => Want(q)' = Want(q)
  BY <1>b, WantOthers DEF Others
<1>f. ASSUME NEW pt \in Points, pt # o.pt PROVE Visible(pt)' = Visible(pt)
  <2>1. table'[pt] = table[pt] /\ table[pt] # m[p] /\ m'[p] = m[p]
    BY <1>a, <1>d, <1>f
  <2>2. table[pt] # None => list'[table[pt]] = list[table[pt]]
    BY <1>b, <1>t, <2>1 DEF TypesOK
  <2>3. QED
    BY <1>b, <2>1, <2>2, OthersVisible
<1>g. \A q \in Procs : q # p /\ pc[q] \in Mounting /\ m[q] = m[p] => c[q] = None /\ pc[q] # "link"
  BY <1>a, OthersWait
<1>h. Making(o.pt) <=> c[p] = o.pt /\ o.order # "MREPL"
  <2>1. pc[p] \in Mounting
    BY <1>a DEF Mounting
  <2>2. \A q \in Procs : q # p /\ pc[q] \in Mounting /\ m[q] = m[p] => c[q] # o.pt
    BY <1>c, <1>g, NoneApart
  <2>3. QED
    BY <1>o, <1>d, <2>1, <2>2 DEF Making
<1>i. \A q \in Procs : Replacing(q, o.pt) => q = p
  BY <1>d, <1>g DEF Replacing, Mounting
<1>j. ~ Making(o.pt)' /\ \A q \in Procs : ~ Replacing(q, o.pt)'
  <2>1. pc'[p] \notin Mounting
    BY <1>b DEF Mounting
  <2>2. \A q \in Procs : q # p /\ pc'[q] \in Mounting /\ m'[q] = m[p] => c'[q] # o.pt /\ pc'[q] # "link"
    BY <1>b, <1>c, <1>g, NoneApart DEF Others
  <2>3. table'[o.pt] = m[p]
    BY <1>a, <1>d
  <2>4. ~ Making(o.pt)'
    BY <2>1, <2>2, <2>3 DEF Making
  <2>5. \A q \in Procs : ~ Replacing(q, o.pt)'
    BY <2>1, <2>2, <2>3 DEF Replacing, Mounting
  <2>6. QED
    BY <2>4, <2>5
<1>k. Visible(o.pt)' = To(t)
  <2>1. table'[o.pt] = m[p]
    BY <1>a, <1>d
  <2>2. QED
    BY <1>b, <1>c, <1>d, <1>j, <2>1, VisibleIsNext
<1>l. PICK x \in Mounts : new[p] = <<x>> /\ x.to = o.from
  BY <1>o, <1>a, <1>t DEF MountsOK
<1>m. PICK s \in Seq(Mounts) : s = list[m[p]]
  BY <1>d, <1>t DEF TypesOK
<1>n. /\ o.order = "MAFTER" => To(t) = To(s) \o <<o.from>>
      /\ o.order # "MAFTER" => To(t) = <<o.from>> \o To(s)
  BY <1>w, <1>l, <1>m, ToLink
<1>p. CASE o.order = "MREPL"
  <2>1. Replacing(p, o.pt) /\ ~ Making(o.pt)
    BY <1>o, <1>a, <1>d, <1>h, <1>p DEF Replacing
  <2>2. Visible(o.pt) = To(<<x>>)
    BY <1>c, <1>d, <1>l, <2>1, VisibleIs
  <2>3. s = <<>>
    BY <1>o, <1>a, <1>m, <1>p, <1>t DEF MadeOK
  <2>4. t = <<x>>
    <3>1. t = <<x>> \o <<>>
      BY <1>w, <1>l, <1>m, <1>p, <2>3
    <3>2. <<x>> \in Seq(Mounts)
      OBVIOUS
    <3>3. QED
      BY <3>1, <3>2, ConcatEmptySeq
  <2>5. \A pt \in Points : Visible(pt)' = Visible(pt)
    BY <1>f, <1>k, <2>2, <2>4
  <2>6. Want(p)' = Want(p)
    BY <1>o, <1>a, <1>b, <1>c, <1>p, WantSame DEF InEffect
  <2>7. QED
    BY <1>e, <2>5, <2>6, TableStutters
<1>q. CASE o.order # "MREPL"
  <2>1. PICK base : base = IF Visible(o.pt) = <<>> THEN <<o.pt>> ELSE Visible(o.pt)
    OBVIOUS
  <2>2. base = To(s)
    <3>1. CASE c[p] = o.pt
      <4>1. Visible(o.pt) = <<>>
        BY <1>c, <1>h, <1>q, <3>1, VisibleIs
      <4>2. Len(s) = 1 /\ s[1].to = o.pt
        BY <1>o, <1>a, <1>c, <1>m, <1>q, <1>t, <3>1, NoneApart DEF MadeOK, Mounting
      <4>3. s[1] \in Mounts /\ s = <<s[1]>>
        <5>1. s[1] \in Mounts
          <6>1. 1 \in 1..Len(s) /\ DOMAIN s = 1..Len(s)
            BY <4>2
          <6>2. QED
            BY <6>1
        <5>2. <<s[1]>> \in Seq(Mounts) /\ Len(<<s[1]>>) = 1 /\ <<s[1]>>[1] = s[1]
          BY <5>1
        <5>3. \A i \in 1..Len(s) : s[i] = <<s[1]>>[i]
          BY <4>2, <5>2
        <5>4. s = <<s[1]>>
          BY <4>2, <5>2, <5>3, SeqEqual
        <5>5. QED
          BY <5>1, <5>4
      <4>4. To(s) = <<o.pt>>
        BY <4>2, <4>3, ToOne
      <4>5. QED
        BY <2>1, <4>1, <4>4
    <3>2. CASE c[p] # o.pt
      <4>1. ~ Making(o.pt) /\ \A q \in Procs : ~ Replacing(q, o.pt)
        BY <1>o, <1>h, <1>i, <1>q, <3>2 DEF Replacing
      <4>2. Visible(o.pt) = To(s)
        BY <1>c, <1>d, <1>m, <4>1, VisibleIs
      <4>3. s # <<>>
        <5>1. SUFFICES ASSUME s = <<>> PROVE FALSE
          OBVIOUS
        <5>2. m[p] \in linked
          BY <1>c, <1>d DEF linked
        <5>3. PICK q \in Procs : Replaces(q, m[p])
          BY <1>m, <1>t, <5>1, <5>2 DEF EmptyOK
        <5>4. QED
          BY <1>o, <1>g, <1>q, <5>3 DEF Replaces
      <4>4. To(s) # <<>>
        BY <4>3, ToIs
      <4>5. QED
        BY <2>1, <4>2, <4>4
    <3>3. QED
      BY <3>1, <3>2
  <2>3. Table!Bound(Visible(o.pt), o) = To(t)
    <3>1. CASE o.order = "MBEFORE"
      BY <1>n, <2>1, <2>2, <3>1 DEF Table!Bound
    <3>2. CASE o.order = "MAFTER"
      BY <1>n, <2>1, <2>2, <3>2 DEF Table!Bound
    <3>3. QED
      BY <1>c, <1>q, <3>1, <3>2
  <2>4. Want(p) = [call |-> o, done |-> FALSE] /\ Want(p)' = [call |-> o, done |-> TRUE]
    <3>1. ~ InEffect(p) /\ InEffect(p)'
      BY <1>o, <1>a, <1>b, <1>q DEF InEffect
    <3>2. QED
      BY <1>o, <1>a, <1>c, <3>1, WantIs, WantIsNext
  <2>5. QED
    BY <1>c, <1>e, <1>f, <1>k, <2>3, <2>4, TableChanges
<1>r. QED
  BY <1>p, <1>q

LEMMA UnmountFindsStep ==
  ASSUME IndInv, IndInv', NEW p \in Procs, UnmountFinds(p)
  PROVE  TableStep
<1>o. PICK o : o = op[p]
  OBVIOUS
<1>a. /\ pc[p] = "cunmount" /\ m' = [m EXCEPT ![p] = table[o.pt]]
      /\ pc' = [pc EXCEPT ![p] = IF table[o.pt] = None THEN "put" ELSE "ulocks"]
      /\ UNCHANGED <<table, list, op, c, new>> /\ op'[p] = o
  BY <1>o DEF UnmountFinds, heads, Goto, Set
<1>c. o \in Ops /\ o \in Changes /\ o.pt \in Points /\ o.type = "unmount"
  BY <1>o, <1>a, ChangerIs
<1>b. /\ pc'[p] = IF table[o.pt] = None THEN "put" ELSE "ulocks"
      /\ Others(p)
  BY <1>a DEF IndInv, LookInv, TypesOK, Others
<1>e. \A q \in Procs : q # p => Want(q)' = Want(q)
  BY <1>b, WantOthers DEF Others
<1>f. \A pt \in Points : Visible(pt)' = Visible(pt)
  <2>1. pc[p] \notin Mounting /\ pc'[p] \notin Mounting
    BY <1>a, <1>b DEF Mounting
  <2>2. QED
    BY <1>a, <1>b, <2>1, OthersVisible
<1>g. CASE table[o.pt] = None
  <2>1. Visible(o.pt) = <<>>
    BY <1>c, <1>g, VisibleIs
  <2>2. Table!Unbound(<<>>, o) = <<>>
    <3>1. {i \in DOMAIN <<>> : <<>>[i] = o.from} = {}
      OBVIOUS
    <3>2. QED
      BY <3>1 DEF Table!Unbound
  <2>3. Want(p) = [call |-> o, done |-> FALSE] /\ Want(p)' = [call |-> o, done |-> TRUE]
    <3>1. ~ InEffect(p) /\ InEffect(p)'
      BY <1>a, <1>b, <1>g DEF InEffect
    <3>2. QED
      BY <1>o, <1>a, <1>c, <3>1, WantIs, WantIsNext
  <2>4. QED
    BY <1>c, <1>e, <1>f, <2>1, <2>2, <2>3, TableChanges
<1>h. CASE table[o.pt] # None
  <2>1. Want(p)' = Want(p)
    BY <1>a, <1>b, <1>h, WantSame DEF InEffect
  <2>2. QED
    BY <1>e, <1>f, <2>1, TableStutters
<1>i. QED
  BY <1>g, <1>h

LEMMA UnmountAllStep ==
  ASSUME IndInv, IndInv', NEW p \in Procs, UnmountAll(p)
  PROVE  TableStep
<1>o. PICK o : o = op[p]
  OBVIOUS
<1>a. /\ pc[p] = "ulocks" /\ pc' = [pc EXCEPT ![p] = "ufree"] /\ o.from = None
      /\ table' = [table EXCEPT ![o.pt] = None]
      /\ UNCHANGED <<list, op, m, c, new>> /\ op'[p] = o
  BY <1>o DEF UnmountAll, locals, Goto, Set
<1>c. o \in Ops /\ o \in Changes /\ o.pt \in Points /\ o.type = "unmount"
  BY <1>o, <1>a, ChangerIs
<1>b. /\ pc'[p] = "ufree" /\ Others(p) /\ table'[o.pt] = None
      /\ \A pt \in Points : pt # o.pt => table'[pt] = table[pt]
  BY <1>a, <1>c DEF IndInv, LookInv, TypesOK, Others
<1>e. \A q \in Procs : q # p => Want(q)' = Want(q)
  BY <1>b, WantOthers DEF Others
<1>f. \A pt \in Points : pt # o.pt => Visible(pt)' = Visible(pt)
  <2>1. pc[p] \notin Mounting /\ pc'[p] \notin Mounting
    BY <1>a, <1>b DEF Mounting
  <2>2. QED
    BY <1>a, <1>b, <2>1, OthersVisible
<1>g. Visible(o.pt)' = <<>>
  BY <1>b, <1>c, VisibleIsNext
<1>h. Table!Unbound(Visible(o.pt), o) = <<>>
  BY <1>a DEF Table!Unbound
<1>i. Want(p) = [call |-> o, done |-> FALSE] /\ Want(p)' = [call |-> o, done |-> TRUE]
  <2>1. ~ InEffect(p) /\ InEffect(p)'
    BY <1>a, <1>b DEF InEffect
  <2>2. QED
    BY <1>o, <1>a, <1>c, <2>1, WantIs, WantIsNext
<1>j. QED
  BY <1>c, <1>e, <1>f, <1>g, <1>h, <1>i, TableChanges

LEMMA UnmountFreesStep ==
  ASSUME IndInv, IndInv', NEW p \in Procs, UnmountFrees(p)
  PROVE  TableStep
<1>a. /\ pc[p] = "ufree" /\ pc' = [pc EXCEPT ![p] = "put"] /\ list' = [list EXCEPT ![m[p]] = <<>>]
      /\ UNCHANGED <<table, op, m, c, new>>
  BY DEF UnmountFrees, Goto, Set
<1>t. TypesOK /\ TargetsOK
  BY DEF IndInv, LookInv, HeadInv
<1>b. /\ pc'[p] = "put" /\ Others(p) /\ \A h \in Heads : h # m[p] => list'[h] = list[h]
  BY <1>a, <1>t DEF TypesOK, Others
<1>e. \A q \in Procs : q # p => Want(q)' = Want(q)
  BY <1>b, WantOthers DEF Others
<1>f. ASSUME NEW pt \in Points PROVE Visible(pt)' = Visible(pt)
  <2>1. pc[p] \notin Mounting /\ pc'[p] \notin Mounting
    BY <1>a, <1>b DEF Mounting
  <2>2. table[pt] # m[p]
    BY <1>a, <1>t DEF TargetsOK, linked
  <2>3. table[pt] # None => list'[table[pt]] = list[table[pt]]
    BY <1>b, <1>t, <2>2 DEF TypesOK
  <2>4. QED
    BY <1>a, <1>b, <2>1, <2>3, OthersVisible
<1>g. Want(p)' = Want(p)
  BY <1>a, <1>b, WantSame DEF InEffect
<1>h. QED
  BY <1>e, <1>f, <1>g, TableStutters

LEMMA UnmountOneStep ==
  ASSUME IndInv, IndInv', NEW p \in Procs, UnmountOne(p)
  PROVE  TableStep
<1>o. PICK o : o = op[p]
  OBVIOUS
<1>a. /\ pc[p] = "ulocks" /\ pc' = [pc EXCEPT ![p] = "put"] /\ o.from # None /\ hw[m[p]] = None
      /\ UNCHANGED <<op, m, c, new>> /\ op'[p] = o
  BY <1>o DEF UnmountOne, Goto, Set
<1>t. TypesOK
  BY DEF IndInv, LookInv
<1>c. o \in Ops /\ o \in Changes /\ o.pt \in Points /\ o.type = "unmount"
  BY <1>o, <1>a, ChangerIs
<1>d. /\ m[p] \in Heads /\ m[p] # None /\ table[o.pt] = m[p]
      /\ \A pt \in Points : pt # o.pt => table[pt] # m[p]
  BY <1>o, <1>a, PointIs
<1>b. pc'[p] = "put" /\ Others(p)
  BY <1>a, <1>t DEF TypesOK, Others
<1>e. \A q \in Procs : q # p => Want(q)' = Want(q)
  BY <1>b, WantOthers DEF Others
<1>p. pc[p] \notin Mounting /\ pc'[p] \notin Mounting
  BY <1>a, <1>b DEF Mounting
<1>g. \A q \in Procs : pc[q] \in Mounting => m[q] # m[p]
  BY <1>a, NobodyMounts
<1>m. PICK s \in Seq(Mounts) : s = list[m[p]]
  BY <1>d, <1>t DEF TypesOK
<1>v. Visible(o.pt) = To(s)
  <2>1. ~ Making(o.pt) /\ \A q \in Procs : ~ Replacing(q, o.pt)
    BY <1>d, <1>g DEF Making, Replacing, Mounting
  <2>2. QED
    BY <1>c, <1>d, <1>m, <2>1, VisibleIs
<1>w. table'[o.pt] = m[p] => Visible(o.pt)' = To(list'[m[p]])
  <2>1. ASSUME table'[o.pt] = m[p] PROVE Visible(o.pt)' = To(list'[m[p]])
    <3>1. \A q \in Procs : pc'[q] \in Mounting => m'[q] # table'[o.pt]
      BY <1>a, <1>b, <1>g, <1>p, <2>1 DEF Others
    <3>2. ~ Making(o.pt)' /\ \A q \in Procs : ~ Replacing(q, o.pt)'
      BY <3>1 DEF Making, Replacing, Mounting
    <3>3. QED
      BY <1>c, <1>d, <2>1, <3>2, VisibleIsNext
  <2>2. QED
    BY <2>1
<1>x. /\ To(s) \in Seq(Points \cup Dirs) /\ Len(To(s)) = Len(s) /\ DOMAIN To(s) = 1..Len(s)
      /\ \A i \in 1..Len(s) : To(s)[i] = s[i].to
  BY ToIs
<1>y. PICK is : is = {i \in DOMAIN To(s) : To(s)[i] = o.from}
  OBVIOUS
<1>z. Table!Unbound(To(s), o) =
        IF is = {} THEN To(s)
        ELSE LET i == CHOOSE i \in is : \A j \in is : i <= j
             IN SubSeq(To(s), 1, i - 1) \o SubSeq(To(s), i + 1, Len(To(s)))
  BY <1>a, <1>y DEF Table!Unbound
<1>q. Want(p) = [call |-> o, done |-> FALSE] /\ Want(p)' = [call |-> o, done |-> TRUE]
  <2>1. ~ InEffect(p) /\ InEffect(p)'
    BY <1>a, <1>b DEF InEffect
  <2>2. QED
    BY <1>o, <1>a, <1>c, <2>1, WantIs, WantIsNext
<1>r. SUFFICES /\ \A pt \in Points : pt # o.pt => Visible(pt)' = Visible(pt)
               /\ Visible(o.pt)' = Table!Unbound(To(s), o)
  BY <1>c, <1>e, <1>q, <1>v, TableChanges
<1>1. CASE /\ UNCHANGED <<table, list, mh>>
           /\ \A i \in 1..Len(s) : s[i].to # o.from
  <2>1. is = {}
    BY <1>1, <1>x, <1>y
  <2>2. Visible(o.pt)' = To(s)
    BY <1>1, <1>d, <1>m, <1>w
  <2>3. \A pt \in Points : pt # o.pt => Visible(pt)' = Visible(pt)
    BY <1>1, <1>b, <1>p, OthersVisible
  <2>4. QED
    BY <1>z, <2>1, <2>2, <2>3
<1>2. ASSUME NEW k \in 1..Len(s), NEW t \in Seq(Mounts), s[k].to = o.from,
             \A j \in 1..Len(s) : s[j].to = o.from => k <= j, Unlinked(t, s, k),
             list' = [list EXCEPT ![m[p]] = t],
             table' = IF t = <<>> THEN [table EXCEPT ![o.pt] = None] ELSE table
      PROVE  /\ \A pt \in Points : pt # o.pt => Visible(pt)' = Visible(pt)
             /\ Visible(o.pt)' = Table!Unbound(To(s), o)
  <2>1. ASSUME NEW pt \in Points, pt # o.pt PROVE Visible(pt)' = Visible(pt)
    <3>1. table'[pt] = table[pt] /\ table[pt] # m[p]
      BY <1>c, <1>d, <1>t, <1>2, <2>1 DEF TypesOK
    <3>2. table[pt] # None => list'[table[pt]] = list[table[pt]]
      BY <1>t, <1>2, <2>1, <3>1 DEF TypesOK
    <3>3. QED
      BY <1>b, <1>p, <3>1, <3>2, OthersVisible
  <2>2. k \in is /\ \A j \in is : k <= j
    BY <1>2, <1>x, <1>y
  <2>3. (CHOOSE i \in is : \A j \in is : i <= j) = k
    <3>1. \A i \in is : i \in Nat
      BY <1>x, <1>y
    <3>2. \A i \in is : (\A j \in is : i <= j) => i = k
      BY <2>2, <3>1
    <3>3. QED
      BY <2>2, <3>2
  <2>4. Unlinked(To(t), To(s), k)
    BY <1>2, ToUnlink
  <2>5. Table!Unbound(To(s), o) = To(t)
    BY <1>z, <2>2, <2>3, <2>4 DEF Unlinked
  <2>6. Visible(o.pt)' = To(t)
    <3>1. CASE t = <<>>
      <4>1. table'[o.pt] = None
        BY <1>c, <1>t, <1>2, <3>1 DEF TypesOK
      <4>2. Visible(o.pt)' = <<>>
        BY <1>c, <4>1, VisibleIsNext
      <4>3. To(t) = <<>>
        BY <3>1, ToIs
      <4>4. QED
        BY <4>2, <4>3
    <3>2. CASE t # <<>>
      <4>1. table'[o.pt] = m[p] /\ list'[m[p]] = t
        BY <1>d, <1>t, <1>2, <3>2 DEF TypesOK
      <4>2. QED
        BY <1>w, <4>1
    <3>3. QED
      BY <3>1, <3>2
  <2>7. QED
    BY <2>1, <2>5, <2>6
<1>3. QED
  BY SMTT(60), <1>o, <1>d, <1>m, <1>t, <1>1, <1>2, OneParts

LEMMA MountFindsStep ==
  ASSUME IndInv, IndInv', NEW p \in Procs, MountFinds(p)
  PROVE  TableStep
<1>o. PICK o : o = op[p]
  OBVIOUS
<1>a. /\ pc[p] = "cmount" /\ pc' = [pc EXCEPT ![p] = "mlock"] /\ UNCHANGED <<op, new>> /\ op'[p] = o
  BY <1>o DEF MountFinds, Goto, Set
<1>t. TypesOK /\ LocalsOK
  BY DEF IndInv, LookInv
<1>c. o \in Ops /\ o \in Changes /\ o.pt \in Points /\ o.type = "bind"
  BY <1>o, <1>a, ChangerIs
<1>p. pc'[p] = "mlock" /\ (\A q \in Procs : q # p => pc'[q] = pc[q]) /\ pc[p] \notin Mounting
  BY <1>a, <1>t DEF TypesOK, Mounting
<1>e. \A q \in Procs : q # p => Want(q)' = Want(q)
  BY <1>a, <1>p, WantOthers
<1>g. Want(p)' = Want(p)
  BY <1>o, <1>a, <1>p, WantSame DEF InEffect
<1>r. SUFFICES \A pt \in Points : Visible(pt)' = Visible(pt)
  BY <1>e, <1>g, TableStutters
<1>1. CASE table[o.pt] # None
  <2>1. UNCHANGED <<table, list, c>> /\ m' = [m EXCEPT ![p] = table[o.pt]]
    BY <1>o, <1>1 DEF MountFinds, heads, Set
  <2>2. (\A q \in Procs : q # p => m'[q] = m[q]) /\ c'[p] = None
    BY <1>a, <1>t, <2>1 DEF TypesOK, LocalsOK
  <2>3. ASSUME NEW pt \in Points PROVE Visible(pt)' = Visible(pt)
    <3>1. Making(pt)' <=> Making(pt)
      BY <1>a, <1>p, <2>1, <2>2, <2>3, NoneApart DEF Making
    <3>2. \A q \in Procs : Replacing(q, pt)' <=> Replacing(q, pt)
      BY <1>a, <1>p, <2>1, <2>2 DEF Replacing
    <3>3. QED
      BY <1>a, <2>1, <3>1, <3>2, SameVisible
  <2>4. QED
    BY <2>3
<1>2. CASE table[o.pt] = None
  <2>1. PICK h, x : h = newhead /\ x = [id |-> mountid + 1, to |-> o.pt]
    OBVIOUS
  <2>2. /\ c' = [c EXCEPT ![p] = o.pt] /\ m' = [m EXCEPT ![p] = h] /\ table' = [table EXCEPT ![o.pt] = h]
        /\ list' = IF o.order = "MREPL" THEN list ELSE [list EXCEPT ![h] = <<x>>]
    BY <1>o, <1>2, <2>1 DEF MountFinds, Set
  <2>3. h \in Heads /\ h \notin owned /\ list[h] = <<>> /\ h # None
    BY <1>a, <2>1, FreeHead, NoneApart
  <2>4. /\ table'[o.pt] = h /\ (\A pt \in Points : pt # o.pt => table'[pt] = table[pt])
        /\ (\A g \in Heads : g # h => list'[g] = list[g]) /\ (o.order = "MREPL" => list'[h] = <<>>)
        /\ c'[p] = o.pt /\ m'[p] = h /\ Others(p)
    BY <1>a, <1>c, <1>p, <1>t, <2>2, <2>3 DEF TypesOK, Others
  <2>5. \A pt \in Points : table[pt] # h
    BY <2>3 DEF owned, linked
  <2>6. ASSUME NEW pt \in Points, pt # o.pt PROVE Visible(pt)' = Visible(pt)
    <3>1. table'[pt] = table[pt] /\ table[pt] # h
      BY <2>4, <2>5, <2>6
    <3>2. table[pt] # None => list'[table[pt]] = list[table[pt]]
      BY <1>t, <2>4, <3>1 DEF TypesOK
    <3>3. QED
      BY <1>p, <2>4, <3>1, <3>2, OthersVisible
  <2>7. Visible(o.pt) = <<>>
    BY <1>c, <1>2, VisibleIs
  <2>8. Visible(o.pt)' = <<>>
    <3>1. CASE o.order # "MREPL"
      <4>1. Making(o.pt)'
        BY <1>a, <1>p, <2>4, <3>1 DEF Making, Mounting
      <4>2. QED
        BY <1>c, <4>1, VisibleIsNext
    <3>2. CASE o.order = "MREPL"
      <4>1. \A q \in Procs : q # p /\ pc[q] \in Mounting => m[q] # h
        <5>1. \A q \in Procs : pc[q] \in Mounting => table[op[q].pt] = m[q] /\ op[q].pt \in Points
          BY PointIs, ChangerIs
        <5>2. QED
          BY <2>5, <5>1
      <4>2. ~ Making(o.pt)'
        BY <1>a, <2>4, <3>2, <4>1 DEF Making, Others
      <4>3. \A q \in Procs : ~ Replacing(q, o.pt)'
        BY <1>p, <2>4, <4>1 DEF Replacing, Others, Mounting
      <4>4. Visible(o.pt)' = To(<<>>)
        BY <1>c, <2>3, <2>4, <3>2, <4>2, <4>3, VisibleIsNext
      <4>5. <<>> \in Seq(Mounts)
        OBVIOUS
      <4>6. QED
        BY <4>4, <4>5, ToIs
    <3>3. QED
      BY <3>1, <3>2
  <2>9. QED
    BY <2>6, <2>7, <2>8
<1>3. QED
  BY <1>1, <1>2

LEMMA StepsAreTableSteps == IndInv /\ IndInv' /\ [Next]_vars => TableStep
<1> SUFFICES ASSUME IndInv, IndInv', [Next]_vars PROVE TableStep
  OBVIOUS
<1>1. ASSUME NEW p \in Procs, NEW o \in Ops, Call(p, o) PROVE TableStep
  BY <1>1, CallOK, CallStep
<1>2. ASSUME NEW p \in Procs, Step(p) PROVE TableStep
  <2>1. CASE Return(p)
    BY <2>1, ReturnOK, ReturnStep
  <2>2. CASE FindLocks(p)
    BY <2>2, FindLocksOK, LooksStep
  <2>3. CASE findmount(p)
    BY <2>3, findmountOK, LooksStep
  <2>4. CASE FindsNone(p)
    BY <2>4, FindsNoneOK, LooksStep
  <2>5. CASE WalkFirst(p)
    BY <2>5, WalkFirstOK, LooksStep
  <2>6. CASE UnionLocks(p)
    BY <2>6, UnionLocksOK, LooksStep
  <2>7. CASE UnionNext(p)
    BY <2>7, UnionNextOK, LooksStep
  <2>8. CASE UnionUnlocks(p)
    BY <2>8, UnionUnlocksOK, LooksStep
  <2>9. CASE WalkType(p)
    BY <2>9, WalkTypeOK, LooksStep
  <2>10. CASE OpenLooks(p)
    BY <2>10, OpenLooksOK, LooksStep
  <2>11. CASE OpenKeeps(p)
    BY <2>11, OpenKeepsOK, LooksStep
  <2>12. CASE UndoLocks(p)
    BY <2>12, UndoLocksOK, LooksStep
  <2>13. CASE UndoLooks(p)
    BY <2>13, UndoLooksOK, LooksStep
  <2>14. CASE UndoUnlocks(p)
    BY <2>14, UndoUnlocksOK, LooksStep
  <2>15. CASE CopyLocks(p)
    BY <2>15, CopyLocksOK, LooksStep
  <2>16. CASE CopyIds(p)
    BY <2>16, CopyIdsOK, LooksStep
  <2>17. CASE CopyUnlocks(p)
    BY <2>17, CopyUnlocksOK, LooksStep
  <2>18. CASE \E pt \in Points : CopyList(p, pt)
    BY <2>18, CopyListOK, LooksStep
  <2>19. CASE MountFinds(p)
    BY <2>19, MountFindsStep
  <2>20. CASE MountLocks(p)
    BY <2>20, MountLocksStep
  <2>21. CASE NewMount(p)
    BY <2>21, NewMountStep
  <2>22. CASE MountLinks(p)
    BY <2>22, MountLinksStep
  <2>23. CASE UnmountFinds(p)
    BY <2>23, UnmountFindsStep
  <2>24. CASE UnmountAll(p)
    BY <2>24, UnmountAllStep
  <2>25. CASE UnmountFrees(p)
    BY <2>25, UnmountFreesStep
  <2>26. CASE UnmountOne(p)
    BY <2>26, UnmountOneStep
  <2>27. QED
    BY <1>2, <2>1, <2>2, <2>3, <2>4, <2>5, <2>6, <2>7, <2>8, <2>9, <2>10, <2>11, <2>12, <2>13,
       <2>14, <2>15, <2>16, <2>17, <2>18, <2>19, <2>20, <2>21, <2>22, <2>23, <2>24, <2>25, <2>26 DEF Step
<1>3. CASE UNCHANGED vars
  <2>1. UNCHANGED <<table, list, pc, op, m, c, new>>
    BY <1>3 DEF vars, heads, locals
  <2>2. \A pt \in Points : Visible(pt)' = Visible(pt)
    BY <2>1, SameVisible DEF Making, Replacing
  <2>3. \A q \in Procs : Want(q)' = Want(q)
    BY <2>1, WantSame DEF InEffect
  <2>4. QED
    BY <2>2, <2>3, TableStutters
<1>4. QED
  BY <1>1, <1>2, <1>3 DEF Next, Over

(***************************************************************************)
(* Each mount, bind and unmount changes what is found at its point once,   *)
(* in one step between its call and its return, and as its flags ask, and  *)
(* no other call changes anything: cmount takes effect when it has freed   *)
(* the list it replaces or linked its Mount, cunmount under both locks.    *)
(***************************************************************************)
THEOREM Refinement == Spec => RefinesMountTable
<1>1. Init => Table!Init
  <2> SUFFICES ASSUME Init PROVE Table!Init
    OBVIOUS
  <2>1. \A p \in Procs : Want(p) = None
    BY NoneApart DEF Init, Want, Changes
  <2>2. QED
    BY <2>1 DEF Table!Init
<1>2. IndInv /\ IndInv' /\ [Next]_vars
        => [Table!Next]_<<[pt \in Points |-> Visible(pt)], [p \in Procs |-> Want(p)]>>
  BY StepsAreTableSteps DEF TableStep
<1>3. QED
  BY <1>1, <1>2, Invariance, PTL DEF Spec, RefinesMountTable, Table!Spec
-----------------------------------------------------------------------------
(* The copy that pgrpcpy makes.  The Mheads already copied are free, since *)
(* whoever wants to lock one to change it needs pg->ns first, and what is  *)
(* copied of each is what it has.                                          *)
Copiers == {"cplist", "copied"}
Mounted(pt) == IF table[pt] = None THEN <<>> ELSE To(list[table[pt]])
Ordered(s) == \A i, j \in DOMAIN s : s[i].of < s[j].of => s[i].id < s[j].id
CopyOf(p) ==
  /\ new[p] \in Seq(Copies) /\ m[p] \subseteq Points
  /\ \A i \in DOMAIN new[p] : new[p][i].pt \in m[p]
  /\ \A pt \in m[p] : /\ table[pt] # None => hw[table[pt]] = None
                      /\ CopiedAs(new[p], pt, Mounted(pt))
  /\ pc[p] = "copied" => m[p] = Points /\ Ordered(new[p])
CopyOK == \A p \in Procs : pc[p] \in Copiers => CopyOf(p)

(* The copies of a list go to the end of the copy. *)
LEMMA CopiesAppended ==
  ASSUME NEW s \in Seq(Copies), NEW e \in Seq(Copies), NEW v, NEW pt, DOMAIN v = 1..Len(e),
         \A i \in 1..Len(e) : e[i].pt = pt /\ e[i].to = v[i],
         \A i \in 1..Len(s) : s[i].pt # pt
  PROVE  CopiedAs(s \o e, pt, v)
<1> DEFINE t == s \o e
           at == [i \in 1..Len(e) |-> Len(s) + i]
<1>1. /\ Len(s) \in Nat /\ Len(e) \in Nat /\ Len(t) = Len(s) + Len(e) /\ DOMAIN t = 1..Len(t)
      /\ \A i \in 1..Len(s) : t[i] = s[i]
      /\ \A i \in 1..Len(e) : t[Len(s) + i] = e[i]
  OBVIOUS
<1> HIDE DEF t
<1>2. at \in [1..Len(e) -> DOMAIN t] /\ \A i \in 1..Len(e) : at[i] = Len(s) + i
  BY <1>1
<1> HIDE DEF at
<1>3. \A i, j \in 1..Len(e) : i < j => at[i] < at[j]
  BY <1>1, <1>2
<1>4. ASSUME NEW k \in DOMAIN t
      PROVE  t[k].pt = pt <=> \E i \in 1..Len(e) : at[i] = k
  <2>1. CASE k \in 1..Len(s)
    BY <1>1, <1>2, <2>1
  <2>2. CASE k \notin 1..Len(s)
    <3>1. k - Len(s) \in 1..Len(e) /\ Len(s) + (k - Len(s)) = k
      BY <1>1, <2>2
    <3>2. PICK j \in 1..Len(e) : Len(s) + j = k
      BY <3>1
    <3>3. t[k] = e[j] /\ e[j].pt = pt /\ at[j] = k
      BY <1>1, <1>2, <3>2
    <3>4. QED
      BY <3>3
  <2>3. QED
    BY <2>1, <2>2
<1>5. {at[i] : i \in 1..Len(e)} = {k \in DOMAIN t : t[k].pt = pt}
  <2>1. \A i \in 1..Len(e) : at[i] \in DOMAIN t
    BY <1>2
  <2>2. QED
    BY <1>4, <2>1
<1>6. \A i \in 1..Len(e) : t[at[i]].to = v[i]
  BY <1>1, <1>2
<1>7. CopiedAs(t, pt, v)
  BY <1>2, <1>3, <1>5, <1>6 DEF CopiedAs
<1>8. QED
  BY <1>7 DEF t

(* They stay the copies of another point. *)
LEMMA CopiesKept ==
  ASSUME NEW s \in Seq(Copies), NEW e \in Seq(Copies), NEW v, NEW pt, CopiedAs(s, pt, v),
         \A i \in 1..Len(e) : e[i].pt # pt
  PROVE  CopiedAs(s \o e, pt, v)
<1> DEFINE t == s \o e
<1>1. /\ Len(s) \in Nat /\ Len(e) \in Nat /\ Len(t) = Len(s) + Len(e) /\ DOMAIN t = 1..Len(t)
      /\ DOMAIN s = 1..Len(s)
      /\ \A i \in 1..Len(s) : t[i] = s[i]
      /\ \A i \in 1..Len(e) : t[Len(s) + i] = e[i]
  OBVIOUS
<1> HIDE DEF t
<1>2. PICK at \in [DOMAIN v -> DOMAIN s] :
        /\ \A i, j \in DOMAIN v : i < j => at[i] < at[j]
        /\ {at[i] : i \in DOMAIN v} = {k \in DOMAIN s : s[k].pt = pt}
        /\ \A i \in DOMAIN v : s[at[i]].to = v[i]
  BY DEF CopiedAs
<1>3. DOMAIN s \subseteq DOMAIN t
  BY <1>1
<1>4. at \in [DOMAIN v -> DOMAIN t]
  BY <1>2, <1>3
<1>5. \A k \in DOMAIN t : t[k].pt = pt <=> k \in DOMAIN s /\ s[k].pt = pt
  <2>1. SUFFICES ASSUME NEW k \in DOMAIN t PROVE t[k].pt = pt <=> k \in DOMAIN s /\ s[k].pt = pt
    OBVIOUS
  <2>2. CASE k \in 1..Len(s)
    BY <1>1, <2>2
  <2>3. CASE k \notin 1..Len(s)
    <3>1. k - Len(s) \in 1..Len(e) /\ Len(s) + (k - Len(s)) = k
      BY <1>1, <2>3
    <3>2. QED
      BY <1>1, <2>3, <3>1
  <2>4. QED
    BY <2>2, <2>3
<1>6. {at[i] : i \in DOMAIN v} = {k \in DOMAIN t : t[k].pt = pt}
  BY <1>2, <1>3, <1>5
<1>7. \A i \in DOMAIN v : t[at[i]].to = v[i]
  BY <1>1, <1>2
<1>8. CopiedAs(t, pt, v)
  BY <1>2, <1>4, <1>6, <1>7 DEF CopiedAs
<1>9. QED
  BY <1>8 DEF t

(* The new mountids change nothing of it, and have the order of the old.   *)
Numbered(t, s, base) ==
  t = [i \in DOMAIN s |->
         [s[i] EXCEPT !.id = base + Cardinality({k \in DOMAIN s : s[k].of < s[i].of})]]
LEMMA CopiesNumbered ==
  ASSUME NEW s \in Seq(Copies), NEW base \in Nat, NEW t, Numbered(t, s, base)
  PROVE  /\ t \in Seq(Copies) /\ Ordered(t) /\ DOMAIN t = DOMAIN s
         /\ \A i \in DOMAIN s : t[i].pt = s[i].pt
         /\ \A pt, v : CopiedAs(s, pt, v) => CopiedAs(t, pt, v)
<1> DEFINE Below(i) == {k \in DOMAIN s : s[k].of < s[i].of}
<1>1. DOMAIN s = 1..Len(s) /\ Len(s) \in Nat /\ \A i \in 1..Len(s) : s[i] \in Copies
  OBVIOUS
<1>2. \A i \in DOMAIN s : s[i].of \in Nat
  BY <1>1 DEF Copies
<1>3. \A i \in DOMAIN s : IsFiniteSet(Below(i)) /\ Cardinality(Below(i)) \in Nat
  <2>1. IsFiniteSet(1..Len(s))
    BY <1>1, FS_Interval
  <2>2. \A i \in DOMAIN s : Below(i) \subseteq 1..Len(s)
    BY <1>1
  <2>3. \A i \in DOMAIN s : IsFiniteSet(Below(i))
    BY <2>1, <2>2, FS_Subset
  <2>4. QED
    BY <2>3, FS_CardinalityType
<1>b. \A i, j \in DOMAIN s : i \in Below(j) <=> s[i].of < s[j].of
  OBVIOUS
<1>c. t = [i \in DOMAIN s |-> [s[i] EXCEPT !.id = base + Cardinality(Below(i))]]
  BY DEF Numbered
<1>d. \A i \in DOMAIN s : Below(i) \subseteq DOMAIN s
  OBVIOUS
<1> HIDE DEF Below
<1>4. ASSUME NEW i \in DOMAIN s
      PROVE  /\ t[i] \in Copies /\ t[i].id = base + Cardinality(Below(i))
             /\ t[i].pt = s[i].pt /\ t[i].to = s[i].to /\ t[i].of = s[i].of
  <2>1. t[i] = [s[i] EXCEPT !.id = base + Cardinality(Below(i))]
    BY <1>c
  <2>2. PICK x : x = base + Cardinality(Below(i)) /\ x \in Nat
    BY <1>3
  <2>3. t[i] = [s[i] EXCEPT !.id = x] /\ s[i] \in Copies
    BY <1>1, <2>1, <2>2
  <2>4. QED
    BY <2>2, <2>3 DEF Copies
<1>5. DOMAIN t = DOMAIN s /\ t = [i \in DOMAIN s |-> t[i]]
  BY <1>c
<1>6. t \in Seq(Copies)
  <2>1. t \in [1..Len(s) -> Copies]
    BY <1>1, <1>4, <1>5
  <2>2. QED
    BY <1>1, <2>1
<1>7. ASSUME NEW i \in DOMAIN s, NEW j \in DOMAIN s, s[i].of < s[j].of
      PROVE  t[i].id < t[j].id
  <2>1. Below(i) \subseteq Below(j) /\ i \in Below(j) /\ i \notin Below(i)
    BY <1>2, <1>7, <1>b, <1>d
  <2>2. /\ Cardinality(Below(i)) <= Cardinality(Below(j))
        /\ Cardinality(Below(i)) = Cardinality(Below(j)) => Below(i) = Below(j)
    BY <1>3, <2>1, FS_Subset
  <2>3. Cardinality(Below(i)) # Cardinality(Below(j))
    BY <2>1, <2>2
  <2>4. QED
    BY <1>3, <1>4, <2>2, <2>3
<1>8. Ordered(t)
  BY <1>4, <1>5, <1>7 DEF Ordered
<1>9. ASSUME NEW pt, NEW v, CopiedAs(s, pt, v) PROVE CopiedAs(t, pt, v)
  <2>1. PICK at \in [DOMAIN v -> DOMAIN s] :
          /\ \A i, j \in DOMAIN v : i < j => at[i] < at[j]
          /\ {at[i] : i \in DOMAIN v} = {k \in DOMAIN s : s[k].pt = pt}
          /\ \A i \in DOMAIN v : s[at[i]].to = v[i]
    BY <1>9 DEF CopiedAs
  <2>2. {k \in DOMAIN t : t[k].pt = pt} = {k \in DOMAIN s : s[k].pt = pt}
    BY <1>4, <1>5
  <2>3. \A i \in DOMAIN v : t[at[i]].to = v[i]
    BY <1>4, <2>1
  <2>4. QED
    BY <1>5, <2>1, <2>2, <2>3 DEF CopiedAs
<1>10. QED
  BY <1>4, <1>5, <1>6, <1>8, <1>9

(* A copy goes on while another process moves that leaves the free Mheads  *)
(* alone.                                                                  *)
LEMMA CopyGoesOn ==
  ASSUME IndInv, CopyOK, NEW q \in Procs, pc'[q] \notin Copiers,
         \A p \in Procs : p # q => pc'[p] = pc[p] /\ m'[p] = m[p] /\ new'[p] = new[p],
         \A pt \in Points :
           /\ table'[pt] = table[pt]
           /\ table[pt] # None /\ hw[table[pt]] = None =>
                hw'[table[pt]] = None /\ list'[table[pt]] = list[table[pt]]
  PROVE  CopyOK'
<1> SUFFICES ASSUME NEW p \in Procs, pc'[p] \in Copiers PROVE CopyOf(p)'
  BY DEF CopyOK
<1>1. p # q /\ pc'[p] = pc[p] /\ m'[p] = m[p] /\ new'[p] = new[p]
  OBVIOUS
<1>2. CopyOf(p)
  BY <1>1 DEF CopyOK
<1>3. ASSUME NEW pt \in m[p]
      PROVE  (table'[pt] # None => hw'[table'[pt]] = None) /\ Mounted(pt)' = Mounted(pt)
  <2>1. pt \in Points /\ (table[pt] # None => hw[table[pt]] = None) /\ table'[pt] = table[pt]
    BY <1>2 DEF CopyOf
  <2>2. QED
    BY <2>1 DEF Mounted
<1>4. QED
  BY <1>1, <1>2, <1>3 DEF CopyOf

LEMMA AsideCopy ==
  ASSUME IndInv, CopyOK, NEW q \in Procs, Aside(q), pc'[q] \notin Copiers
  PROVE  CopyOK'
<1>1. /\ \A p \in Procs : p # q => pc'[p] = pc[p] /\ m'[p] = m[p] /\ new'[p] = new[p]
      /\ UNCHANGED <<table, list, hw>>
  BY DEF Aside
<1>2. QED
  BY <1>1, CopyGoesOn

(* Nobody copies while another process has pg->ns, or none. *)
LEMMA NobodyCopies ==
  ASSUME IndInv, NEW q \in Procs,
         nsw = None \/ pc[q] \in {"mlock", "ulocks"}, pc'[q] \notin Copiers,
         \A p \in Procs : p # q => pc'[p] = pc[p]
  PROVE  CopyOK'
<1>1. NsOK
  BY DEF IndInv, LookInv
<1>2. \A p \in Procs : p # q => pc[p] \notin Copiers
  BY <1>1, NoneApart DEF NsOK, Copiers
<1>3. QED
  BY <1>2 DEF CopyOK

LEMMA CopyLocksCopy ==
  ASSUME IndInv, NEW p \in Procs, CopyLocks(p)
  PROVE  CopyOK'
<1>h. TypesOK /\ NsOK /\ LocalsOK
  BY DEF IndInv, LookInv
<1>1. /\ pc[p] = "pgrpcpy" /\ nsw = None /\ pc' = [pc EXCEPT ![p] = "cplist"]
      /\ m' = [m EXCEPT ![p] = {}] /\ new' = new
  BY DEF CopyLocks, Goto, Set
<1>2. /\ \A q \in Procs : q # p => pc'[q] \notin Copiers
      /\ pc'[p] = "cplist" /\ m'[p] = {} /\ new'[p] = <<>>
  <2>1. \A q \in Procs : q # p => pc'[q] = pc[q] /\ pc[q] \notin Copiers
    BY <1>h, <1>1, NoneApart DEF TypesOK, NsOK, Copiers
  <2>2. new[p] = <<>>
    BY <1>h, <1>1 DEF LocalsOK
  <2>3. m'[p] = {}
    BY <1>h, <1>1 DEF TypesOK
  <2>4. QED
    BY <1>h, <1>1, <2>1, <2>2, <2>3 DEF TypesOK
<1>3. CopyOf(p)'
  BY <1>2 DEF CopyOf
<1>4. QED
  BY <1>2, <1>3 DEF CopyOK

LEMMA CopyListCopy ==
  ASSUME IndInv, CopyOK, NEW p \in Procs, NEW pt \in Points, CopyList(p, pt)
  PROVE  CopyOK'
<1>h. TypesOK /\ NsOK
  BY DEF IndInv, LookInv
<1> DEFINE old == IF table[pt] = None THEN <<>> ELSE list[table[pt]]
           copy(i) == [pt |-> pt, id |-> mountid + i, to |-> old[i].to, of |-> old[i].id]
           e == [i \in DOMAIN old |-> copy(i)]
<1>1. /\ pc[p] = "cplist" /\ pt \notin m[p] /\ (table[pt] # None => hw[table[pt]] = None)
      /\ pc' = [pc EXCEPT ![p] = "cplist"] /\ m' = [m EXCEPT ![p] = m[p] \cup {pt}]
      /\ new' = [new EXCEPT ![p] = new[p] \o e]
      /\ UNCHANGED <<table, list, hw>>
  BY DEF CopyList, Goto, Set, heads, locks
<1>2. old \in Seq(Mounts) /\ mountid \in Nat
  BY <1>h DEF TypesOK
<1>3. DOMAIN old = 1..Len(old) /\ Len(old) \in Nat
  BY <1>2
<1>4. e \in Seq(Copies) /\ Len(e) = Len(old) /\ \A i \in 1..Len(e) : e[i].pt = pt /\ e[i].to = old[i].to
  <2>1. ASSUME NEW i \in 1..Len(old)
        PROVE  copy(i) \in Copies /\ copy(i).pt = pt /\ copy(i).to = old[i].to
    <3>1. old[i] \in Mounts /\ mountid + i \in Nat
      BY <1>2, <1>3
    <3>2. old[i].to \in Points \cup Dirs /\ old[i].id \in Nat
      BY <3>1 DEF Mounts
    <3>3. QED
      BY <3>1, <3>2 DEF Copies
  <2> HIDE DEF copy, old
  <2>2. e \in Seq(Copies) /\ Len(e) = Len(old) /\ \A i \in 1..Len(old) : e[i] = copy(i)
    BY <1>3, <2>1
  <2>3. QED
    BY <2>1, <2>2
<1>5. DOMAIN Mounted(pt) = 1..Len(e) /\ \A i \in 1..Len(e) : Mounted(pt)[i] = old[i].to
  <2>1. CASE table[pt] = None
    <3>1. old = <<>> /\ Len(e) = 0 /\ Mounted(pt) = <<>>
      BY <1>4, <2>1 DEF Mounted
    <3>2. QED
      BY <3>1
  <2>2. CASE table[pt] # None
    <3>1. Mounted(pt) = To(old) /\ Len(e) = Len(old)
      BY <1>4, <2>2 DEF Mounted
    <3>2. QED
      BY <1>2, <3>1, ToIs
  <2>3. QED
    BY <2>1, <2>2
<1> HIDE DEF old, e
<1>6. /\ pc'[p] = "cplist" /\ m'[p] = m[p] \cup {pt} /\ new'[p] = new[p] \o e
      /\ \A q \in Procs : q # p => pc'[q] = pc[q]
  BY <1>h, <1>1 DEF TypesOK
<1>7. \A q \in Procs : q # p => pc'[q] \notin Copiers
  BY <1>h, <1>1, <1>6 DEF NsOK, Copiers
<1>8. CopyOf(p)
  BY <1>1 DEF CopyOK, Copiers
<1>9. /\ new[p] \in Seq(Copies) /\ m[p] \subseteq Points /\ pt \notin m[p]
      /\ \A i \in DOMAIN new[p] : new[p][i].pt \in m[p]
      /\ DOMAIN new[p] = 1..Len(new[p]) /\ Len(new[p]) \in Nat
  BY <1>1, <1>8 DEF CopyOf
<1>10. new'[p] \in Seq(Copies) /\ \A i \in DOMAIN new'[p] : new'[p][i].pt \in m'[p]
  <2>1. PICK s, t : s = new[p] /\ t = s \o e
    OBVIOUS
  <2>2. /\ t \in Seq(Copies) /\ Len(t) = Len(s) + Len(e) /\ DOMAIN t = 1..Len(t)
        /\ Len(s) \in Nat /\ Len(e) \in Nat
        /\ \A i \in 1..Len(s) : t[i] = s[i]
        /\ \A i \in 1..Len(e) : t[Len(s) + i] = e[i]
    BY <1>4, <1>9, <2>1
  <2>3. ASSUME NEW i \in DOMAIN t PROVE t[i].pt \in m[p] \cup {pt}
    <3>1. CASE i \in 1..Len(s)
      BY <1>9, <2>1, <2>2, <3>1
    <3>2. CASE i \notin 1..Len(s)
      <4>1. i - Len(s) \in 1..Len(e) /\ Len(s) + (i - Len(s)) = i
        BY <2>2, <3>2
      <4>2. QED
        BY <1>4, <2>2, <4>1
    <3>3. QED
      BY <3>1, <3>2
  <2>4. QED
    BY <1>6, <2>1, <2>2, <2>3
<1>11. ASSUME NEW x \in m[p] \cup {pt}
       PROVE  CopiedAs(new[p] \o e, x, Mounted(x))
  <2>1. CASE x = pt
    <3>1. \A i \in 1..Len(new[p]) : new[p][i].pt # pt
      BY <1>9
    <3>2. QED
      BY <1>4, <1>5, <1>9, <2>1, <3>1, CopiesAppended
  <2>2. CASE x # pt
    <3>1. CopiedAs(new[p], x, Mounted(x)) /\ \A i \in 1..Len(e) : e[i].pt # x
      BY <1>4, <1>8, <1>11, <2>2 DEF CopyOf
    <3>2. QED
      BY <1>4, <1>9, <3>1, CopiesKept
  <2>3. QED
    BY <2>1, <2>2
<1>12. \A x \in m'[p] : /\ table'[x] # None => hw'[table'[x]] = None
                        /\ CopiedAs(new'[p], x, Mounted(x)')
  <2>1. \A x : Mounted(x)' = Mounted(x)
    BY <1>1 DEF Mounted
  <2>2. \A x \in m[p] : table[x] # None => hw[table[x]] = None
    BY <1>8 DEF CopyOf
  <2>3. QED
    BY <1>1, <1>6, <1>11, <2>1, <2>2
<1>13. CopyOf(p)'
  BY <1>6, <1>9, <1>10, <1>12 DEF CopyOf
<1>14. QED
  BY <1>7, <1>13 DEF CopyOK

LEMMA CopyIdsCopy ==
  ASSUME IndInv, CopyOK, NEW p \in Procs, CopyIds(p)
  PROVE  CopyOK'
<1>h. TypesOK /\ NsOK
  BY DEF IndInv, LookInv
<1>1. /\ pc[p] = "cplist" /\ m[p] = Points /\ pc' = [pc EXCEPT ![p] = "copied"]
      /\ UNCHANGED <<table, list, hw, m>>
      /\ new' = [new EXCEPT ![p] = [i \in DOMAIN new[p] |->
                   [new[p][i] EXCEPT !.id = mountid
                      + Cardinality({k \in DOMAIN new[p] : new[p][k].of < new[p][i].of})]]]
  BY DEF CopyIds, Goto, Set, heads, locks
<1>2. /\ pc'[p] = "copied" /\ m'[p] = Points
      /\ \A q \in Procs : q # p => pc'[q] = pc[q]
  BY <1>h, <1>1 DEF TypesOK
<1>3. new'[p] = [i \in DOMAIN new[p] |->
                   [new[p][i] EXCEPT !.id = mountid
                      + Cardinality({k \in DOMAIN new[p] : new[p][k].of < new[p][i].of})]]
  BY <1>h, <1>1, Zenon DEF TypesOK
<1>4. \A q \in Procs : q # p => pc'[q] \notin Copiers
  BY <1>h, <1>1, <1>2 DEF NsOK, Copiers
<1>5. CopyOf(p)
  BY <1>1 DEF CopyOK, Copiers
<1>6. new[p] \in Seq(Copies) /\ mountid \in Nat
  BY <1>h, <1>5 DEF CopyOf, TypesOK
<1>7. /\ new'[p] \in Seq(Copies) /\ Ordered(new'[p]) /\ DOMAIN new'[p] = DOMAIN new[p]
      /\ \A i \in DOMAIN new[p] : new'[p][i].pt = new[p][i].pt
      /\ \A pt, v : CopiedAs(new[p], pt, v) => CopiedAs(new'[p], pt, v)
  <2>1. PICK s, t : s = new[p] /\ t = new'[p]
    OBVIOUS
  <2>2. Numbered(t, s, mountid)
    BY <1>3, <2>1, Zenon DEF Numbered
  <2>3. s \in Seq(Copies)
    BY <1>6, <2>1
  <2>4. /\ t \in Seq(Copies) /\ Ordered(t) /\ DOMAIN t = DOMAIN s
        /\ \A i \in DOMAIN s : t[i].pt = s[i].pt
        /\ \A pt, v : CopiedAs(s, pt, v) => CopiedAs(t, pt, v)
    BY <1>6, <2>2, <2>3, CopiesNumbered
  <2>5. QED
    BY <2>1, <2>4
<1>8. \A pt : Mounted(pt)' = Mounted(pt)
  BY <1>1 DEF Mounted
<1>9. \A pt \in Points : /\ table'[pt] # None => hw'[table'[pt]] = None
                         /\ CopiedAs(new'[p], pt, Mounted(pt)')
  BY <1>1, <1>5, <1>7, <1>8 DEF CopyOf
<1>10. \A i \in DOMAIN new'[p] : new'[p][i].pt \in m'[p]
  BY <1>1, <1>2, <1>5, <1>7 DEF CopyOf
<1>11. CopyOf(p)'
  BY <1>2, <1>7, <1>9, <1>10 DEF CopyOf
<1>12. QED
  BY <1>4, <1>11 DEF CopyOK

(* Every other step leaves a copy that is under way alone. *)
LEMMA StepCopy ==
  ASSUME IndInv, CopyOK, NEW p \in Procs, Step(p)
  PROVE  CopyOK'
<1>h. TypesOK /\ HwOK /\ TargetsOK
  BY DEF IndInv, LookInv, HeadInv
<1>1. CASE Return(p)
  <2>1. pc'[p] = "idle"
    BY <1>h, <1>1 DEF Return, Goto, Set, TypesOK
  <2>2. QED
    BY <1>1, <2>1, ReturnOK, AsideCopy DEF Copiers
<1>2. CASE FindLocks(p) \/ findmount(p) \/ FindsNone(p)
  <2>1. LooksOn(p)
    BY <1>2, FindLocksOK, findmountOK, FindsNoneOK
  <2>2. pc'[p] \notin Copiers
    BY <1>2, <1>h DEF IndInv, LookInv, CallsOK, FindLocks, findmount, FindsNone, After, Goto, Set, TypesOK,
       Copiers
  <2>3. QED
    BY <2>1, <2>2, AsideCopy DEF LooksOn
<1>3. CASE WalkFirst(p) \/ UnionLocks(p) \/ UnionNext(p) \/ UnionUnlocks(p) \/ WalkType(p)
  <2>1. LooksOn(p)
    BY <1>3, WalkFirstOK, UnionLocksOK, UnionNextOK, UnionUnlocksOK, WalkTypeOK
  <2>2. pc'[p] \notin Copiers
    BY <1>3, <1>h DEF WalkFirst, UnionLocks, UnionNext, UnionUnlocks, WalkType, Goto, Set, TypesOK, Copiers
  <2>3. QED
    BY <2>1, <2>2, AsideCopy DEF LooksOn
<1>4. CASE OpenLooks(p) \/ OpenKeeps(p) \/ UndoLocks(p) \/ UndoLooks(p) \/ UndoUnlocks(p) \/ CopyUnlocks(p)
  <2>1. LooksOn(p)
    BY <1>4, OpenLooksOK, OpenKeepsOK, UndoLocksOK, UndoLooksOK, UndoUnlocksOK, CopyUnlocksOK
  <2>2. pc'[p] \notin Copiers
    BY <1>4, <1>h DEF OpenLooks, OpenKeeps, UndoLocks, UndoLooks, UndoUnlocks, CopyUnlocks, Goto, Set,
       TypesOK, Copiers
  <2>3. QED
    BY <2>1, <2>2, AsideCopy DEF LooksOn
<1>5. CASE MountFinds(p) \/ UnmountFinds(p)
  <2>1. nsw = None /\ pc'[p] \notin Copiers /\ \A q \in Procs : q # p => pc'[q] = pc[q]
    BY <1>5, <1>h DEF MountFinds, UnmountFinds, Goto, Set, TypesOK, Copiers
  <2>2. QED
    BY <2>1, NobodyCopies
<1>6. CASE MountLocks(p) \/ UnmountAll(p) \/ UnmountOne(p)
  <2>1. /\ pc[p] \in {"mlock", "ulocks"} /\ pc'[p] \notin Copiers
        /\ \A q \in Procs : q # p => pc'[q] = pc[q]
    BY <1>6, <1>h DEF MountLocks, UnmountAll, UnmountOne, Goto, Set, TypesOK, Copiers
  <2>2. QED
    BY SMTT(60), <2>1, NobodyCopies
<1>7. CASE NewMount(p) \/ MountLinks(p) \/ UnmountFrees(p)
  <2>1. /\ pc[p] \in {"newmount", "link", "ufree"} /\ pc'[p] \notin Copiers
        /\ \A q \in Procs : q # p => pc'[q] = pc[q]
    BY <1>7, <1>h DEF NewMount, MountLinks, UnmountFrees, Goto, Set, TypesOK, Copiers
  <2>2. /\ \A q \in Procs : q # p => m'[q] = m[q] /\ new'[q] = new[q]
        /\ table' = table
        /\ \E x : list' = [list EXCEPT ![m[p]] = x]
        /\ hw' = hw \/ hw' = [hw EXCEPT ![m[p]] = None]
    <3>1. CASE NewMount(p)
      <4>1. list' = [list EXCEPT ![m[p]] = IF op[p].order = "MREPL" THEN <<>> ELSE list[m[p]]]
        BY <3>1, <1>h DEF NewMount, Set, TypesOK
      <4>2. \A q \in Procs : q # p => new'[q] = new[q]
        BY <3>1, <1>h DEF NewMount, Set, TypesOK
      <4>3. QED
        BY <3>1, <4>1, <4>2 DEF NewMount, locks
    <3>2. CASE MountLinks(p)
      BY <3>2 DEF MountLinks, Set, locals
    <3>3. CASE UnmountFrees(p)
      BY <3>3 DEF UnmountFrees, Set
    <3>4. QED
      BY <1>7, <3>1, <3>2, <3>3
  <2>3. m[p] \in Heads /\ hw[m[p]] = p
    BY <1>h, <2>1 DEF HwOK, TargetsOK, Mounting
  <2>4. ASSUME NEW pt \in Points, table[pt] # None, hw[table[pt]] = None
        PROVE  hw'[table[pt]] = None /\ list'[table[pt]] = list[table[pt]]
    <3>1. table[pt] # m[p] /\ table[pt] \in Heads
      BY <1>h, <2>3, <2>4, NoneApart DEF TypesOK
    <3>2. QED
      BY <1>h, <2>2, <2>4, <3>1 DEF TypesOK
  <2>5. QED
    BY <2>1, <2>2, <2>4, CopyGoesOn
<1>8. CASE CopyLocks(p) \/ (\E pt \in Points : CopyList(p, pt)) \/ CopyIds(p)
  BY <1>8, CopyLocksCopy, CopyListCopy, CopyIdsCopy
<1>9. QED
  BY <1>1, <1>2, <1>3, <1>4, <1>5, <1>6, <1>7, <1>8 DEF Step

LEMMA CopyKept == IndInv /\ CopyOK /\ [Next]_vars => CopyOK'
<1> SUFFICES ASSUME IndInv, CopyOK, [Next]_vars PROVE CopyOK'
  OBVIOUS
<1>1. ASSUME NEW p \in Procs, NEW o \in Ops, Call(p, o) PROVE CopyOK'
  <2>1. pc'[p] \notin Copiers
    BY <1>1, StartsAre DEF Call, Goto, Set, IndInv, LookInv, TypesOK, Copiers
  <2>2. QED
    BY <1>1, <2>1, CallOK, AsideCopy
<1>2. ASSUME NEW p \in Procs, Step(p) PROVE CopyOK'
  BY <1>2, StepCopy
<1>3. CASE UNCHANGED vars
  BY <1>3 DEF vars, heads, locks, locals, CopyOK, CopyOf, Mounted
<1>4. QED
  BY <1>1, <1>2, <1>3 DEF Next, Over

(* The copy of a name space is of one moment, although pgrpcpy takes the   *)
(* lock of one Mhead after the other: when it has numbered the copies each *)
(* point has in the copy what every process finds there, in this order,    *)
(* and the mountids of the copies have the order of the originals.         *)
THEOREM CopyIsOfOneMoment == Spec => []CopyIsSnapshot
<1>1. Init => CopyOK
  BY DEF Init, CopyOK, Copiers
<1>2. IndInv /\ CopyOK => CopyIsSnapshot
  <2> SUFFICES ASSUME IndInv, CopyOK, NEW p \in Procs, pc[p] = "copied"
               PROVE  /\ \A pt \in Points : CopiedAs(new[p], pt, Visible(pt))
                      /\ Ordered(new[p])
    BY DEF CopyIsSnapshot, Ordered
  <2>h. TypesOK /\ NsOK /\ HwOK
    BY DEF IndInv, LookInv, HeadInv
  <2>1. CopyOf(p)
    BY DEF CopyOK, Copiers
  <2>2. m[p] = Points /\ Ordered(new[p])
    BY <2>1 DEF CopyOf
  <2>3. ASSUME NEW pt \in Points PROVE CopiedAs(new[p], pt, Visible(pt))
    <3>1. CopiedAs(new[p], pt, Mounted(pt)) /\ (table[pt] # None => hw[table[pt]] = None)
      BY <2>1, <2>2 DEF CopyOf
    <3>2. \A q \in Procs : pc[q] # "mlock"
      BY <2>h DEF NsOK
    <3>3. \A q \in Procs : table[pt] # None => ~ (pc[q] \in Mounting /\ m[q] = table[pt])
      BY <2>h, <3>1, <3>2, NoneApart DEF HwOK, TypesOK, Mounting
    <3>4. Visible(pt) = Mounted(pt)
      <4>1. CASE table[pt] = None
        BY <4>1, VisibleIs DEF Mounted
      <4>2. CASE table[pt] # None
        <5>1. ~ Making(pt) /\ \A q \in Procs : ~ Replacing(q, pt)
          BY <3>3, <4>2 DEF Making, Replacing, Mounting
        <5>2. QED
          BY <4>2, <5>1, VisibleIs DEF Mounted
      <4>3. QED
        BY <4>1, <4>2
    <3>5. QED
      BY <3>1, <3>4
  <2>4. QED
    BY <2>2, <2>3
<1>3. QED
  BY <1>1, <1>2, CopyKept, Invariance, PTL DEF Spec
=============================================================================
