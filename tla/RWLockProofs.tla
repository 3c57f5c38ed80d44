---------------------------- MODULE RWLockProofs ----------------------------
(***************************************************************************)
(* Proofs about RWLock, for any finite set of processes: a writer is       *)
(* alone, and the count of readers, the two queueing locks and the posts   *)
(* agree.                                                                  *)
(***************************************************************************)
EXTENDS RWLock, FiniteSetTheorems, TLAPS

(***************************************************************************)
(* Facts about linked lists as sequences: who is on a list after an append *)
(* at its tail or the removal of its head.                                 *)
(***************************************************************************)

(* x is on the list s; no entry is on the list twice. *)
OnList(s, x) == \E i \in 1..Len(s) : s[i] = x
OnListOnce(s) == \A i, j \in 1..Len(s) : s[i] = s[j] => i = j

(* A list with an entry appended. *)
LEMMA AppendToList ==
  ASSUME NEW S, NEW s \in Seq(S), NEW x \in S
  PROVE  /\ Append(s, x) \in Seq(S)
         /\ \A y : OnList(Append(s, x), y) <=> (OnList(s, y) \/ y = x)
         /\ OnListOnce(s) /\ ~OnList(s, x) => OnListOnce(Append(s, x))
<1> DEFINE t == Append(s, x)
<1>1. /\ t \in Seq(S) /\ Len(s) \in Nat /\ Len(t) = Len(s) + 1
      /\ \A i \in 1..Len(s) : t[i] = s[i]
      /\ t[Len(s) + 1] = x
  OBVIOUS
<1>2. ASSUME NEW y PROVE OnList(t, y) <=> (OnList(s, y) \/ y = x)
  BY <1>1 DEF OnList
<1>3. OnListOnce(s) /\ ~OnList(s, x) => OnListOnce(t)
  BY <1>1 DEF OnList, OnListOnce
<1>4. QED
  BY <1>1, <1>2, <1>3

(* A list without its head. *)
LEMMA TailOfList ==
  ASSUME NEW S, NEW s \in Seq(S), s # <<>>, OnListOnce(s)
  PROVE  /\ Tail(s) \in Seq(S) /\ Head(s) \in S /\ OnList(s, Head(s))
         /\ \A y : OnList(Tail(s), y) <=> (OnList(s, y) /\ y # Head(s))
         /\ OnListOnce(Tail(s))
<1> DEFINE t == Tail(s)
<1>1. /\ t \in Seq(S) /\ Len(s) \in Nat \ {0} /\ Len(t) = Len(s) - 1
      /\ \A i \in 1..Len(t) : t[i] = s[i + 1]
      /\ Head(s) = s[1] /\ Head(s) \in S
  OBVIOUS
<1>2. OnList(s, Head(s))
  BY <1>1 DEF OnList
<1>3. ASSUME NEW y PROVE OnList(t, y) <=> (OnList(s, y) /\ y # Head(s))
  <2>1. ASSUME OnList(t, y) PROVE OnList(s, y) /\ y # Head(s)
    <3>1. PICK i \in 1..Len(t) : t[i] = y
      BY <2>1 DEF OnList
    <3>2. i + 1 \in 1..Len(s) /\ s[i + 1] = y /\ i + 1 # 1 /\ 1 \in 1..Len(s)
      BY <1>1, <3>1
    <3>3. QED
      BY <1>1, <3>2 DEF OnList, OnListOnce
  <2>2. ASSUME OnList(s, y), y # Head(s) PROVE OnList(t, y)
    <3>1. PICK i \in 1..Len(s) : s[i] = y
      BY <2>2 DEF OnList
    <3>2. i - 1 \in 1..Len(t) /\ (i - 1) + 1 = i
      BY <1>1, <2>2, <3>1
    <3>3. t[i - 1] = y
      BY <1>1, <3>1, <3>2
    <3>4. QED
      BY <3>2, <3>3 DEF OnList
  <2>3. QED
    BY <2>1, <2>2
<1>4. OnListOnce(t)
  <2>1. SUFFICES ASSUME NEW i \in 1..Len(t), NEW j \in 1..Len(t), t[i] = t[j]
                 PROVE  i = j
    BY DEF OnListOnce
  <2>2. i + 1 \in 1..Len(s) /\ j + 1 \in 1..Len(s) /\ s[i + 1] = s[j + 1]
    BY <1>1, <2>1
  <2>3. QED
    BY <2>2, <1>1 DEF OnListOnce
<1>5. QED
  BY <1>1, <1>2, <1>3, <1>4
-----------------------------------------------------------------------------

(***************************************************************************)
(* The two halves of a place as functions, and the lists of x and of k as  *)
(* sets: the leaves below reason about these four and about the variables. *)
(***************************************************************************)
oper == [p \in Procs |-> pc[p].op]
stmt == [p \in Procs |-> pc[p].at]
xq == {p \in Procs : OnList(xwaitq, p)}
kq == {p \in Procs : OnList(kwaitq, p)}

(***************************************************************************)
(* The inductive invariant.  First, where a process can be.                *)
(***************************************************************************)
Door == {"qlock x", "x use", "x block"}
Enter == {"lock l", "canqlock k", "k can", "unlock l", "qunlock x", "un x use", "ready x"}
LeaveK == {"qunlock k", "un k use", "ready k"}
LeaveX == {"qunlock x", "un x use", "ready x"}
PlacesOK ==
  \A p \in Procs :
    \/ oper[p] = "none" /\ stmt[p] = "out"
    \/ oper[p] = "rlock" /\ stmt[p] \in Door \cup Enter \cup {"in"}
    \/ oper[p] = "canrlock" /\ stmt[p] \in {"canqlock x", "x can"} \cup Enter
    \/ oper[p] = "runlock" /\ stmt[p] \in {"lock l", "unlock l"} \cup LeaveK
    \/ oper[p] = "wlock" /\ stmt[p] \in Door \cup {"qlock k", "k use", "k block", "in"}
    \/ oper[p] = "wunlock" /\ stmt[p] \in LeaveK \cup LeaveX

Ops == {"none", "rlock", "canrlock", "runlock", "wlock", "wunlock"}
Stmts == {"out", "in", "canqlock x", "x can", "qlock k", "k use", "k block"}
         \cup Door \cup Enter \cup LeaveK
PcOK == pc \in [Procs -> [op : Ops, at : Stmts]]
TypesOK ==
  /\ xuse \in Procs \cup {NoProc} /\ kuse \in Procs \cup {NoProc} /\ l \in Procs \cup {NoProc}
  /\ handoff \in [Procs -> Procs \cup {NoProc}]
  /\ sem \in [Procs -> Nat]
ListsOK ==
  /\ xwaitq \in Seq(Procs) /\ OnListOnce(xwaitq)
  /\ kwaitq \in Seq(Procs) /\ OnListOnce(kwaitq)
BooleansOK == xlocked \in BOOLEAN /\ klocked \in BOOLEAN

(* The three spin locks are held exactly in their critical sections. *)
AtXUse(p) == stmt[p] \in {"x use", "x can", "un x use"}
AtKUse(p) == stmt[p] \in {"k use", "k can", "un k use"}
AtL(p) == \/ stmt[p] \in {"canqlock k", "k can", "unlock l"}
          \/ oper[p] = "runlock" /\ stmt[p] \in LeaveK
SpinsExact ==
  \A p \in Procs : (xuse = p <=> AtXUse(p)) /\ (kuse = p <=> AtKUse(p)) /\ (l = p <=> AtL(p))

(* Who waits in a list is asleep in that lock. *)
QueuesOK ==
  \A p \in Procs : (p \in xq => stmt[p] = "x block") /\ (p \in kq => stmt[p] = "k block")

(* The sleepers to which a lock has been passed. *)
givenX == {p \in Procs : stmt[p] = "x block" /\ p \notin xq}
givenK == {p \in Procs : stmt[p] = "k block" /\ p \notin kq}

(* A hand-off is for one sleeper, which has the lock and no post yet. *)
HandsReady == \A p \in Procs : handoff[p] # NoProc <=> stmt[p] \in {"ready x", "ready k"}
HandsGiven ==
  \A p \in Procs : handoff[p] # NoProc =>
    handoff[p] \in givenX \cup givenK /\ sem[handoff[p]] = 0
HandsApart ==
  \A p, q \in Procs : handoff[p] = handoff[q] /\ handoff[p] # NoProc => p = q

(* A post is for a sleeper to which a lock has been passed. *)
PostsOK == \A p \in Procs : sem[p] # 0 => sem[p] = 1 /\ p \in givenX \cup givenK

(* Who owns x: a reader until it is inside, a writer from x to x. *)
HasX(p) ==
  \/ p \in givenX
  \/ /\ oper[p] \in {"rlock", "canrlock"}
     /\ stmt[p] \in {"lock l", "canqlock k", "k can", "unlock l", "qunlock x", "un x use"}
  \/ oper[p] = "wlock" /\ stmt[p] \in {"qlock k", "k use", "k block", "in"}
  \/ oper[p] = "wunlock" /\ stmt[p] \in LeaveK \cup {"qunlock x", "un x use"}
hasX == {p \in Procs : HasX(p)}
OneHasX == \A p, q \in hasX : p = q
XExact == xlocked <=> hasX # {}

(* The processes the count of readers stands for. *)
Counts(p) ==
  \/ oper[p] = "rlock" /\ stmt[p] = "in"
  \/ /\ oper[p] \in {"rlock", "canrlock"}
     /\ stmt[p] \in {"canqlock k", "k can", "unlock l", "qunlock x", "un x use", "ready x"}
  \/ oper[p] = "runlock" /\ stmt[p] = "lock l"
counts == {p \in Procs : Counts(p)}
CountOK == readers = Cardinality(counts)

(* Who owns k: a writer, or all readers that are past canqlock together,    *)
(* the last of them on its way out of runlock included.                     *)
HasK(p) ==
  \/ p \in givenK
  \/ oper[p] = "wlock" /\ stmt[p] = "in"
  \/ oper[p] = "wunlock" /\ stmt[p] \in {"qunlock k", "un k use"}
Leaving(p) == oper[p] = "runlock" /\ stmt[p] \in {"qunlock k", "un k use"}
Shares(p) ==
  \/ Leaving(p)
  \/ Counts(p) /\ stmt[p] \notin {"canqlock k", "k can"}
hasK == {p \in Procs : HasK(p)}
leaving == {p \in Procs : Leaving(p)}
shares == {p \in Procs : Shares(p)}
KExact == klocked <=> hasK \cup shares # {}
WritersApart == hasK = {} \/ shares = {}
LastOut == leaving = {} \/ counts = {}

IndInv == /\ PcOK /\ PlacesOK /\ TypesOK /\ ListsOK /\ BooleansOK /\ SpinsExact /\ QueuesOK
          /\ HandsReady /\ HandsGiven /\ HandsApart /\ PostsOK /\ OneHasX /\ XExact /\ CountOK /\ KExact
          /\ WritersApart /\ LastOut

(* The statements that follow qlock(&l->x), qunlock(&l->k) and qunlock(&l->x). *)
AfterX(f) == IF f = "rlock" THEN "lock l" ELSE "qlock k"
AfterK(f) == IF f = "runlock" THEN "unlock l" ELSE "qunlock x"
AfterOp(f) == IF f = "wunlock" THEN "none" ELSE "rlock"
AfterStmt(f) == IF f = "wunlock" THEN "out" ELSE "in"

(* A place, and a step from one place to another, in terms of oper and stmt. *)
LEMMA PlaceOf ==
  ASSUME NEW p \in Procs, NEW f, NEW a, pc[p] = At(f, a)
  PROVE  oper[p] = f /\ stmt[p] = a
<1>1. oper[p] = f
  BY DEF At, oper
<1>2. stmt[p] = a
  BY DEF At, stmt
<1>3. QED
  BY <1>1, <1>2

(* p goes from the statement a of operation f to the statement b of g. *)
Moves(p, f, a, g, b) ==
  /\ oper \in [Procs -> Ops] /\ stmt \in [Procs -> Stmts]
  /\ oper[p] = f /\ stmt[p] = a /\ PcOK'
  /\ oper' = [oper EXCEPT ![p] = g] /\ stmt' = [stmt EXCEPT ![p] = b]

LEMMA GotoOK ==
  ASSUME PcOK, NEW p \in Procs,
         NEW f \in Ops, NEW a \in Stmts, NEW g \in Ops, NEW b \in Stmts,
         X!Goto(p, At(f, a), At(g, b))
  PROVE  Moves(p, f, a, g, b)
<1>1. PcOK' /\ pc[p] = At(f, a) /\ pc' = [pc EXCEPT ![p] = At(g, b)]
  BY DEF PcOK, X!Goto, At
<1>2. oper \in [Procs -> Ops] /\ oper[p] = f
  BY <1>1 DEF PcOK, At, oper
<1>3. stmt \in [Procs -> Stmts] /\ stmt[p] = a
  BY <1>1 DEF PcOK, At, stmt
<1>4. oper' = [oper EXCEPT ![p] = g]
  BY <1>1 DEF PcOK, At, oper
<1>5. stmt' = [stmt EXCEPT ![p] = b]
  BY <1>1 DEF PcOK, At, stmt
<1>6. QED
  BY <1>1, <1>2, <1>3, <1>4, <1>5 DEF Moves

(* The lists as sets, after an entry has been added or the first removed. *)
LEMMA XqAppend ==
  ASSUME ListsOK, NEW p \in Procs, p \notin xq, xwaitq' = Append(xwaitq, p), UNCHANGED kwaitq
  PROVE  ListsOK' /\ xq' = xq \cup {p} /\ kq' = kq
  BY AppendToList DEF ListsOK, xq, kq

LEMMA KqAppend ==
  ASSUME ListsOK, NEW p \in Procs, p \notin kq, kwaitq' = Append(kwaitq, p), UNCHANGED xwaitq
  PROVE  ListsOK' /\ kq' = kq \cup {p} /\ xq' = xq
  BY AppendToList DEF ListsOK, xq, kq

LEMMA XqTail ==
  ASSUME ListsOK, xwaitq # <<>>, xwaitq' = Tail(xwaitq), UNCHANGED kwaitq
  PROVE  ListsOK' /\ Head(xwaitq) \in xq /\ xq' = xq \ {Head(xwaitq)} /\ kq' = kq
  BY TailOfList DEF ListsOK, xq, kq

LEMMA KqTail ==
  ASSUME ListsOK, kwaitq # <<>>, kwaitq' = Tail(kwaitq), UNCHANGED xwaitq
  PROVE  ListsOK' /\ Head(kwaitq) \in kq /\ kq' = kq \ {Head(kwaitq)} /\ xq' = xq
  BY TailOfList DEF ListsOK, xq, kq

LEMMA ListsSame ==
  ASSUME ListsOK, UNCHANGED <<xwaitq, kwaitq>>
  PROVE  ListsOK' /\ xq' = xq /\ kq' = kq
  BY DEF ListsOK, xq, kq

(***************************************************************************)
(* The two halves of a semaphore: osblock takes the post, and no hand-off  *)
(* to that sleeper is under way; osready puts the post.                    *)
(***************************************************************************)
LEMMA TakePost ==
  ASSUME TypesOK, PostsOK, HandsGiven, NEW p \in Procs, sem[p] > 0,
         sem' = [sem EXCEPT ![p] = @ - 1]
  PROVE  /\ sem[p] = 1 /\ sem' \in [Procs -> Nat] /\ sem'[p] = 0
         /\ p \in givenX \cup givenK
         /\ \A q \in Procs : q # p => sem'[q] = sem[q]
         /\ \A q \in Procs : handoff[q] # NoProc => handoff[q] # p /\ handoff[q] \in Procs
<1>1. sem \in [Procs -> Nat]
  BY DEF TypesOK
<1>2. sem[p] = 1 /\ p \in givenX \cup givenK
  BY <1>1 DEF PostsOK
<1>3. ASSUME NEW q \in Procs, handoff[q] # NoProc PROVE handoff[q] # p /\ handoff[q] \in Procs
  BY <1>2, <1>3 DEF HandsGiven, TypesOK
<1>4. QED
  BY <1>1, <1>2, <1>3

LEMMA Increment ==
  ASSUME NEW h \in Procs, sem \in [Procs -> Nat], sem[h] = 0, sem' = [sem EXCEPT ![h] = @ + 1]
  PROVE  sem' \in [Procs -> Nat] /\ sem'[h] = 1 /\ \A q \in Procs : q # h => sem'[q] = sem[q]
  OBVIOUS

LEMMA PutPost ==
  ASSUME TypesOK, HandsReady, HandsGiven, NEW p \in Procs, stmt[p] \in {"ready x", "ready k"},
         sem' = [sem EXCEPT ![handoff[p]] = @ + 1]
  PROVE  /\ handoff[p] \in givenX \cup givenK /\ handoff[p] \in Procs
         /\ sem' \in [Procs -> Nat] /\ sem'[handoff[p]] = 1
         /\ \A q \in Procs : q # handoff[p] => sem'[q] = sem[q]
<1>1. sem \in [Procs -> Nat] /\ handoff \in [Procs -> Procs \cup {NoProc}]
  BY DEF TypesOK
<1>2. handoff[p] # NoProc
  BY DEF HandsReady
<1>3. handoff[p] \in givenX \cup givenK /\ handoff[p] \in Procs /\ sem[handoff[p]] = 0
  BY <1>1, <1>2 DEF HandsGiven
<1>4. PICK h \in Procs : h = handoff[p]
  BY <1>3
<1>5. sem[h] = 0 /\ sem' = [sem EXCEPT ![h] = @ + 1]
  BY <1>3, <1>4
<1>6. sem' \in [Procs -> Nat] /\ sem'[h] = 1 /\ \A q \in Procs : q # h => sem'[q] = sem[q]
  BY <1>1, <1>5, Increment
<1>7. QED
  BY <1>3, <1>4, <1>6

(* A writer that owns k, or waits for it, owns x. *)
LEMMA KOwnersHaveX == ASSUME PlacesOK PROVE hasK \subseteq hasX
  BY DEF PlacesOK, Door, Enter, LeaveK, LeaveX, hasK, HasK, hasX, HasX, givenK

(* Who runs qunlock(&l->k) is the only one k belongs to. *)
LEMMA OneLeavesK ==
  ASSUME IndInv, NEW p \in Procs, stmt[p] = "un k use"
  PROVE  hasK \cup shares = {p}
<1> USE DEF IndInv
<1>1. CASE oper[p] = "wunlock"
  <2>1. p \in hasK
    BY <1>1 DEF hasK, HasK
  <2>2. QED
    BY <2>1, KOwnersHaveX DEF OneHasX, WritersApart
<1>2. CASE oper[p] = "runlock"
  <2>1. p \in leaving /\ leaving \subseteq shares
    BY <1>2 DEF leaving, Leaving, shares, Shares
  <2>2. hasK = {} /\ counts = {}
    BY <2>1 DEF WritersApart, LastOut
  <2>3. shares \subseteq leaving
    BY <2>2 DEF shares, Shares, leaving, counts
  <2>4. leaving \subseteq {p}
    BY <1>2 DEF leaving, Leaving, SpinsExact, AtL, LeaveK
  <2>5. QED
    BY <2>1, <2>2, <2>3, <2>4
<1>3. QED
  BY <1>1, <1>2 DEF PlacesOK, Door, Enter, LeaveK, LeaveX

(* qlock(&l->x): lock(&q->use). *)
LEMMA XLockUseOK ==
  ASSUME IndInv, NEW p \in Procs, NEW f \in {"rlock", "wlock"}, X!LockUse(p,
    At(f, "qlock x"), At(f, "x use")), UNCHANGED <<kvars, l, readers>>
  PROVE  IndInv'
<1>a. f \in Ops /\ "qlock x" \in Stmts /\ "x use" \in Stmts
  BY DEF Ops, Stmts, Door, Enter, LeaveK
<1>g. PcOK /\ X!Goto(p, At(f, "qlock x"), At(f, "x use"))
  BY DEF IndInv, X!LockUse
<1>h. /\ oper \in [Procs -> Ops] /\ stmt \in [Procs -> Stmts]
      /\ oper[p] = f /\ stmt[p] = "qlock x" /\ PcOK'
      /\ oper' = [oper EXCEPT ![p] = f] /\ stmt' = [stmt EXCEPT ![p] = "x use"]
  <2>1. Moves(p, f, "qlock x", f, "x use")
    BY <1>a, <1>g, GotoOK
  <2>2. QED
    BY <2>1 DEF Moves
<1> USE DEF IndInv, X!LockUse, kvars
<1>q. ListsOK' /\ xq' = xq /\ kq' = kq
  BY ListsSame
<1>1. givenX' = givenX
  BY <1>h, <1>q DEF givenX
<1>2. givenK' = givenK
  BY <1>h, <1>q DEF givenK
<1>3. hasX' = hasX
  BY <1>h, <1>q, <1>1, <1>2 DEF hasX, HasX, LeaveK
<1>4. hasK' = hasK
  BY <1>h, <1>q, <1>1, <1>2 DEF hasK, HasK
<1>5. counts' = counts
  BY <1>h, <1>q, <1>1, <1>2 DEF counts, Counts
<1>6. leaving' = leaving
  BY <1>h, <1>q, <1>1, <1>2 DEF leaving, Leaving
<1>7. shares' = shares
  BY <1>h, <1>q, <1>1, <1>2 DEF shares, Shares, Counts, Leaving
<1>8. PlacesOK'
  BY ZenonT(60), <1>h, <1>q DEF PlacesOK, Door, Enter, LeaveK, LeaveX
<1>9. TypesOK'
  BY <1>h, <1>q DEF TypesOK
<1>10. BooleansOK'
  BY <1>h, <1>q DEF BooleansOK
<1>11. SpinsExact'
  BY <1>h, <1>q, NoProcAssumption DEF SpinsExact, AtXUse, AtKUse, AtL, LeaveK,
    PlacesOK, Door, Enter, LeaveX, TypesOK
<1>12. QueuesOK'
  BY <1>h, <1>q DEF QueuesOK
<1>13. HandsReady'
  BY <1>h, <1>q DEF HandsReady
<1>14. HandsGiven'
  BY <1>1, <1>2 DEF HandsGiven
<1>15. HandsApart'
  BY <1>1, <1>2 DEF HandsApart
<1>16. PostsOK'
  BY <1>1, <1>2 DEF PostsOK
<1>17. OneHasX'
  BY <1>3 DEF OneHasX
<1>18. XExact'
  BY <1>3 DEF XExact
<1>19. CountOK'
  BY <1>5 DEF CountOK
<1>20. KExact'
  BY <1>4, <1>5, <1>6, <1>7 DEF KExact
<1>21. WritersApart'
  BY <1>4, <1>5, <1>6, <1>7 DEF WritersApart
<1>22. LastOut'
  BY <1>4, <1>5, <1>6, <1>7 DEF LastOut
<1>23. QED
  BY <1>h, <1>q, <1>1, <1>2, <1>3, <1>4, <1>5, <1>6, <1>7, <1>8,
    <1>9, <1>10, <1>11, <1>12, <1>13, <1>14, <1>15, <1>16, <1>17, <1>18,
    <1>19, <1>20, <1>21, <1>22

(* qlock(&l->x): a free lock is taken. *)
LEMMA XTakeOK ==
  ASSUME IndInv, NEW p \in Procs, NEW f \in {"rlock", "wlock"}, ~xlocked,
    X!TakeOrEnqueue(p, At(f, "x use"), At(f, AfterX(f)), At(f, "x block")),
    UNCHANGED <<kvars, l, readers>>
  PROVE  IndInv'
<1>a. f \in Ops /\ "x use" \in Stmts /\ AfterX(f) \in Stmts
  BY DEF Ops, Stmts, Door, Enter, LeaveK, AfterX
<1>g. PcOK /\ X!Goto(p, At(f, "x use"), At(f, AfterX(f)))
  BY DEF IndInv, X!TakeOrEnqueue
<1>h. /\ oper \in [Procs -> Ops] /\ stmt \in [Procs -> Stmts]
      /\ oper[p] = f /\ stmt[p] = "x use" /\ PcOK'
      /\ oper' = [oper EXCEPT ![p] = f] /\ stmt' = [stmt EXCEPT ![p] = AfterX(f)]
  <2>1. Moves(p, f, "x use", f, AfterX(f))
    BY <1>a, <1>g, GotoOK
  <2>2. QED
    BY <2>1 DEF Moves
<1> USE DEF IndInv, X!TakeOrEnqueue, kvars
<1>q. ListsOK' /\ xq' = xq /\ kq' = kq
  BY ListsSame
<1>1. givenX' = givenX
  BY <1>h, <1>q DEF givenX, AfterX
<1>2. givenK' = givenK
  BY <1>h, <1>q DEF givenK, AfterX
<1>3. hasX' = hasX \cup {p}
  BY <1>h, <1>q, <1>1, <1>2 DEF hasX, HasX, LeaveK, AfterX
<1>4. hasK' = hasK
  BY <1>h, <1>q, <1>1, <1>2 DEF hasK, HasK, AfterX
<1>5. counts' = counts
  BY <1>h, <1>q, <1>1, <1>2 DEF counts, Counts, AfterX
<1>6. leaving' = leaving
  BY <1>h, <1>q, <1>1, <1>2 DEF leaving, Leaving, AfterX
<1>7. shares' = shares
  BY <1>h, <1>q, <1>1, <1>2 DEF shares, Shares, Counts, Leaving, AfterX
<1>8. PlacesOK'
  BY ZenonT(60), <1>h, <1>q DEF PlacesOK, Door, Enter, LeaveK, LeaveX, AfterX
<1>9. TypesOK'
  BY <1>h, <1>q DEF TypesOK, AfterX
<1>10. BooleansOK'
  BY <1>h, <1>q DEF BooleansOK, AfterX
<1>11. SpinsExact'
  BY <1>h, <1>q, NoProcAssumption DEF SpinsExact, AtXUse, AtKUse, AtL, LeaveK,
    PlacesOK, Door, Enter, LeaveX, TypesOK, AfterX
<1>12. QueuesOK'
  BY <1>h, <1>q DEF QueuesOK, AfterX
<1>13. HandsReady'
  BY <1>h, <1>q DEF HandsReady, AfterX
<1>14. HandsGiven'
  BY <1>1, <1>2 DEF HandsGiven
<1>15. HandsApart'
  BY <1>1, <1>2 DEF HandsApart
<1>16. PostsOK'
  BY <1>1, <1>2 DEF PostsOK
<1>17. OneHasX'
  BY <1>3 DEF OneHasX, XExact
<1>18. XExact'
  BY <1>3 DEF XExact
<1>19. CountOK'
  BY <1>5 DEF CountOK
<1>20. KExact'
  BY <1>4, <1>5, <1>6, <1>7 DEF KExact
<1>21. WritersApart'
  BY <1>4, <1>5, <1>6, <1>7 DEF WritersApart
<1>22. LastOut'
  BY <1>4, <1>5, <1>6, <1>7 DEF LastOut
<1>23. QED
  BY <1>h, <1>q, <1>1, <1>2, <1>3, <1>4, <1>5, <1>6, <1>7, <1>8,
    <1>9, <1>10, <1>11, <1>12, <1>13, <1>14, <1>15, <1>16, <1>17, <1>18,
    <1>19, <1>20, <1>21, <1>22

(* qlock(&l->x): the lock is taken already and p joins the list. *)
LEMMA XEnqueueOK ==
  ASSUME IndInv, NEW p \in Procs, NEW f \in {"rlock", "wlock"}, xlocked,
    X!TakeOrEnqueue(p, At(f, "x use"), At(f, AfterX(f)), At(f, "x block")),
    UNCHANGED <<kvars, l, readers>>
  PROVE  IndInv'
<1>a. f \in Ops /\ "x use" \in Stmts /\ "x block" \in Stmts
  BY DEF Ops, Stmts, Door, Enter, LeaveK
<1>g. PcOK /\ X!Goto(p, At(f, "x use"), At(f, "x block"))
  BY DEF IndInv, X!TakeOrEnqueue
<1>h. /\ oper \in [Procs -> Ops] /\ stmt \in [Procs -> Stmts]
      /\ oper[p] = f /\ stmt[p] = "x use" /\ PcOK'
      /\ oper' = [oper EXCEPT ![p] = f] /\ stmt' = [stmt EXCEPT ![p] = "x block"]
  <2>1. Moves(p, f, "x use", f, "x block")
    BY <1>a, <1>g, GotoOK
  <2>2. QED
    BY <2>1 DEF Moves
<1> USE DEF IndInv, X!TakeOrEnqueue, kvars
<1>q. ListsOK' /\ xq' = xq \cup {p} /\ kq' = kq
  <2>1. p \notin xq
    BY <1>h DEF QueuesOK
  <2>2. QED
    BY <2>1, XqAppend
<1>1. givenX' = givenX
  BY <1>h, <1>q DEF givenX
<1>2. givenK' = givenK
  BY <1>h, <1>q DEF givenK
<1>3. hasX' = hasX
  BY <1>h, <1>q, <1>1, <1>2 DEF hasX, HasX, LeaveK
<1>4. hasK' = hasK
  BY <1>h, <1>q, <1>1, <1>2 DEF hasK, HasK
<1>5. counts' = counts
  BY <1>h, <1>q, <1>1, <1>2 DEF counts, Counts
<1>6. leaving' = leaving
  BY <1>h, <1>q, <1>1, <1>2 DEF leaving, Leaving
<1>7. shares' = shares
  BY <1>h, <1>q, <1>1, <1>2 DEF shares, Shares, Counts, Leaving
<1>8. PlacesOK'
  BY ZenonT(60), <1>h, <1>q DEF PlacesOK, Door, Enter, LeaveK, LeaveX
<1>9. TypesOK'
  BY <1>h, <1>q DEF TypesOK
<1>10. BooleansOK'
  BY <1>h, <1>q DEF BooleansOK
<1>11. SpinsExact'
  BY <1>h, <1>q, NoProcAssumption DEF SpinsExact, AtXUse, AtKUse, AtL, LeaveK,
    PlacesOK, Door, Enter, LeaveX, TypesOK
<1>12. QueuesOK'
  BY <1>h, <1>q DEF QueuesOK
<1>13. HandsReady'
  BY <1>h, <1>q DEF HandsReady
<1>14. HandsGiven'
  BY <1>1, <1>2 DEF HandsGiven
<1>15. HandsApart'
  BY <1>1, <1>2 DEF HandsApart
<1>16. PostsOK'
  BY <1>1, <1>2 DEF PostsOK
<1>17. OneHasX'
  BY <1>3 DEF OneHasX
<1>18. XExact'
  BY <1>3 DEF XExact
<1>19. CountOK'
  BY <1>5 DEF CountOK
<1>20. KExact'
  BY <1>4, <1>5, <1>6, <1>7 DEF KExact
<1>21. WritersApart'
  BY <1>4, <1>5, <1>6, <1>7 DEF WritersApart
<1>22. LastOut'
  BY <1>4, <1>5, <1>6, <1>7 DEF LastOut
<1>23. QED
  BY <1>h, <1>q, <1>1, <1>2, <1>3, <1>4, <1>5, <1>6, <1>7, <1>8,
    <1>9, <1>10, <1>11, <1>12, <1>13, <1>14, <1>15, <1>16, <1>17, <1>18,
    <1>19, <1>20, <1>21, <1>22

(* qlock(&l->x): the sleeper has been posted, so x is its own. *)
LEMMA XBlockOK ==
  ASSUME IndInv, NEW p \in Procs, NEW f \in {"rlock", "wlock"}, X!Block(p,
    At(f, "x block"), At(f, AfterX(f))), UNCHANGED <<kvars, l, readers>>
  PROVE  IndInv'
<1>a. f \in Ops /\ "x block" \in Stmts /\ AfterX(f) \in Stmts
  BY DEF Ops, Stmts, Door, Enter, LeaveK, AfterX
<1>g. PcOK /\ X!Goto(p, At(f, "x block"), At(f, AfterX(f)))
  BY DEF IndInv, X!Block
<1>h. /\ oper \in [Procs -> Ops] /\ stmt \in [Procs -> Stmts]
      /\ oper[p] = f /\ stmt[p] = "x block" /\ PcOK'
      /\ oper' = [oper EXCEPT ![p] = f] /\ stmt' = [stmt EXCEPT ![p] = AfterX(f)]
  <2>1. Moves(p, f, "x block", f, AfterX(f))
    BY <1>a, <1>g, GotoOK
  <2>2. QED
    BY <2>1 DEF Moves
<1> USE DEF IndInv, X!Block, kvars
<1>q. ListsOK' /\ xq' = xq /\ kq' = kq
  BY ListsSame
<1>m. /\ sem[p] = 1 /\ sem' \in [Procs -> Nat] /\ sem'[p] = 0
      /\ p \in givenX \cup givenK
      /\ \A q \in Procs : q # p => sem'[q] = sem[q]
      /\ \A q \in Procs : handoff[q] # NoProc => handoff[q] # p /\ handoff[q] \in Procs
  BY TakePost
<1>1. givenX' = givenX \ {p} /\ p \in givenX
  BY ZenonT(60), <1>h, <1>q, <1>m DEF givenX, givenK, QueuesOK, AfterX
<1>2. givenK' = givenK
  BY <1>h, <1>q DEF givenK, AfterX
<1>3. hasX' = hasX
  BY <1>h, <1>q, <1>1, <1>2 DEF hasX, HasX, LeaveK, AfterX
<1>4. hasK' = hasK
  BY <1>h, <1>q, <1>1, <1>2 DEF hasK, HasK, AfterX
<1>5. counts' = counts
  BY <1>h, <1>q, <1>1, <1>2 DEF counts, Counts, AfterX
<1>6. leaving' = leaving
  BY <1>h, <1>q, <1>1, <1>2 DEF leaving, Leaving, AfterX
<1>7. shares' = shares
  BY <1>h, <1>q, <1>1, <1>2 DEF shares, Shares, Counts, Leaving, AfterX
<1>8. PlacesOK'
  BY ZenonT(60), <1>h, <1>q DEF PlacesOK, Door, Enter, LeaveK, LeaveX, AfterX
<1>9. TypesOK'
  BY <1>h, <1>q, <1>m DEF TypesOK, AfterX
<1>10. BooleansOK'
  BY <1>h, <1>q DEF BooleansOK, AfterX
<1>11. SpinsExact'
  BY <1>h, <1>q DEF SpinsExact, AtXUse, AtKUse, AtL, LeaveK, AfterX
<1>12. QueuesOK'
  BY <1>h, <1>q, <1>1, <1>2 DEF QueuesOK, givenX, givenK, AfterX
<1>13. HandsReady'
  BY <1>h, <1>q DEF HandsReady, AfterX
<1>14. HandsGiven'
  BY <1>1, <1>2, <1>m DEF HandsGiven
<1>15. HandsApart'
  BY <1>1, <1>2 DEF HandsApart
<1>16. PostsOK'
  BY <1>h, <1>q, <1>1, <1>2, <1>m DEF PostsOK, TypesOK, AfterX
<1>17. OneHasX'
  BY <1>3 DEF OneHasX
<1>18. XExact'
  BY <1>3 DEF XExact
<1>19. CountOK'
  BY <1>5 DEF CountOK
<1>20. KExact'
  BY <1>4, <1>5, <1>6, <1>7 DEF KExact
<1>21. WritersApart'
  BY <1>4, <1>5, <1>6, <1>7 DEF WritersApart
<1>22. LastOut'
  BY <1>4, <1>5, <1>6, <1>7 DEF LastOut
<1>23. QED
  BY <1>h, <1>q, <1>1, <1>2, <1>3, <1>4, <1>5, <1>6, <1>7, <1>8,
    <1>9, <1>10, <1>11, <1>12, <1>13, <1>14, <1>15, <1>16, <1>17, <1>18,
    <1>19, <1>20, <1>21, <1>22

(* qunlock(&l->x): lock(&q->use). *)
LEMMA XUnlockUseOK ==
  ASSUME IndInv, NEW p \in Procs, NEW f \in {"rlock", "canrlock", "wunlock"},
    X!LockUse(p, At(f, "qunlock x"), At(f, "un x use")), UNCHANGED <<kvars, l,
    readers>>
  PROVE  IndInv'
<1>a. f \in Ops /\ "qunlock x" \in Stmts /\ "un x use" \in Stmts
  BY DEF Ops, Stmts, Door, Enter, LeaveK
<1>g. PcOK /\ X!Goto(p, At(f, "qunlock x"), At(f, "un x use"))
  BY DEF IndInv, X!LockUse
<1>h. /\ oper \in [Procs -> Ops] /\ stmt \in [Procs -> Stmts]
      /\ oper[p] = f /\ stmt[p] = "qunlock x" /\ PcOK'
      /\ oper' = [oper EXCEPT ![p] = f] /\ stmt' = [stmt EXCEPT ![p] = "un x use"]
  <2>1. Moves(p, f, "qunlock x", f, "un x use")
    BY <1>a, <1>g, GotoOK
  <2>2. QED
    BY <2>1 DEF Moves
<1> USE DEF IndInv, X!LockUse, kvars
<1>q. ListsOK' /\ xq' = xq /\ kq' = kq
  BY ListsSame
<1>1. givenX' = givenX
  BY <1>h, <1>q DEF givenX
<1>2. givenK' = givenK
  BY <1>h, <1>q DEF givenK
<1>3. hasX' = hasX
  BY <1>h, <1>q, <1>1, <1>2 DEF hasX, HasX, LeaveK
<1>4. hasK' = hasK
  BY <1>h, <1>q, <1>1, <1>2 DEF hasK, HasK
<1>5. counts' = counts
  BY <1>h, <1>q, <1>1, <1>2 DEF counts, Counts
<1>6. leaving' = leaving
  BY <1>h, <1>q, <1>1, <1>2 DEF leaving, Leaving
<1>7. shares' = shares
  BY <1>h, <1>q, <1>1, <1>2 DEF shares, Shares, Counts, Leaving
<1>8. PlacesOK'
  BY ZenonT(60), <1>h, <1>q DEF PlacesOK, Door, Enter, LeaveK, LeaveX
<1>9. TypesOK'
  BY <1>h, <1>q DEF TypesOK
<1>10. BooleansOK'
  BY <1>h, <1>q DEF BooleansOK
<1>11. SpinsExact'
  BY <1>h, <1>q, NoProcAssumption DEF SpinsExact, AtXUse, AtKUse, AtL, LeaveK,
    PlacesOK, Door, Enter, LeaveX, TypesOK
<1>12. QueuesOK'
  BY <1>h, <1>q DEF QueuesOK
<1>13. HandsReady'
  BY <1>h, <1>q DEF HandsReady
<1>14. HandsGiven'
  BY <1>1, <1>2 DEF HandsGiven
<1>15. HandsApart'
  BY <1>1, <1>2 DEF HandsApart
<1>16. PostsOK'
  BY <1>1, <1>2 DEF PostsOK
<1>17. OneHasX'
  BY <1>3 DEF OneHasX
<1>18. XExact'
  BY <1>3 DEF XExact
<1>19. CountOK'
  BY <1>5 DEF CountOK
<1>20. KExact'
  BY <1>4, <1>5, <1>6, <1>7 DEF KExact
<1>21. WritersApart'
  BY <1>4, <1>5, <1>6, <1>7 DEF WritersApart
<1>22. LastOut'
  BY <1>4, <1>5, <1>6, <1>7 DEF LastOut
<1>23. QED
  BY <1>h, <1>q, <1>1, <1>2, <1>3, <1>4, <1>5, <1>6, <1>7, <1>8,
    <1>9, <1>10, <1>11, <1>12, <1>13, <1>14, <1>15, <1>16, <1>17, <1>18,
    <1>19, <1>20, <1>21, <1>22

(* qunlock(&l->x): x goes to the first sleeper. *)
LEMMA XPassOK ==
  ASSUME IndInv, NEW p \in Procs, NEW f \in {"rlock", "canrlock", "wunlock"},
    xwaitq # <<>>, X!PassOrFree(p, At(f, "un x use"), At(f, "ready x"),
    At(AfterOp(f), AfterStmt(f))), UNCHANGED <<kvars, l, readers>>
  PROVE  IndInv'
<1>a. f \in Ops /\ "un x use" \in Stmts /\ "ready x" \in Stmts
  BY DEF Ops, Stmts, Door, Enter, LeaveK
<1>g. PcOK /\ X!Goto(p, At(f, "un x use"), At(f, "ready x"))
  BY DEF IndInv, X!PassOrFree
<1>h. /\ oper \in [Procs -> Ops] /\ stmt \in [Procs -> Stmts]
      /\ oper[p] = f /\ stmt[p] = "un x use" /\ PcOK'
      /\ oper' = [oper EXCEPT ![p] = f] /\ stmt' = [stmt EXCEPT ![p] = "ready x"]
  <2>1. Moves(p, f, "un x use", f, "ready x")
    BY <1>a, <1>g, GotoOK
  <2>2. QED
    BY <2>1 DEF Moves
<1> USE DEF IndInv, X!PassOrFree, kvars
<1>q. ListsOK' /\ Head(xwaitq) \in xq /\ xq' = xq \ {Head(xwaitq)} /\ kq' = kq
  BY XqTail
<1>m. Head(xwaitq) \in Procs /\ stmt[Head(xwaitq)] = "x block"
  BY <1>q DEF xq, QueuesOK
<1>1. givenX' = givenX \cup {Head(xwaitq)} /\ Head(xwaitq) \notin givenX
  BY <1>h, <1>q, <1>m DEF givenX
<1>2. givenK' = givenK
  BY <1>h, <1>q DEF givenK
<1>3. p \in hasX /\ hasX' = (hasX \ {p}) \cup {Head(xwaitq)}
  BY ZenonT(60), <1>h, <1>q, <1>1, <1>2, <1>m DEF hasX, HasX, LeaveK, PlacesOK, Door,
    Enter, LeaveX, givenX, givenK
<1>4. hasK' = hasK
  BY <1>h, <1>q, <1>1, <1>2 DEF hasK, HasK
<1>5. counts' = counts
  BY <1>h, <1>q, <1>1, <1>2 DEF counts, Counts
<1>6. leaving' = leaving
  BY <1>h, <1>q, <1>1, <1>2 DEF leaving, Leaving
<1>7. shares' = shares
  BY <1>h, <1>q, <1>1, <1>2 DEF shares, Shares, Counts, Leaving
<1>8. PlacesOK'
  BY ZenonT(60), <1>h, <1>q DEF PlacesOK, Door, Enter, LeaveK, LeaveX
<1>9. TypesOK'
  BY <1>h, <1>q, <1>m DEF TypesOK
<1>10. BooleansOK'
  BY <1>h, <1>q DEF BooleansOK
<1>11. SpinsExact'
  BY <1>h, <1>q, NoProcAssumption DEF SpinsExact, AtXUse, AtKUse, AtL, LeaveK,
    PlacesOK, Door, Enter, LeaveX, TypesOK
<1>12. QueuesOK'
  BY <1>h, <1>q DEF QueuesOK
<1>13. HandsReady'
  BY <1>h, <1>q, NoProcAssumption, <1>m DEF HandsReady, TypesOK
<1>14. HandsGiven'
  <2>1. Head(xwaitq) \notin givenX \cup givenK
    BY <1>q, <1>m DEF givenX, givenK
  <2>2. sem[Head(xwaitq)] = 0
    BY <1>m, <2>1 DEF PostsOK
  <2>3. QED
    BY <1>1, <1>2, <2>2 DEF HandsGiven, TypesOK
<1>15. HandsApart'
  <2>1. Head(xwaitq) \notin givenX \cup givenK
    BY <1>q, <1>m DEF givenX, givenK
  <2>2. \A r \in Procs : handoff[r] # Head(xwaitq)
    BY <1>m, <2>1, NoProcAssumption DEF HandsGiven
  <2>3. QED
    BY ZenonT(60), <2>2 DEF HandsApart, TypesOK
<1>16. PostsOK'
  BY <1>1, <1>2 DEF PostsOK
<1>17. OneHasX'
  BY <1>3 DEF OneHasX
<1>18. XExact'
  BY <1>3 DEF XExact
<1>19. CountOK'
  BY <1>5 DEF CountOK
<1>20. KExact'
  BY <1>4, <1>5, <1>6, <1>7 DEF KExact
<1>21. WritersApart'
  BY <1>4, <1>5, <1>6, <1>7 DEF WritersApart
<1>22. LastOut'
  BY <1>4, <1>5, <1>6, <1>7 DEF LastOut
<1>23. QED
  BY <1>h, <1>q, <1>1, <1>2, <1>3, <1>4, <1>5, <1>6, <1>7, <1>8,
    <1>9, <1>10, <1>11, <1>12, <1>13, <1>14, <1>15, <1>16, <1>17, <1>18,
    <1>19, <1>20, <1>21, <1>22

(* qunlock(&l->x): nobody waits, and x is free. *)
LEMMA XFreeOK ==
  ASSUME IndInv, NEW p \in Procs, NEW f \in {"rlock", "canrlock", "wunlock"},
    xwaitq = <<>>, X!PassOrFree(p, At(f, "un x use"), At(f, "ready x"),
    At(AfterOp(f), AfterStmt(f))), UNCHANGED <<kvars, l, readers>>
  PROVE  IndInv'
<1>a. f \in Ops /\ AfterOp(f) \in Ops /\ "un x use" \in Stmts /\ AfterStmt(f) \in Stmts
  BY DEF Ops, Stmts, Door, Enter, LeaveK, AfterOp, AfterStmt
<1>g. PcOK /\ X!Goto(p, At(f, "un x use"), At(AfterOp(f), AfterStmt(f)))
  BY DEF IndInv, X!PassOrFree
<1>h. /\ oper \in [Procs -> Ops] /\ stmt \in [Procs -> Stmts]
      /\ oper[p] = f /\ stmt[p] = "un x use" /\ PcOK'
      /\ oper' = [oper EXCEPT ![p] = AfterOp(f)] /\ stmt' = [stmt EXCEPT ![p] = AfterStmt(f)]
  <2>1. Moves(p, f, "un x use", AfterOp(f), AfterStmt(f))
    BY <1>a, <1>g, GotoOK
  <2>2. QED
    BY <2>1 DEF Moves
<1> USE DEF IndInv, X!PassOrFree, kvars
<1>q. ListsOK' /\ xq' = xq /\ kq' = kq
  BY ListsSame
<1>1. givenX' = givenX
  BY <1>h, <1>q DEF givenX, AfterOp, AfterStmt
<1>2. givenK' = givenK
  BY <1>h, <1>q DEF givenK, AfterOp, AfterStmt
<1>3. hasX' = hasX \ {p} /\ p \in hasX
  BY ZenonT(60), <1>h, <1>q, <1>1, <1>2 DEF hasX, HasX, LeaveK, PlacesOK, Door, Enter,
    LeaveX, givenX, givenK, AfterOp, AfterStmt
<1>4. hasK' = hasK
  BY <1>h, <1>q, <1>1, <1>2 DEF hasK, HasK, AfterOp, AfterStmt
<1>5. counts' = counts
  BY <1>h, <1>q, <1>1, <1>2 DEF counts, Counts, AfterOp, AfterStmt
<1>6. leaving' = leaving
  BY <1>h, <1>q, <1>1, <1>2 DEF leaving, Leaving, AfterOp, AfterStmt
<1>7. shares' = shares
  BY <1>h, <1>q, <1>1, <1>2 DEF shares, Shares, Counts, Leaving, AfterOp,
    AfterStmt
<1>8. PlacesOK'
  BY ZenonT(60), <1>h, <1>q DEF PlacesOK, Door, Enter, LeaveK, LeaveX, AfterOp, AfterStmt
<1>9. TypesOK'
  BY <1>h, <1>q DEF TypesOK, AfterOp, AfterStmt
<1>10. BooleansOK'
  BY <1>h, <1>q DEF BooleansOK, AfterOp, AfterStmt
<1>11. SpinsExact'
  BY <1>h, <1>q, NoProcAssumption DEF SpinsExact, AtXUse, AtKUse, AtL, LeaveK,
    PlacesOK, Door, Enter, LeaveX, TypesOK, AfterOp, AfterStmt
<1>12. QueuesOK'
  BY <1>h, <1>q DEF QueuesOK, AfterOp, AfterStmt
<1>13. HandsReady'
  BY <1>h, <1>q DEF HandsReady, AfterOp, AfterStmt
<1>14. HandsGiven'
  BY <1>1, <1>2 DEF HandsGiven
<1>15. HandsApart'
  BY <1>1, <1>2 DEF HandsApart
<1>16. PostsOK'
  BY <1>1, <1>2 DEF PostsOK
<1>17. OneHasX'
  BY <1>3 DEF OneHasX
<1>18. XExact'
  BY <1>3 DEF OneHasX, XExact
<1>19. CountOK'
  BY <1>5 DEF CountOK
<1>20. KExact'
  BY <1>4, <1>5, <1>6, <1>7 DEF KExact
<1>21. WritersApart'
  BY <1>4, <1>5, <1>6, <1>7 DEF WritersApart
<1>22. LastOut'
  BY <1>4, <1>5, <1>6, <1>7 DEF LastOut
<1>23. QED
  BY <1>h, <1>q, <1>1, <1>2, <1>3, <1>4, <1>5, <1>6, <1>7, <1>8,
    <1>9, <1>10, <1>11, <1>12, <1>13, <1>14, <1>15, <1>16, <1>17, <1>18,
    <1>19, <1>20, <1>21, <1>22

(* qunlock(&l->x): the post. *)
LEMMA XReadyOK ==
  ASSUME IndInv, NEW p \in Procs, NEW f \in {"rlock", "canrlock", "wunlock"},
    X!Ready(p, At(f, "ready x"), At(AfterOp(f), AfterStmt(f))),
    UNCHANGED <<kvars, l, readers>>
  PROVE  IndInv'
<1>a. f \in Ops /\ AfterOp(f) \in Ops /\ "ready x" \in Stmts /\ AfterStmt(f) \in Stmts
  BY DEF Ops, Stmts, Door, Enter, LeaveK, AfterOp, AfterStmt
<1>g. PcOK /\ X!Goto(p, At(f, "ready x"), At(AfterOp(f), AfterStmt(f)))
  BY DEF IndInv, X!Ready
<1>h. /\ oper \in [Procs -> Ops] /\ stmt \in [Procs -> Stmts]
      /\ oper[p] = f /\ stmt[p] = "ready x" /\ PcOK'
      /\ oper' = [oper EXCEPT ![p] = AfterOp(f)] /\ stmt' = [stmt EXCEPT ![p] = AfterStmt(f)]
  <2>1. Moves(p, f, "ready x", AfterOp(f), AfterStmt(f))
    BY <1>a, <1>g, GotoOK
  <2>2. QED
    BY <2>1 DEF Moves
<1> USE DEF IndInv, X!Ready, kvars
<1>q. ListsOK' /\ xq' = xq /\ kq' = kq
  BY ListsSame
<1>m. /\ handoff[p] \in givenX \cup givenK /\ handoff[p] \in Procs
      /\ sem' \in [Procs -> Nat] /\ sem'[handoff[p]] = 1
      /\ \A q \in Procs : q # handoff[p] => sem'[q] = sem[q]
  BY <1>h, PutPost
<1>1. givenX' = givenX
  BY <1>h, <1>q DEF givenX, AfterOp, AfterStmt
<1>2. givenK' = givenK
  BY <1>h, <1>q DEF givenK, AfterOp, AfterStmt
<1>3. hasX' = hasX
  BY <1>h, <1>q, <1>1, <1>2 DEF hasX, HasX, LeaveK, AfterOp, AfterStmt
<1>4. hasK' = hasK
  BY <1>h, <1>q, <1>1, <1>2 DEF hasK, HasK, AfterOp, AfterStmt
<1>5. counts' = counts
  BY <1>h, <1>q, <1>1, <1>2 DEF counts, Counts, AfterOp, AfterStmt
<1>6. leaving' = leaving
  BY <1>h, <1>q, <1>1, <1>2 DEF leaving, Leaving, AfterOp, AfterStmt
<1>7. shares' = shares
  BY <1>h, <1>q, <1>1, <1>2 DEF shares, Shares, Counts, Leaving, AfterOp,
    AfterStmt
<1>8. PlacesOK'
  BY ZenonT(60), <1>h, <1>q DEF PlacesOK, Door, Enter, LeaveK, LeaveX, AfterOp, AfterStmt
<1>9. TypesOK'
  BY <1>h, <1>q, <1>m DEF TypesOK, AfterOp, AfterStmt
<1>10. BooleansOK'
  BY <1>h, <1>q DEF BooleansOK, AfterOp, AfterStmt
<1>11. SpinsExact'
  BY <1>h, <1>q DEF SpinsExact, AtXUse, AtKUse, AtL, LeaveK, AfterOp,
    AfterStmt
<1>12. QueuesOK'
  BY <1>h, <1>q DEF QueuesOK, AfterOp, AfterStmt
<1>13. HandsReady'
  BY <1>h, <1>q DEF HandsReady, TypesOK, AfterOp, AfterStmt
<1>14. HandsGiven'
  BY ZenonT(60), <1>h, <1>q, <1>1, <1>2, <1>m DEF HandsGiven, HandsApart, PostsOK,
    TypesOK, AfterOp, AfterStmt
<1>15. HandsApart'
  BY <1>h, <1>q, <1>1, <1>2, <1>m DEF HandsApart, TypesOK, AfterOp, AfterStmt
<1>16. PostsOK'
  BY <1>h, <1>q, <1>1, <1>2, <1>m DEF PostsOK, TypesOK, AfterOp, AfterStmt
<1>17. OneHasX'
  BY <1>3 DEF OneHasX
<1>18. XExact'
  BY <1>3 DEF XExact
<1>19. CountOK'
  BY <1>5 DEF CountOK
<1>20. KExact'
  BY <1>4, <1>5, <1>6, <1>7 DEF KExact
<1>21. WritersApart'
  BY <1>4, <1>5, <1>6, <1>7 DEF WritersApart
<1>22. LastOut'
  BY <1>4, <1>5, <1>6, <1>7 DEF LastOut
<1>23. QED
  BY <1>h, <1>q, <1>1, <1>2, <1>3, <1>4, <1>5, <1>6, <1>7, <1>8,
    <1>9, <1>10, <1>11, <1>12, <1>13, <1>14, <1>15, <1>16, <1>17, <1>18,
    <1>19, <1>20, <1>21, <1>22

(* qlock(&l->k) and qunlock(&l->k), step by step as for x. *)
LEMMA KLockUseOK ==
  ASSUME IndInv, NEW p \in Procs, K!LockUse(p, At("wlock", "qlock k"),
    At("wlock", "k use")), UNCHANGED <<xvars, l, readers>>
  PROVE  IndInv'
<1>a. "wlock" \in Ops /\ "qlock k" \in Stmts /\ "k use" \in Stmts
  BY DEF Ops, Stmts, Door, Enter, LeaveK
<1>g. PcOK /\ X!Goto(p, At("wlock", "qlock k"), At("wlock", "k use"))
  BY DEF IndInv, K!LockUse, X!Goto, K!Goto
<1>h. /\ oper \in [Procs -> Ops] /\ stmt \in [Procs -> Stmts]
      /\ oper[p] = "wlock" /\ stmt[p] = "qlock k" /\ PcOK'
      /\ oper' = [oper EXCEPT ![p] = "wlock"] /\ stmt' = [stmt EXCEPT ![p] = "k use"]
  <2>1. Moves(p, "wlock", "qlock k", "wlock", "k use")
    BY <1>a, <1>g, GotoOK
  <2>2. QED
    BY <2>1 DEF Moves
<1> USE DEF IndInv, K!LockUse, xvars
<1>q. ListsOK' /\ xq' = xq /\ kq' = kq
  BY ListsSame
<1>1. givenX' = givenX
  BY <1>h, <1>q DEF givenX
<1>2. givenK' = givenK
  BY <1>h, <1>q DEF givenK
<1>3. hasX' = hasX
  BY <1>h, <1>q, <1>1, <1>2 DEF hasX, HasX, LeaveK
<1>4. hasK' = hasK
  BY <1>h, <1>q, <1>1, <1>2 DEF hasK, HasK
<1>5. counts' = counts
  BY <1>h, <1>q, <1>1, <1>2 DEF counts, Counts
<1>6. leaving' = leaving
  BY <1>h, <1>q, <1>1, <1>2 DEF leaving, Leaving
<1>7. shares' = shares
  BY <1>h, <1>q, <1>1, <1>2 DEF shares, Shares, Counts, Leaving
<1>8. PlacesOK'
  BY ZenonT(60), <1>h, <1>q DEF PlacesOK, Door, Enter, LeaveK, LeaveX
<1>9. TypesOK'
  BY <1>h, <1>q DEF TypesOK
<1>10. BooleansOK'
  BY <1>h, <1>q DEF BooleansOK
<1>11. SpinsExact'
  BY <1>h, <1>q, NoProcAssumption DEF SpinsExact, AtXUse, AtKUse, AtL, LeaveK,
    PlacesOK, Door, Enter, LeaveX, TypesOK
<1>12. QueuesOK'
  BY <1>h, <1>q DEF QueuesOK
<1>13. HandsReady'
  BY <1>h, <1>q DEF HandsReady
<1>14. HandsGiven'
  BY <1>1, <1>2 DEF HandsGiven
<1>15. HandsApart'
  BY <1>1, <1>2 DEF HandsApart
<1>16. PostsOK'
  BY <1>1, <1>2 DEF PostsOK
<1>17. OneHasX'
  BY <1>3 DEF OneHasX
<1>18. XExact'
  BY <1>3 DEF XExact
<1>19. CountOK'
  BY <1>5 DEF CountOK
<1>20. KExact'
  BY <1>4, <1>5, <1>6, <1>7 DEF KExact
<1>21. WritersApart'
  BY <1>4, <1>5, <1>6, <1>7 DEF WritersApart
<1>22. LastOut'
  BY <1>4, <1>5, <1>6, <1>7 DEF LastOut
<1>23. QED
  BY <1>h, <1>q, <1>1, <1>2, <1>3, <1>4, <1>5, <1>6, <1>7, <1>8,
    <1>9, <1>10, <1>11, <1>12, <1>13, <1>14, <1>15, <1>16, <1>17, <1>18,
    <1>19, <1>20, <1>21, <1>22

LEMMA KTakeOK ==
  ASSUME IndInv, NEW p \in Procs, ~klocked, K!TakeOrEnqueue(p, At("wlock",
    "k use"), At("wlock", "in"), At("wlock", "k block")), UNCHANGED <<xvars,
    l, readers>>
  PROVE  IndInv'
<1>a. "wlock" \in Ops /\ "k use" \in Stmts /\ "in" \in Stmts
  BY DEF Ops, Stmts, Door, Enter, LeaveK
<1>g. PcOK /\ X!Goto(p, At("wlock", "k use"), At("wlock", "in"))
  BY DEF IndInv, K!TakeOrEnqueue, X!Goto, K!Goto
<1>h. /\ oper \in [Procs -> Ops] /\ stmt \in [Procs -> Stmts]
      /\ oper[p] = "wlock" /\ stmt[p] = "k use" /\ PcOK'
      /\ oper' = [oper EXCEPT ![p] = "wlock"] /\ stmt' = [stmt EXCEPT ![p] = "in"]
  <2>1. Moves(p, "wlock", "k use", "wlock", "in")
    BY <1>a, <1>g, GotoOK
  <2>2. QED
    BY <2>1 DEF Moves
<1> USE DEF IndInv, K!TakeOrEnqueue, xvars
<1>q. ListsOK' /\ xq' = xq /\ kq' = kq
  BY ListsSame
<1>1. givenX' = givenX
  BY <1>h, <1>q DEF givenX
<1>2. givenK' = givenK
  BY <1>h, <1>q DEF givenK
<1>3. hasX' = hasX
  BY <1>h, <1>q, <1>1, <1>2 DEF hasX, HasX, LeaveK
<1>4. hasK' = hasK \cup {p}
  BY <1>h, <1>q, <1>1, <1>2 DEF hasK, HasK
<1>5. counts' = counts
  BY <1>h, <1>q, <1>1, <1>2 DEF counts, Counts
<1>6. leaving' = leaving
  BY <1>h, <1>q, <1>1, <1>2 DEF leaving, Leaving
<1>7. shares' = shares
  BY <1>h, <1>q, <1>1, <1>2 DEF shares, Shares, Counts, Leaving
<1>8. PlacesOK'
  BY ZenonT(60), <1>h, <1>q DEF PlacesOK, Door, Enter, LeaveK, LeaveX
<1>9. TypesOK'
  BY <1>h, <1>q DEF TypesOK
<1>10. BooleansOK'
  BY <1>h, <1>q DEF BooleansOK
<1>11. SpinsExact'
  BY <1>h, <1>q, NoProcAssumption DEF SpinsExact, AtXUse, AtKUse, AtL, LeaveK,
    PlacesOK, Door, Enter, LeaveX, TypesOK
<1>12. QueuesOK'
  BY <1>h, <1>q DEF QueuesOK
<1>13. HandsReady'
  BY <1>h, <1>q DEF HandsReady
<1>14. HandsGiven'
  BY <1>1, <1>2 DEF HandsGiven
<1>15. HandsApart'
  BY <1>1, <1>2 DEF HandsApart
<1>16. PostsOK'
  BY <1>1, <1>2 DEF PostsOK
<1>17. OneHasX'
  BY <1>3 DEF OneHasX
<1>18. XExact'
  BY <1>3 DEF XExact
<1>19. CountOK'
  BY <1>5 DEF CountOK
<1>20. KExact'
  BY <1>4, <1>5, <1>6, <1>7 DEF KExact
<1>21. WritersApart'
  BY <1>4, <1>5, <1>6, <1>7 DEF KExact, WritersApart, LastOut
<1>22. LastOut'
  BY <1>4, <1>5, <1>6, <1>7 DEF LastOut
<1>23. QED
  BY <1>h, <1>q, <1>1, <1>2, <1>3, <1>4, <1>5, <1>6, <1>7, <1>8,
    <1>9, <1>10, <1>11, <1>12, <1>13, <1>14, <1>15, <1>16, <1>17, <1>18,
    <1>19, <1>20, <1>21, <1>22

LEMMA KEnqueueOK ==
  ASSUME IndInv, NEW p \in Procs, klocked, K!TakeOrEnqueue(p, At("wlock",
    "k use"), At("wlock", "in"), At("wlock", "k block")), UNCHANGED <<xvars,
    l, readers>>
  PROVE  IndInv'
<1>a. "wlock" \in Ops /\ "k use" \in Stmts /\ "k block" \in Stmts
  BY DEF Ops, Stmts, Door, Enter, LeaveK
<1>g. PcOK /\ X!Goto(p, At("wlock", "k use"), At("wlock", "k block"))
  BY DEF IndInv, K!TakeOrEnqueue, X!Goto, K!Goto
<1>h. /\ oper \in [Procs -> Ops] /\ stmt \in [Procs -> Stmts]
      /\ oper[p] = "wlock" /\ stmt[p] = "k use" /\ PcOK'
      /\ oper' = [oper EXCEPT ![p] = "wlock"] /\ stmt' = [stmt EXCEPT ![p] = "k block"]
  <2>1. Moves(p, "wlock", "k use", "wlock", "k block")
    BY <1>a, <1>g, GotoOK
  <2>2. QED
    BY <2>1 DEF Moves
<1> USE DEF IndInv, K!TakeOrEnqueue, xvars
<1>q. ListsOK' /\ kq' = kq \cup {p} /\ xq' = xq
  <2>1. p \notin kq
    BY <1>h DEF QueuesOK
  <2>2. QED
    BY <2>1, KqAppend
<1>1. givenX' = givenX
  BY <1>h, <1>q DEF givenX
<1>2. givenK' = givenK
  BY <1>h, <1>q DEF givenK
<1>3. hasX' = hasX
  BY <1>h, <1>q, <1>1, <1>2 DEF hasX, HasX, LeaveK
<1>4. hasK' = hasK
  BY <1>h, <1>q, <1>1, <1>2 DEF hasK, HasK
<1>5. counts' = counts
  BY <1>h, <1>q, <1>1, <1>2 DEF counts, Counts
<1>6. leaving' = leaving
  BY <1>h, <1>q, <1>1, <1>2 DEF leaving, Leaving
<1>7. shares' = shares
  BY <1>h, <1>q, <1>1, <1>2 DEF shares, Shares, Counts, Leaving
<1>8. PlacesOK'
  BY ZenonT(60), <1>h, <1>q DEF PlacesOK, Door, Enter, LeaveK, LeaveX
<1>9. TypesOK'
  BY <1>h, <1>q DEF TypesOK
<1>10. BooleansOK'
  BY <1>h, <1>q DEF BooleansOK
<1>11. SpinsExact'
  BY <1>h, <1>q, NoProcAssumption DEF SpinsExact, AtXUse, AtKUse, AtL, LeaveK,
    PlacesOK, Door, Enter, LeaveX, TypesOK
<1>12. QueuesOK'
  BY <1>h, <1>q DEF QueuesOK
<1>13. HandsReady'
  BY <1>h, <1>q DEF HandsReady
<1>14. HandsGiven'
  BY <1>1, <1>2 DEF HandsGiven
<1>15. HandsApart'
  BY <1>1, <1>2 DEF HandsApart
<1>16. PostsOK'
  BY <1>1, <1>2 DEF PostsOK
<1>17. OneHasX'
  BY <1>3 DEF OneHasX
<1>18. XExact'
  BY <1>3 DEF XExact
<1>19. CountOK'
  BY <1>5 DEF CountOK
<1>20. KExact'
  BY <1>4, <1>5, <1>6, <1>7 DEF KExact
<1>21. WritersApart'
  BY <1>4, <1>5, <1>6, <1>7 DEF WritersApart
<1>22. LastOut'
  BY <1>4, <1>5, <1>6, <1>7 DEF LastOut
<1>23. QED
  BY <1>h, <1>q, <1>1, <1>2, <1>3, <1>4, <1>5, <1>6, <1>7, <1>8,
    <1>9, <1>10, <1>11, <1>12, <1>13, <1>14, <1>15, <1>16, <1>17, <1>18,
    <1>19, <1>20, <1>21, <1>22

LEMMA KBlockOK ==
  ASSUME IndInv, NEW p \in Procs, K!Block(p, At("wlock", "k block"),
    At("wlock", "in")), UNCHANGED <<xvars, l, readers>>
  PROVE  IndInv'
<1>a. "wlock" \in Ops /\ "k block" \in Stmts /\ "in" \in Stmts
  BY DEF Ops, Stmts, Door, Enter, LeaveK
<1>g. PcOK /\ X!Goto(p, At("wlock", "k block"), At("wlock", "in"))
  BY DEF IndInv, K!Block, X!Goto, K!Goto
<1>h. /\ oper \in [Procs -> Ops] /\ stmt \in [Procs -> Stmts]
      /\ oper[p] = "wlock" /\ stmt[p] = "k block" /\ PcOK'
      /\ oper' = [oper EXCEPT ![p] = "wlock"] /\ stmt' = [stmt EXCEPT ![p] = "in"]
  <2>1. Moves(p, "wlock", "k block", "wlock", "in")
    BY <1>a, <1>g, GotoOK
  <2>2. QED
    BY <2>1 DEF Moves
<1> USE DEF IndInv, K!Block, xvars
<1>q. ListsOK' /\ xq' = xq /\ kq' = kq
  BY ListsSame
<1>m. /\ sem[p] = 1 /\ sem' \in [Procs -> Nat] /\ sem'[p] = 0
      /\ p \in givenX \cup givenK
      /\ \A q \in Procs : q # p => sem'[q] = sem[q]
      /\ \A q \in Procs : handoff[q] # NoProc => handoff[q] # p /\ handoff[q] \in Procs
  BY TakePost
<1>1. givenX' = givenX
  BY <1>h, <1>q DEF givenX
<1>2. givenK' = givenK \ {p} /\ p \in givenK
  BY ZenonT(60), <1>h, <1>q, <1>m DEF givenX, givenK, QueuesOK
<1>3. hasX' = hasX
  BY <1>h, <1>q, <1>1, <1>2 DEF hasX, HasX, LeaveK
<1>4. hasK' = hasK
  BY <1>h, <1>q, <1>1, <1>2 DEF hasK, HasK
<1>5. counts' = counts
  BY <1>h, <1>q, <1>1, <1>2 DEF counts, Counts
<1>6. leaving' = leaving
  BY <1>h, <1>q, <1>1, <1>2 DEF leaving, Leaving
<1>7. shares' = shares
  BY <1>h, <1>q, <1>1, <1>2 DEF shares, Shares, Counts, Leaving
<1>8. PlacesOK'
  BY ZenonT(60), <1>h, <1>q DEF PlacesOK, Door, Enter, LeaveK, LeaveX
<1>9. TypesOK'
  BY <1>h, <1>q, <1>m DEF TypesOK
<1>10. BooleansOK'
  BY <1>h, <1>q DEF BooleansOK
<1>11. SpinsExact'
  BY <1>h, <1>q DEF SpinsExact, AtXUse, AtKUse, AtL, LeaveK
<1>12. QueuesOK'
  BY <1>h, <1>q, <1>1, <1>2 DEF QueuesOK, givenX, givenK
<1>13. HandsReady'
  BY <1>h, <1>q DEF HandsReady
<1>14. HandsGiven'
  BY <1>1, <1>2, <1>m DEF HandsGiven
<1>15. HandsApart'
  BY <1>1, <1>2 DEF HandsApart
<1>16. PostsOK'
  BY <1>h, <1>q, <1>1, <1>2, <1>m DEF PostsOK, TypesOK
<1>17. OneHasX'
  BY <1>3 DEF OneHasX
<1>18. XExact'
  BY <1>3 DEF XExact
<1>19. CountOK'
  BY <1>5 DEF CountOK
<1>20. KExact'
  BY <1>4, <1>5, <1>6, <1>7 DEF KExact
<1>21. WritersApart'
  BY <1>4, <1>5, <1>6, <1>7 DEF WritersApart
<1>22. LastOut'
  BY <1>4, <1>5, <1>6, <1>7 DEF LastOut
<1>23. QED
  BY <1>h, <1>q, <1>1, <1>2, <1>3, <1>4, <1>5, <1>6, <1>7, <1>8,
    <1>9, <1>10, <1>11, <1>12, <1>13, <1>14, <1>15, <1>16, <1>17, <1>18,
    <1>19, <1>20, <1>21, <1>22

LEMMA KUnlockUseOK ==
  ASSUME IndInv, NEW p \in Procs, NEW f \in {"runlock", "wunlock"},
    K!LockUse(p, At(f, "qunlock k"), At(f, "un k use")), UNCHANGED <<xvars, l,
    readers>>
  PROVE  IndInv'
<1>a. f \in Ops /\ "qunlock k" \in Stmts /\ "un k use" \in Stmts
  BY DEF Ops, Stmts, Door, Enter, LeaveK
<1>g. PcOK /\ X!Goto(p, At(f, "qunlock k"), At(f, "un k use"))
  BY DEF IndInv, K!LockUse, X!Goto, K!Goto
<1>h. /\ oper \in [Procs -> Ops] /\ stmt \in [Procs -> Stmts]
      /\ oper[p] = f /\ stmt[p] = "qunlock k" /\ PcOK'
      /\ oper' = [oper EXCEPT ![p] = f] /\ stmt' = [stmt EXCEPT ![p] = "un k use"]
  <2>1. Moves(p, f, "qunlock k", f, "un k use")
    BY <1>a, <1>g, GotoOK
  <2>2. QED
    BY <2>1 DEF Moves
<1> USE DEF IndInv, K!LockUse, xvars
<1>q. ListsOK' /\ xq' = xq /\ kq' = kq
  BY ListsSame
<1>1. givenX' = givenX
  BY <1>h, <1>q DEF givenX
<1>2. givenK' = givenK
  BY <1>h, <1>q DEF givenK
<1>3. hasX' = hasX
  BY <1>h, <1>q, <1>1, <1>2 DEF hasX, HasX, LeaveK
<1>4. hasK' = hasK
  BY <1>h, <1>q, <1>1, <1>2 DEF hasK, HasK
<1>5. counts' = counts
  BY <1>h, <1>q, <1>1, <1>2 DEF counts, Counts
<1>6. leaving' = leaving
  BY <1>h, <1>q, <1>1, <1>2 DEF leaving, Leaving
<1>7. shares' = shares
  BY <1>h, <1>q, <1>1, <1>2 DEF shares, Shares, Counts, Leaving
<1>8. PlacesOK'
  BY ZenonT(60), <1>h, <1>q DEF PlacesOK, Door, Enter, LeaveK, LeaveX
<1>9. TypesOK'
  BY <1>h, <1>q DEF TypesOK
<1>10. BooleansOK'
  BY <1>h, <1>q DEF BooleansOK
<1>11. SpinsExact'
  BY <1>h, <1>q, NoProcAssumption DEF SpinsExact, AtXUse, AtKUse, AtL, LeaveK,
    PlacesOK, Door, Enter, LeaveX, TypesOK
<1>12. QueuesOK'
  BY <1>h, <1>q DEF QueuesOK
<1>13. HandsReady'
  BY <1>h, <1>q DEF HandsReady
<1>14. HandsGiven'
  BY <1>1, <1>2 DEF HandsGiven
<1>15. HandsApart'
  BY <1>1, <1>2 DEF HandsApart
<1>16. PostsOK'
  BY <1>1, <1>2 DEF PostsOK
<1>17. OneHasX'
  BY <1>3 DEF OneHasX
<1>18. XExact'
  BY <1>3 DEF XExact
<1>19. CountOK'
  BY <1>5 DEF CountOK
<1>20. KExact'
  BY <1>4, <1>5, <1>6, <1>7 DEF KExact
<1>21. WritersApart'
  BY <1>4, <1>5, <1>6, <1>7 DEF WritersApart
<1>22. LastOut'
  BY <1>4, <1>5, <1>6, <1>7 DEF LastOut
<1>23. QED
  BY <1>h, <1>q, <1>1, <1>2, <1>3, <1>4, <1>5, <1>6, <1>7, <1>8,
    <1>9, <1>10, <1>11, <1>12, <1>13, <1>14, <1>15, <1>16, <1>17, <1>18,
    <1>19, <1>20, <1>21, <1>22

LEMMA KPassOK ==
  ASSUME IndInv, NEW p \in Procs, NEW f \in {"runlock", "wunlock"},
    kwaitq # <<>>, K!PassOrFree(p, At(f, "un k use"), At(f, "ready k"), At(f,
    AfterK(f))), UNCHANGED <<xvars, l, readers>>
  PROVE  IndInv'
<1>a. f \in Ops /\ "un k use" \in Stmts /\ "ready k" \in Stmts
  BY DEF Ops, Stmts, Door, Enter, LeaveK
<1>g. PcOK /\ X!Goto(p, At(f, "un k use"), At(f, "ready k"))
  BY DEF IndInv, K!PassOrFree, X!Goto, K!Goto
<1>h. /\ oper \in [Procs -> Ops] /\ stmt \in [Procs -> Stmts]
      /\ oper[p] = f /\ stmt[p] = "un k use" /\ PcOK'
      /\ oper' = [oper EXCEPT ![p] = f] /\ stmt' = [stmt EXCEPT ![p] = "ready k"]
  <2>1. Moves(p, f, "un k use", f, "ready k")
    BY <1>a, <1>g, GotoOK
  <2>2. QED
    BY <2>1 DEF Moves
<1> USE DEF IndInv, K!PassOrFree, xvars
<1>q. ListsOK' /\ Head(kwaitq) \in kq /\ kq' = kq \ {Head(kwaitq)} /\ xq' = xq
  BY KqTail
<1>m. Head(kwaitq) \in Procs /\ stmt[Head(kwaitq)] = "k block"
  BY <1>q DEF kq, QueuesOK
<1>1. givenX' = givenX
  BY <1>h, <1>q DEF givenX
<1>2. givenK' = givenK \cup {Head(kwaitq)} /\ Head(kwaitq) \notin givenK
  BY <1>h, <1>q, <1>m DEF givenK
<1>3. hasX' = hasX
  BY <1>h, <1>q, <1>1, <1>2 DEF hasX, HasX, LeaveK
<1>4. hasK' = (hasK \ {p}) \cup {Head(kwaitq)}
  BY <1>h, <1>q, <1>1, <1>2, <1>m DEF hasK, HasK, PlacesOK, Door, Enter,
    LeaveK, LeaveX, givenX, givenK
<1>5. counts' = counts
  BY <1>h, <1>q, <1>1, <1>2 DEF counts, Counts
<1>6. leaving' = leaving \ {p}
  BY <1>h, <1>q, <1>1, <1>2 DEF leaving, Leaving
<1>7. shares' = shares \ {p}
  BY <1>h, <1>q, <1>1, <1>2 DEF shares, Shares, Counts, Leaving
<1>8. PlacesOK'
  BY ZenonT(60), <1>h, <1>q DEF PlacesOK, Door, Enter, LeaveK, LeaveX
<1>9. TypesOK'
  BY <1>h, <1>q, <1>m DEF TypesOK
<1>10. BooleansOK'
  BY <1>h, <1>q DEF BooleansOK
<1>11. SpinsExact'
  BY <1>h, <1>q, NoProcAssumption DEF SpinsExact, AtXUse, AtKUse, AtL, LeaveK,
    PlacesOK, Door, Enter, LeaveX, TypesOK
<1>12. QueuesOK'
  BY <1>h, <1>q DEF QueuesOK
<1>13. HandsReady'
  BY <1>h, <1>q, NoProcAssumption, <1>m DEF HandsReady, TypesOK
<1>14. HandsGiven'
  <2>1. Head(kwaitq) \notin givenX \cup givenK
    BY <1>q, <1>m DEF givenX, givenK
  <2>2. sem[Head(kwaitq)] = 0
    BY <1>m, <2>1 DEF PostsOK
  <2>3. QED
    BY <1>1, <1>2, <2>2 DEF HandsGiven, TypesOK
<1>15. HandsApart'
  <2>1. Head(kwaitq) \notin givenX \cup givenK
    BY <1>q, <1>m DEF givenX, givenK
  <2>2. \A r \in Procs : handoff[r] # Head(kwaitq)
    BY <1>m, <2>1, NoProcAssumption DEF HandsGiven
  <2>3. QED
    BY ZenonT(60), <2>2 DEF HandsApart, TypesOK
<1>16. PostsOK'
  BY <1>1, <1>2 DEF PostsOK
<1>17. OneHasX'
  BY <1>3 DEF OneHasX
<1>18. XExact'
  BY <1>3 DEF XExact
<1>19. CountOK'
  BY <1>5 DEF CountOK
<1>20. KExact'
  BY <1>h, <1>q, NoProcAssumption, <1>4, <1>5, <1>6, <1>7 DEF KExact,
    WritersApart, LastOut, SpinsExact, AtXUse, AtKUse, AtL, LeaveK, leaving,
    Leaving, shares, Shares, Counts, hasK, HasK, TypesOK
<1>21. WritersApart'
  BY <1>h, <1>4, <1>7, OneLeavesK DEF WritersApart
<1>22. LastOut'
  BY <1>4, <1>5, <1>6, <1>7 DEF LastOut
<1>23. QED
  BY <1>h, <1>q, <1>1, <1>2, <1>3, <1>4, <1>5, <1>6, <1>7, <1>8,
    <1>9, <1>10, <1>11, <1>12, <1>13, <1>14, <1>15, <1>16, <1>17, <1>18,
    <1>19, <1>20, <1>21, <1>22

LEMMA KFreeOK ==
  ASSUME IndInv, NEW p \in Procs, NEW f \in {"runlock", "wunlock"},
    kwaitq = <<>>, K!PassOrFree(p, At(f, "un k use"), At(f, "ready k"), At(f,
    AfterK(f))), UNCHANGED <<xvars, l, readers>>
  PROVE  IndInv'
<1>a. f \in Ops /\ "un k use" \in Stmts /\ AfterK(f) \in Stmts
  BY DEF Ops, Stmts, Door, Enter, LeaveK, AfterK
<1>g. PcOK /\ X!Goto(p, At(f, "un k use"), At(f, AfterK(f)))
  BY DEF IndInv, K!PassOrFree, X!Goto, K!Goto
<1>h. /\ oper \in [Procs -> Ops] /\ stmt \in [Procs -> Stmts]
      /\ oper[p] = f /\ stmt[p] = "un k use" /\ PcOK'
      /\ oper' = [oper EXCEPT ![p] = f] /\ stmt' = [stmt EXCEPT ![p] = AfterK(f)]
  <2>1. Moves(p, f, "un k use", f, AfterK(f))
    BY <1>a, <1>g, GotoOK
  <2>2. QED
    BY <2>1 DEF Moves
<1> USE DEF IndInv, K!PassOrFree, xvars
<1>q. ListsOK' /\ xq' = xq /\ kq' = kq
  BY ListsSame
<1>1. givenX' = givenX
  BY <1>h, <1>q DEF givenX, AfterK
<1>2. givenK' = givenK
  BY <1>h, <1>q DEF givenK, AfterK
<1>3. hasX' = hasX
  BY <1>h, <1>q, <1>1, <1>2 DEF hasX, HasX, LeaveK, AfterK
<1>4. hasK' = hasK \ {p}
  BY <1>h, <1>q, <1>1, <1>2 DEF hasK, HasK, PlacesOK, Door, Enter, LeaveK,
    LeaveX, givenX, givenK, AfterK
<1>5. counts' = counts
  BY <1>h, <1>q, <1>1, <1>2 DEF counts, Counts, AfterK
<1>6. leaving' = leaving \ {p}
  BY <1>h, <1>q, <1>1, <1>2 DEF leaving, Leaving, AfterK
<1>7. shares' = shares \ {p}
  BY <1>h, <1>q, <1>1, <1>2 DEF shares, Shares, Counts, Leaving, AfterK
<1>8. PlacesOK'
  BY ZenonT(60), <1>h, <1>q DEF PlacesOK, Door, Enter, LeaveK, LeaveX, AfterK
<1>9. TypesOK'
  BY <1>h, <1>q DEF TypesOK, AfterK
<1>10. BooleansOK'
  BY <1>h, <1>q DEF BooleansOK, AfterK
<1>11. SpinsExact'
  BY <1>h, <1>q, NoProcAssumption DEF SpinsExact, AtXUse, AtKUse, AtL, LeaveK,
    PlacesOK, Door, Enter, LeaveX, TypesOK, AfterK
<1>12. QueuesOK'
  BY <1>h, <1>q DEF QueuesOK, AfterK
<1>13. HandsReady'
  BY <1>h, <1>q DEF HandsReady, AfterK
<1>14. HandsGiven'
  BY <1>1, <1>2 DEF HandsGiven
<1>15. HandsApart'
  BY <1>1, <1>2 DEF HandsApart
<1>16. PostsOK'
  BY <1>1, <1>2 DEF PostsOK
<1>17. OneHasX'
  BY <1>3 DEF OneHasX
<1>18. XExact'
  BY <1>3 DEF XExact
<1>19. CountOK'
  BY <1>5 DEF CountOK
<1>20. KExact'
  BY <1>h, <1>4, <1>7, OneLeavesK DEF KExact
<1>21. WritersApart'
  BY <1>4, <1>5, <1>6, <1>7 DEF WritersApart
<1>22. LastOut'
  BY <1>4, <1>5, <1>6, <1>7 DEF LastOut
<1>23. QED
  BY <1>h, <1>q, <1>1, <1>2, <1>3, <1>4, <1>5, <1>6, <1>7, <1>8,
    <1>9, <1>10, <1>11, <1>12, <1>13, <1>14, <1>15, <1>16, <1>17, <1>18,
    <1>19, <1>20, <1>21, <1>22

LEMMA KReadyOK ==
  ASSUME IndInv, NEW p \in Procs, NEW f \in {"runlock", "wunlock"}, K!Ready(p,
    At(f, "ready k"), At(f, AfterK(f))), UNCHANGED <<xvars, l, readers>>
  PROVE  IndInv'
<1>a. f \in Ops /\ "ready k" \in Stmts /\ AfterK(f) \in Stmts
  BY DEF Ops, Stmts, Door, Enter, LeaveK, AfterK
<1>g. PcOK /\ X!Goto(p, At(f, "ready k"), At(f, AfterK(f)))
  BY DEF IndInv, K!Ready, X!Goto, K!Goto
<1>h. /\ oper \in [Procs -> Ops] /\ stmt \in [Procs -> Stmts]
      /\ oper[p] = f /\ stmt[p] = "ready k" /\ PcOK'
      /\ oper' = [oper EXCEPT ![p] = f] /\ stmt' = [stmt EXCEPT ![p] = AfterK(f)]
  <2>1. Moves(p, f, "ready k", f, AfterK(f))
    BY <1>a, <1>g, GotoOK
  <2>2. QED
    BY <2>1 DEF Moves
<1> USE DEF IndInv, K!Ready, xvars
<1>q. ListsOK' /\ xq' = xq /\ kq' = kq
  BY ListsSame
<1>m. /\ handoff[p] \in givenX \cup givenK /\ handoff[p] \in Procs
      /\ sem' \in [Procs -> Nat] /\ sem'[handoff[p]] = 1
      /\ \A q \in Procs : q # handoff[p] => sem'[q] = sem[q]
  BY <1>h, PutPost
<1>1. givenX' = givenX
  BY <1>h, <1>q DEF givenX, AfterK
<1>2. givenK' = givenK
  BY <1>h, <1>q DEF givenK, AfterK
<1>3. hasX' = hasX
  BY <1>h, <1>q, <1>1, <1>2 DEF hasX, HasX, LeaveK, AfterK
<1>4. hasK' = hasK
  BY <1>h, <1>q, <1>1, <1>2 DEF hasK, HasK, AfterK
<1>5. counts' = counts
  BY <1>h, <1>q, <1>1, <1>2 DEF counts, Counts, AfterK
<1>6. leaving' = leaving
  BY <1>h, <1>q, <1>1, <1>2 DEF leaving, Leaving, AfterK
<1>7. shares' = shares
  BY <1>h, <1>q, <1>1, <1>2 DEF shares, Shares, Counts, Leaving, AfterK
<1>8. PlacesOK'
  BY ZenonT(60), <1>h, <1>q DEF PlacesOK, Door, Enter, LeaveK, LeaveX, AfterK
<1>9. TypesOK'
  BY <1>h, <1>q, <1>m DEF TypesOK, AfterK
<1>10. BooleansOK'
  BY <1>h, <1>q DEF BooleansOK, AfterK
<1>11. SpinsExact'
  BY <1>h, <1>q DEF SpinsExact, AtXUse, AtKUse, AtL, LeaveK, AfterK
<1>12. QueuesOK'
  BY <1>h, <1>q DEF QueuesOK, AfterK
<1>13. HandsReady'
  BY <1>h, <1>q DEF HandsReady, TypesOK, AfterK
<1>14. HandsGiven'
  BY ZenonT(60), <1>h, <1>q, <1>1, <1>2, <1>m DEF HandsGiven, HandsApart, PostsOK,
    TypesOK, AfterK
<1>15. HandsApart'
  BY <1>h, <1>q, <1>1, <1>2, <1>m DEF HandsApart, TypesOK, AfterK
<1>16. PostsOK'
  BY <1>h, <1>q, <1>1, <1>2, <1>m DEF PostsOK, TypesOK, AfterK
<1>17. OneHasX'
  BY <1>3 DEF OneHasX
<1>18. XExact'
  BY <1>3 DEF XExact
<1>19. CountOK'
  BY <1>5 DEF CountOK
<1>20. KExact'
  BY <1>4, <1>5, <1>6, <1>7 DEF KExact
<1>21. WritersApart'
  BY <1>4, <1>5, <1>6, <1>7 DEF WritersApart
<1>22. LastOut'
  BY <1>4, <1>5, <1>6, <1>7 DEF LastOut
<1>23. QED
  BY <1>h, <1>q, <1>1, <1>2, <1>3, <1>4, <1>5, <1>6, <1>7, <1>8,
    <1>9, <1>10, <1>11, <1>12, <1>13, <1>14, <1>15, <1>16, <1>17, <1>18,
    <1>19, <1>20, <1>21, <1>22

(* A reader counts itself in; no last reader is inside l. *)
LEMMA EnterLOK ==
  ASSUME IndInv, NEW p \in Procs, NEW f \in {"rlock", "canrlock"}, LockL(p,
    At(f, "lock l"), At(f, "canqlock k"), readers + 1)
  PROVE  IndInv'
<1>a. f \in Ops /\ "lock l" \in Stmts /\ "canqlock k" \in Stmts
  BY DEF Ops, Stmts, Door, Enter, LeaveK
<1>g. PcOK /\ X!Goto(p, At(f, "lock l"), At(f, "canqlock k"))
  BY DEF IndInv, LockL
<1>h. /\ oper \in [Procs -> Ops] /\ stmt \in [Procs -> Stmts]
      /\ oper[p] = f /\ stmt[p] = "lock l" /\ PcOK'
      /\ oper' = [oper EXCEPT ![p] = f] /\ stmt' = [stmt EXCEPT ![p] = "canqlock k"]
  <2>1. Moves(p, f, "lock l", f, "canqlock k")
    BY <1>a, <1>g, GotoOK
  <2>2. QED
    BY <2>1 DEF Moves
<1> USE DEF IndInv, LockL, xvars, kvars
<1>q. ListsOK' /\ xq' = xq /\ kq' = kq
  BY ListsSame
<1>1. givenX' = givenX
  BY <1>h, <1>q DEF givenX
<1>2. givenK' = givenK
  BY <1>h, <1>q DEF givenK
<1>3. hasX' = hasX
  BY <1>h, <1>q, <1>1, <1>2 DEF hasX, HasX, LeaveK
<1>4. hasK' = hasK
  BY <1>h, <1>q, <1>1, <1>2 DEF hasK, HasK
<1>5. counts' = counts \cup {p} /\ p \notin counts
  BY <1>h, <1>q, <1>1, <1>2 DEF counts, Counts
<1>6. leaving' = leaving
  BY <1>h, <1>q, <1>1, <1>2 DEF leaving, Leaving
<1>7. shares' = shares
  BY <1>h, <1>q, <1>1, <1>2 DEF shares, Shares, Counts, Leaving
<1>8. PlacesOK'
  BY ZenonT(60), <1>h, <1>q DEF PlacesOK, Door, Enter, LeaveK, LeaveX
<1>9. TypesOK'
  BY <1>h, <1>q DEF TypesOK
<1>10. BooleansOK'
  BY <1>h, <1>q DEF BooleansOK
<1>11. SpinsExact'
  BY <1>h, <1>q, NoProcAssumption DEF SpinsExact, AtXUse, AtKUse, AtL, LeaveK,
    PlacesOK, Door, Enter, LeaveX, TypesOK
<1>12. QueuesOK'
  BY <1>h, <1>q DEF QueuesOK
<1>13. HandsReady'
  BY <1>h, <1>q DEF HandsReady
<1>14. HandsGiven'
  BY <1>1, <1>2 DEF HandsGiven
<1>15. HandsApart'
  BY <1>1, <1>2 DEF HandsApart
<1>16. PostsOK'
  BY <1>1, <1>2 DEF PostsOK
<1>17. OneHasX'
  BY <1>3 DEF OneHasX
<1>18. XExact'
  BY <1>3 DEF XExact
<1>19. CountOK'
  <2>1. IsFiniteSet(counts)
    BY ProcsAssumption, FS_Subset DEF counts
  <2>2. QED
    BY <1>5, <2>1, FS_AddElement DEF CountOK
<1>20. KExact'
  BY <1>4, <1>5, <1>6, <1>7 DEF KExact
<1>21. WritersApart'
  BY <1>4, <1>5, <1>6, <1>7 DEF WritersApart
<1>22. LastOut'
  BY ZenonT(60), <1>h, <1>q, NoProcAssumption, <1>4, <1>5, <1>6, <1>7 DEF KExact,
    WritersApart, LastOut, SpinsExact, AtXUse, AtKUse, AtL, LeaveK, leaving,
    Leaving, TypesOK
<1>23. QED
  BY <1>h, <1>q, <1>1, <1>2, <1>3, <1>4, <1>5, <1>6, <1>7, <1>8,
    <1>9, <1>10, <1>11, <1>12, <1>13, <1>14, <1>15, <1>16, <1>17, <1>18,
    <1>19, <1>20, <1>21, <1>22

(* canqlock(&l->k) finds q->use free: p has x and is inside l. *)
LEMMA CanLockUseOK ==
  ASSUME IndInv, NEW p \in Procs, NEW f \in {"rlock", "canrlock"},
    K!CanLockUse(p, At(f, "canqlock k"), At(f, "k can"), At(f, "unlock l")),
    UNCHANGED <<xvars, l, readers>>
  PROVE  IndInv'
<1>a. f \in Ops /\ "canqlock k" \in Stmts /\ "k can" \in Stmts
  BY DEF Ops, Stmts, Door, Enter, LeaveK
<1>k. kuse = NoProc
  <2>1. pc[p] = At(f, "canqlock k")
    BY DEF K!CanLockUse, K!Goto
  <2>2. oper[p] = f /\ stmt[p] = "canqlock k"
    BY <2>1, PlaceOf
  <2>3. QED
    BY <2>2, NoProcAssumption DEF IndInv, SpinsExact, AtKUse, AtL, OneHasX, hasX, HasX, LeaveK, PlacesOK, Door, Enter, LeaveX, TypesOK
<1>g. PcOK /\ X!Goto(p, At(f, "canqlock k"), At(f, "k can"))
  BY <1>k DEF IndInv, K!CanLockUse, X!Goto, K!Goto
<1>h. /\ oper \in [Procs -> Ops] /\ stmt \in [Procs -> Stmts]
      /\ oper[p] = f /\ stmt[p] = "canqlock k" /\ PcOK'
      /\ oper' = [oper EXCEPT ![p] = f] /\ stmt' = [stmt EXCEPT ![p] = "k can"]
  <2>1. Moves(p, f, "canqlock k", f, "k can")
    BY <1>a, <1>g, GotoOK
  <2>2. QED
    BY <2>1 DEF Moves
<1> USE DEF IndInv, K!CanLockUse, xvars
<1>q. ListsOK' /\ xq' = xq /\ kq' = kq
  BY ListsSame, <1>k
<1>1. givenX' = givenX
  BY <1>h, <1>q DEF givenX
<1>2. givenK' = givenK
  BY <1>h, <1>q DEF givenK
<1>3. hasX' = hasX
  BY <1>h, <1>q, <1>1, <1>2 DEF hasX, HasX, LeaveK
<1>4. hasK' = hasK
  BY <1>h, <1>q, <1>1, <1>2 DEF hasK, HasK
<1>5. counts' = counts
  BY <1>h, <1>q, <1>1, <1>2 DEF counts, Counts
<1>6. leaving' = leaving
  BY <1>h, <1>q, <1>1, <1>2 DEF leaving, Leaving
<1>7. shares' = shares
  BY <1>h, <1>q, <1>1, <1>2 DEF shares, Shares, Counts, Leaving
<1>8. PlacesOK'
  BY ZenonT(60), <1>h, <1>q DEF PlacesOK, Door, Enter, LeaveK, LeaveX
<1>9. TypesOK'
  BY <1>h, <1>q, <1>k DEF TypesOK
<1>10. BooleansOK'
  BY <1>h, <1>q DEF BooleansOK
<1>11. SpinsExact'
  BY <1>h, <1>q, NoProcAssumption, <1>1, <1>2, <1>k DEF SpinsExact, AtXUse,
    AtKUse, AtL, LeaveK, PlacesOK, Door, Enter, LeaveX, TypesOK
<1>12. QueuesOK'
  BY <1>h, <1>q DEF QueuesOK
<1>13. HandsReady'
  BY <1>h, <1>q DEF HandsReady
<1>14. HandsGiven'
  BY <1>1, <1>2 DEF HandsGiven
<1>15. HandsApart'
  BY <1>1, <1>2 DEF HandsApart
<1>16. PostsOK'
  BY <1>1, <1>2 DEF PostsOK
<1>17. OneHasX'
  BY <1>3 DEF OneHasX
<1>18. XExact'
  BY <1>3 DEF XExact
<1>19. CountOK'
  BY <1>5 DEF CountOK
<1>20. KExact'
  BY <1>4, <1>5, <1>6, <1>7 DEF KExact
<1>21. WritersApart'
  BY <1>4, <1>5, <1>6, <1>7 DEF WritersApart
<1>22. LastOut'
  BY <1>4, <1>5, <1>6, <1>7 DEF LastOut
<1>23. QED
  BY <1>h, <1>q, <1>1, <1>2, <1>3, <1>4, <1>5, <1>6, <1>7, <1>8,
    <1>9, <1>10, <1>11, <1>12, <1>13, <1>14, <1>15, <1>16, <1>17, <1>18,
    <1>19, <1>20, <1>21, <1>22

(* canqlock(&l->k): k was free, or other readers have it; no writer has it, as p has x. *)
LEMMA CanTakeOK ==
  ASSUME IndInv, NEW p \in Procs, NEW f \in {"rlock", "canrlock"},
    K!TakeOrFail(p, At(f, "k can"), At(f, "unlock l"), At(f, "unlock l")),
    UNCHANGED <<xvars, l, readers>>
  PROVE  IndInv'
<1>a. f \in Ops /\ "k can" \in Stmts /\ "unlock l" \in Stmts
  BY DEF Ops, Stmts, Door, Enter, LeaveK
<1>g. PcOK /\ X!Goto(p, At(f, "k can"), At(f, "unlock l"))
  BY DEF IndInv, K!TakeOrFail, X!Goto, K!Goto
<1>h. /\ oper \in [Procs -> Ops] /\ stmt \in [Procs -> Stmts]
      /\ oper[p] = f /\ stmt[p] = "k can" /\ PcOK'
      /\ oper' = [oper EXCEPT ![p] = f] /\ stmt' = [stmt EXCEPT ![p] = "unlock l"]
  <2>1. Moves(p, f, "k can", f, "unlock l")
    BY <1>a, <1>g, GotoOK
  <2>2. QED
    BY <2>1 DEF Moves
<1> USE DEF IndInv, K!TakeOrFail, xvars
<1>q. ListsOK' /\ xq' = xq /\ kq' = kq
  BY ListsSame
<1>1. givenX' = givenX
  BY <1>h, <1>q DEF givenX
<1>2. givenK' = givenK
  BY <1>h, <1>q DEF givenK
<1>3. hasX' = hasX
  BY <1>h, <1>q, <1>1, <1>2 DEF hasX, HasX, LeaveK
<1>4. hasK' = hasK
  BY <1>h, <1>q, <1>1, <1>2 DEF hasK, HasK
<1>5. counts' = counts
  BY <1>h, <1>q, <1>1, <1>2 DEF counts, Counts
<1>6. leaving' = leaving
  BY <1>h, <1>q, <1>1, <1>2 DEF leaving, Leaving
<1>7. shares' = shares \cup {p}
  BY <1>h, <1>q, <1>1, <1>2 DEF shares, Shares, Counts, Leaving
<1>8. PlacesOK'
  BY ZenonT(60), <1>h, <1>q DEF PlacesOK, Door, Enter, LeaveK, LeaveX
<1>9. TypesOK'
  BY <1>h, <1>q DEF TypesOK
<1>10. BooleansOK'
  BY <1>h, <1>q DEF BooleansOK
<1>11. SpinsExact'
  BY <1>h, <1>q, NoProcAssumption DEF SpinsExact, AtXUse, AtKUse, AtL, LeaveK,
    PlacesOK, Door, Enter, LeaveX, TypesOK
<1>12. QueuesOK'
  BY <1>h, <1>q DEF QueuesOK
<1>13. HandsReady'
  BY <1>h, <1>q DEF HandsReady
<1>14. HandsGiven'
  BY <1>1, <1>2 DEF HandsGiven
<1>15. HandsApart'
  BY <1>1, <1>2 DEF HandsApart
<1>16. PostsOK'
  BY <1>1, <1>2 DEF PostsOK
<1>17. OneHasX'
  BY <1>3 DEF OneHasX
<1>18. XExact'
  BY <1>3 DEF XExact
<1>19. CountOK'
  BY <1>5 DEF CountOK
<1>20. KExact'
  BY <1>4, <1>5, <1>6, <1>7 DEF KExact
<1>21. WritersApart'
  <2>1. p \in hasX /\ p \notin hasK
    BY <1>h DEF hasX, HasX, hasK, HasK, givenK
  <2>2. hasK = {}
    BY <2>1, KOwnersHaveX DEF OneHasX
  <2>3. QED
    BY <1>4, <2>2 DEF WritersApart
<1>22. LastOut'
  BY <1>4, <1>5, <1>6, <1>7 DEF LastOut
<1>23. QED
  BY <1>h, <1>q, <1>1, <1>2, <1>3, <1>4, <1>5, <1>6, <1>7, <1>8,
    <1>9, <1>10, <1>11, <1>12, <1>13, <1>14, <1>15, <1>16, <1>17, <1>18,
    <1>19, <1>20, <1>21, <1>22

(* unlock(&l->l) of a reader. *)
LEMMA EnterUnlockLOK ==
  ASSUME IndInv, NEW p \in Procs, NEW f \in {"rlock", "canrlock"}, UnlockL(p,
    At(f, "unlock l"), At(f, "qunlock x"))
  PROVE  IndInv'
<1>a. f \in Ops /\ "unlock l" \in Stmts /\ "qunlock x" \in Stmts
  BY DEF Ops, Stmts, Door, Enter, LeaveK
<1>g. PcOK /\ X!Goto(p, At(f, "unlock l"), At(f, "qunlock x"))
  BY DEF IndInv, UnlockL
<1>h. /\ oper \in [Procs -> Ops] /\ stmt \in [Procs -> Stmts]
      /\ oper[p] = f /\ stmt[p] = "unlock l" /\ PcOK'
      /\ oper' = [oper EXCEPT ![p] = f] /\ stmt' = [stmt EXCEPT ![p] = "qunlock x"]
  <2>1. Moves(p, f, "unlock l", f, "qunlock x")
    BY <1>a, <1>g, GotoOK
  <2>2. QED
    BY <2>1 DEF Moves
<1> USE DEF IndInv, UnlockL, xvars, kvars
<1>q. ListsOK' /\ xq' = xq /\ kq' = kq
  BY ListsSame
<1>1. givenX' = givenX
  BY <1>h, <1>q DEF givenX
<1>2. givenK' = givenK
  BY <1>h, <1>q DEF givenK
<1>3. hasX' = hasX
  BY <1>h, <1>q, <1>1, <1>2 DEF hasX, HasX, LeaveK
<1>4. hasK' = hasK
  BY <1>h, <1>q, <1>1, <1>2 DEF hasK, HasK
<1>5. counts' = counts
  BY <1>h, <1>q, <1>1, <1>2 DEF counts, Counts
<1>6. leaving' = leaving
  BY <1>h, <1>q, <1>1, <1>2 DEF leaving, Leaving
<1>7. shares' = shares
  BY <1>h, <1>q, <1>1, <1>2 DEF shares, Shares, Counts, Leaving
<1>8. PlacesOK'
  BY ZenonT(60), <1>h, <1>q DEF PlacesOK, Door, Enter, LeaveK, LeaveX
<1>9. TypesOK'
  BY <1>h, <1>q DEF TypesOK
<1>10. BooleansOK'
  BY <1>h, <1>q DEF BooleansOK
<1>11. SpinsExact'
  BY ZenonT(60), <1>h, <1>q, NoProcAssumption DEF SpinsExact, AtXUse, AtKUse, AtL, LeaveK,
    PlacesOK, Door, Enter, LeaveX, TypesOK
<1>12. QueuesOK'
  BY <1>h, <1>q DEF QueuesOK
<1>13. HandsReady'
  BY <1>h, <1>q DEF HandsReady
<1>14. HandsGiven'
  BY <1>1, <1>2 DEF HandsGiven
<1>15. HandsApart'
  BY <1>1, <1>2 DEF HandsApart
<1>16. PostsOK'
  BY <1>1, <1>2 DEF PostsOK
<1>17. OneHasX'
  BY <1>3 DEF OneHasX
<1>18. XExact'
  BY <1>3 DEF XExact
<1>19. CountOK'
  BY <1>5 DEF CountOK
<1>20. KExact'
  BY <1>4, <1>5, <1>6, <1>7 DEF KExact
<1>21. WritersApart'
  BY <1>4, <1>5, <1>6, <1>7 DEF WritersApart
<1>22. LastOut'
  BY <1>4, <1>5, <1>6, <1>7 DEF LastOut
<1>23. QED
  BY <1>h, <1>q, <1>1, <1>2, <1>3, <1>4, <1>5, <1>6, <1>7, <1>8,
    <1>9, <1>10, <1>11, <1>12, <1>13, <1>14, <1>15, <1>16, <1>17, <1>18,
    <1>19, <1>20, <1>21, <1>22

(* canqlock(&l->x) of canrlock, as canlock(&q->use) succeeds or fails. *)
LEMMA DoorLockUseOK ==
  ASSUME IndInv, NEW p \in Procs, xuse = NoProc, X!CanLockUse(p,
    At("canrlock", "canqlock x"), At("canrlock", "x can"), Out),
    UNCHANGED <<kvars, l, readers>>
  PROVE  IndInv'
<1>a. "canrlock" \in Ops /\ "canqlock x" \in Stmts /\ "x can" \in Stmts
  BY DEF Ops, Stmts, Door, Enter, LeaveK
<1>g. PcOK /\ X!Goto(p, At("canrlock", "canqlock x"), At("canrlock", "x can"))
  BY DEF IndInv, X!CanLockUse, Out
<1>h. /\ oper \in [Procs -> Ops] /\ stmt \in [Procs -> Stmts]
      /\ oper[p] = "canrlock" /\ stmt[p] = "canqlock x" /\ PcOK'
      /\ oper' = [oper EXCEPT ![p] = "canrlock"] /\ stmt' = [stmt EXCEPT ![p] = "x can"]
  <2>1. Moves(p, "canrlock", "canqlock x", "canrlock", "x can")
    BY <1>a, <1>g, GotoOK
  <2>2. QED
    BY <2>1 DEF Moves
<1> USE DEF IndInv, X!CanLockUse, kvars, Out
<1>q. ListsOK' /\ xq' = xq /\ kq' = kq
  BY ListsSame
<1>1. givenX' = givenX
  BY <1>h, <1>q DEF givenX
<1>2. givenK' = givenK
  BY <1>h, <1>q DEF givenK
<1>3. hasX' = hasX
  BY <1>h, <1>q, <1>1, <1>2 DEF hasX, HasX, LeaveK
<1>4. hasK' = hasK
  BY <1>h, <1>q, <1>1, <1>2 DEF hasK, HasK
<1>5. counts' = counts
  BY <1>h, <1>q, <1>1, <1>2 DEF counts, Counts
<1>6. leaving' = leaving
  BY <1>h, <1>q, <1>1, <1>2 DEF leaving, Leaving
<1>7. shares' = shares
  BY <1>h, <1>q, <1>1, <1>2 DEF shares, Shares, Counts, Leaving
<1>8. PlacesOK'
  BY ZenonT(60), <1>h, <1>q DEF PlacesOK, Door, Enter, LeaveK, LeaveX
<1>9. TypesOK'
  BY <1>h, <1>q DEF TypesOK
<1>10. BooleansOK'
  BY <1>h, <1>q DEF BooleansOK
<1>11. SpinsExact'
  BY <1>h, <1>q, NoProcAssumption DEF SpinsExact, AtXUse, AtKUse, AtL, LeaveK,
    PlacesOK, Door, Enter, LeaveX, TypesOK
<1>12. QueuesOK'
  BY <1>h, <1>q DEF QueuesOK
<1>13. HandsReady'
  BY <1>h, <1>q DEF HandsReady
<1>14. HandsGiven'
  BY <1>1, <1>2 DEF HandsGiven
<1>15. HandsApart'
  BY <1>1, <1>2 DEF HandsApart
<1>16. PostsOK'
  BY <1>1, <1>2 DEF PostsOK
<1>17. OneHasX'
  BY <1>3 DEF OneHasX
<1>18. XExact'
  BY <1>3 DEF XExact
<1>19. CountOK'
  BY <1>5 DEF CountOK
<1>20. KExact'
  BY <1>4, <1>5, <1>6, <1>7 DEF KExact
<1>21. WritersApart'
  BY <1>4, <1>5, <1>6, <1>7 DEF WritersApart
<1>22. LastOut'
  BY <1>4, <1>5, <1>6, <1>7 DEF LastOut
<1>23. QED
  BY <1>h, <1>q, <1>1, <1>2, <1>3, <1>4, <1>5, <1>6, <1>7, <1>8,
    <1>9, <1>10, <1>11, <1>12, <1>13, <1>14, <1>15, <1>16, <1>17, <1>18,
    <1>19, <1>20, <1>21, <1>22

LEMMA DoorBusyOK ==
  ASSUME IndInv, NEW p \in Procs, xuse # NoProc, X!CanLockUse(p,
    At("canrlock", "canqlock x"), At("canrlock", "x can"), Out),
    UNCHANGED <<kvars, l, readers>>
  PROVE  IndInv'
<1>a. "canrlock" \in Ops /\ "none" \in Ops /\ "canqlock x" \in Stmts /\ "out" \in Stmts
  BY DEF Ops, Stmts, Door, Enter, LeaveK
<1>g. PcOK /\ X!Goto(p, At("canrlock", "canqlock x"), At("none", "out"))
  BY DEF IndInv, X!CanLockUse, Out
<1>h. /\ oper \in [Procs -> Ops] /\ stmt \in [Procs -> Stmts]
      /\ oper[p] = "canrlock" /\ stmt[p] = "canqlock x" /\ PcOK'
      /\ oper' = [oper EXCEPT ![p] = "none"] /\ stmt' = [stmt EXCEPT ![p] = "out"]
  <2>1. Moves(p, "canrlock", "canqlock x", "none", "out")
    BY <1>a, <1>g, GotoOK
  <2>2. QED
    BY <2>1 DEF Moves
<1> USE DEF IndInv, X!CanLockUse, kvars, Out
<1>q. ListsOK' /\ xq' = xq /\ kq' = kq
  BY ListsSame
<1>1. givenX' = givenX
  BY <1>h, <1>q DEF givenX
<1>2. givenK' = givenK
  BY <1>h, <1>q DEF givenK
<1>3. hasX' = hasX
  BY <1>h, <1>q, <1>1, <1>2 DEF hasX, HasX, LeaveK
<1>4. hasK' = hasK
  BY <1>h, <1>q, <1>1, <1>2 DEF hasK, HasK
<1>5. counts' = counts
  BY <1>h, <1>q, <1>1, <1>2 DEF counts, Counts
<1>6. leaving' = leaving
  BY <1>h, <1>q, <1>1, <1>2 DEF leaving, Leaving
<1>7. shares' = shares
  BY <1>h, <1>q, <1>1, <1>2 DEF shares, Shares, Counts, Leaving
<1>8. PlacesOK'
  BY ZenonT(60), <1>h, <1>q DEF PlacesOK, Door, Enter, LeaveK, LeaveX
<1>9. TypesOK'
  BY <1>h, <1>q DEF TypesOK
<1>10. BooleansOK'
  BY <1>h, <1>q DEF BooleansOK
<1>11. SpinsExact'
  BY <1>h, <1>q DEF SpinsExact, AtXUse, AtKUse, AtL, LeaveK
<1>12. QueuesOK'
  BY <1>h, <1>q DEF QueuesOK
<1>13. HandsReady'
  BY <1>h, <1>q DEF HandsReady
<1>14. HandsGiven'
  BY <1>1, <1>2 DEF HandsGiven
<1>15. HandsApart'
  BY <1>1, <1>2 DEF HandsApart
<1>16. PostsOK'
  BY <1>1, <1>2 DEF PostsOK
<1>17. OneHasX'
  BY <1>3 DEF OneHasX
<1>18. XExact'
  BY <1>3 DEF XExact
<1>19. CountOK'
  BY <1>5 DEF CountOK
<1>20. KExact'
  BY <1>4, <1>5, <1>6, <1>7 DEF KExact
<1>21. WritersApart'
  BY <1>4, <1>5, <1>6, <1>7 DEF WritersApart
<1>22. LastOut'
  BY <1>4, <1>5, <1>6, <1>7 DEF LastOut
<1>23. QED
  BY <1>h, <1>q, <1>1, <1>2, <1>3, <1>4, <1>5, <1>6, <1>7, <1>8,
    <1>9, <1>10, <1>11, <1>12, <1>13, <1>14, <1>15, <1>16, <1>17, <1>18,
    <1>19, <1>20, <1>21, <1>22

(* canqlock(&l->x) of canrlock, as x is free or not. *)
LEMMA DoorTakeOK ==
  ASSUME IndInv, NEW p \in Procs, ~xlocked, X!TakeOrFail(p, At("canrlock",
    "x can"), At("canrlock", "lock l"), Out), UNCHANGED <<kvars, l, readers>>
  PROVE  IndInv'
<1>a. "canrlock" \in Ops /\ "x can" \in Stmts /\ "lock l" \in Stmts
  BY DEF Ops, Stmts, Door, Enter, LeaveK
<1>g. PcOK /\ X!Goto(p, At("canrlock", "x can"), At("canrlock", "lock l"))
  BY DEF IndInv, X!TakeOrFail, Out
<1>h. /\ oper \in [Procs -> Ops] /\ stmt \in [Procs -> Stmts]
      /\ oper[p] = "canrlock" /\ stmt[p] = "x can" /\ PcOK'
      /\ oper' = [oper EXCEPT ![p] = "canrlock"] /\ stmt' = [stmt EXCEPT ![p] = "lock l"]
  <2>1. Moves(p, "canrlock", "x can", "canrlock", "lock l")
    BY <1>a, <1>g, GotoOK
  <2>2. QED
    BY <2>1 DEF Moves
<1> USE DEF IndInv, X!TakeOrFail, kvars, Out
<1>q. ListsOK' /\ xq' = xq /\ kq' = kq
  BY ListsSame
<1>1. givenX' = givenX
  BY <1>h, <1>q DEF givenX
<1>2. givenK' = givenK
  BY <1>h, <1>q DEF givenK
<1>3. hasX' = hasX \cup {p}
  BY <1>h, <1>q, <1>1, <1>2 DEF hasX, HasX, LeaveK
<1>4. hasK' = hasK
  BY <1>h, <1>q, <1>1, <1>2 DEF hasK, HasK
<1>5. counts' = counts
  BY <1>h, <1>q, <1>1, <1>2 DEF counts, Counts
<1>6. leaving' = leaving
  BY <1>h, <1>q, <1>1, <1>2 DEF leaving, Leaving
<1>7. shares' = shares
  BY <1>h, <1>q, <1>1, <1>2 DEF shares, Shares, Counts, Leaving
<1>8. PlacesOK'
  BY ZenonT(60), <1>h, <1>q DEF PlacesOK, Door, Enter, LeaveK, LeaveX
<1>9. TypesOK'
  BY <1>h, <1>q DEF TypesOK
<1>10. BooleansOK'
  BY <1>h, <1>q DEF BooleansOK
<1>11. SpinsExact'
  BY <1>h, <1>q, NoProcAssumption DEF SpinsExact, AtXUse, AtKUse, AtL, LeaveK,
    PlacesOK, Door, Enter, LeaveX, TypesOK
<1>12. QueuesOK'
  BY <1>h, <1>q DEF QueuesOK
<1>13. HandsReady'
  BY <1>h, <1>q DEF HandsReady
<1>14. HandsGiven'
  BY <1>1, <1>2 DEF HandsGiven
<1>15. HandsApart'
  BY <1>1, <1>2 DEF HandsApart
<1>16. PostsOK'
  BY <1>1, <1>2 DEF PostsOK
<1>17. OneHasX'
  BY <1>3 DEF OneHasX, XExact
<1>18. XExact'
  BY <1>3 DEF XExact
<1>19. CountOK'
  BY <1>5 DEF CountOK
<1>20. KExact'
  BY <1>4, <1>5, <1>6, <1>7 DEF KExact
<1>21. WritersApart'
  BY <1>4, <1>5, <1>6, <1>7 DEF WritersApart
<1>22. LastOut'
  BY <1>4, <1>5, <1>6, <1>7 DEF LastOut
<1>23. QED
  BY <1>h, <1>q, <1>1, <1>2, <1>3, <1>4, <1>5, <1>6, <1>7, <1>8,
    <1>9, <1>10, <1>11, <1>12, <1>13, <1>14, <1>15, <1>16, <1>17, <1>18,
    <1>19, <1>20, <1>21, <1>22

LEMMA DoorFailOK ==
  ASSUME IndInv, NEW p \in Procs, xlocked, X!TakeOrFail(p, At("canrlock",
    "x can"), At("canrlock", "lock l"), Out), UNCHANGED <<kvars, l, readers>>
  PROVE  IndInv'
<1>a. "canrlock" \in Ops /\ "none" \in Ops /\ "x can" \in Stmts /\ "out" \in Stmts
  BY DEF Ops, Stmts, Door, Enter, LeaveK
<1>g. PcOK /\ X!Goto(p, At("canrlock", "x can"), At("none", "out"))
  BY DEF IndInv, X!TakeOrFail, Out
<1>h. /\ oper \in [Procs -> Ops] /\ stmt \in [Procs -> Stmts]
      /\ oper[p] = "canrlock" /\ stmt[p] = "x can" /\ PcOK'
      /\ oper' = [oper EXCEPT ![p] = "none"] /\ stmt' = [stmt EXCEPT ![p] = "out"]
  <2>1. Moves(p, "canrlock", "x can", "none", "out")
    BY <1>a, <1>g, GotoOK
  <2>2. QED
    BY <2>1 DEF Moves
<1> USE DEF IndInv, X!TakeOrFail, kvars, Out
<1>q. ListsOK' /\ xq' = xq /\ kq' = kq
  BY ListsSame
<1>1. givenX' = givenX
  BY <1>h, <1>q DEF givenX
<1>2. givenK' = givenK
  BY <1>h, <1>q DEF givenK
<1>3. hasX' = hasX
  BY <1>h, <1>q, <1>1, <1>2 DEF hasX, HasX, LeaveK
<1>4. hasK' = hasK
  BY <1>h, <1>q, <1>1, <1>2 DEF hasK, HasK
<1>5. counts' = counts
  BY <1>h, <1>q, <1>1, <1>2 DEF counts, Counts
<1>6. leaving' = leaving
  BY <1>h, <1>q, <1>1, <1>2 DEF leaving, Leaving
<1>7. shares' = shares
  BY <1>h, <1>q, <1>1, <1>2 DEF shares, Shares, Counts, Leaving
<1>8. PlacesOK'
  BY ZenonT(60), <1>h, <1>q DEF PlacesOK, Door, Enter, LeaveK, LeaveX
<1>9. TypesOK'
  BY <1>h, <1>q DEF TypesOK
<1>10. BooleansOK'
  BY <1>h, <1>q DEF BooleansOK
<1>11. SpinsExact'
  BY <1>h, <1>q, NoProcAssumption DEF SpinsExact, AtXUse, AtKUse, AtL, LeaveK,
    PlacesOK, Door, Enter, LeaveX, TypesOK
<1>12. QueuesOK'
  BY <1>h, <1>q DEF QueuesOK
<1>13. HandsReady'
  BY <1>h, <1>q DEF HandsReady
<1>14. HandsGiven'
  BY <1>1, <1>2 DEF HandsGiven
<1>15. HandsApart'
  BY <1>1, <1>2 DEF HandsApart
<1>16. PostsOK'
  BY <1>1, <1>2 DEF PostsOK
<1>17. OneHasX'
  BY <1>3 DEF OneHasX
<1>18. XExact'
  BY <1>3 DEF XExact
<1>19. CountOK'
  BY <1>5 DEF CountOK
<1>20. KExact'
  BY <1>4, <1>5, <1>6, <1>7 DEF KExact
<1>21. WritersApart'
  BY <1>4, <1>5, <1>6, <1>7 DEF WritersApart
<1>22. LastOut'
  BY <1>4, <1>5, <1>6, <1>7 DEF LastOut
<1>23. QED
  BY <1>h, <1>q, <1>1, <1>2, <1>3, <1>4, <1>5, <1>6, <1>7, <1>8,
    <1>9, <1>10, <1>11, <1>12, <1>13, <1>14, <1>15, <1>16, <1>17, <1>18,
    <1>19, <1>20, <1>21, <1>22

(* The last reader counts itself out: nobody is counted any more. *)
LEMMA LeaveLastOK ==
  ASSUME IndInv, NEW p \in Procs, readers - 1 = 0, LockL(p, At("runlock",
    "lock l"), At("runlock", "qunlock k"), readers - 1)
  PROVE  IndInv'
<1>a. "runlock" \in Ops /\ "lock l" \in Stmts /\ "qunlock k" \in Stmts
  BY DEF Ops, Stmts, Door, Enter, LeaveK
<1>g. PcOK /\ X!Goto(p, At("runlock", "lock l"), At("runlock", "qunlock k"))
  BY DEF IndInv, LockL
<1>h. /\ oper \in [Procs -> Ops] /\ stmt \in [Procs -> Stmts]
      /\ oper[p] = "runlock" /\ stmt[p] = "lock l" /\ PcOK'
      /\ oper' = [oper EXCEPT ![p] = "runlock"] /\ stmt' = [stmt EXCEPT ![p] = "qunlock k"]
  <2>1. Moves(p, "runlock", "lock l", "runlock", "qunlock k")
    BY <1>a, <1>g, GotoOK
  <2>2. QED
    BY <2>1 DEF Moves
<1> USE DEF IndInv, LockL, xvars, kvars
<1>q. ListsOK' /\ xq' = xq /\ kq' = kq
  BY ListsSame
<1>1. givenX' = givenX
  BY <1>h, <1>q DEF givenX
<1>2. givenK' = givenK
  BY <1>h, <1>q DEF givenK
<1>3. hasX' = hasX
  BY <1>h, <1>q, <1>1, <1>2 DEF hasX, HasX, LeaveK
<1>4. hasK' = hasK
  BY <1>h, <1>q, <1>1, <1>2 DEF hasK, HasK
<1>5. counts' = counts \ {p} /\ p \in counts
  BY <1>h, <1>q, <1>1, <1>2 DEF counts, Counts
<1>6. leaving' = leaving \cup {p}
  BY <1>h, <1>q, <1>1, <1>2 DEF leaving, Leaving
<1>7. shares' = shares
  BY <1>h, <1>q, <1>1, <1>2 DEF shares, Shares, Counts, Leaving
<1>8. PlacesOK'
  BY ZenonT(60), <1>h, <1>q DEF PlacesOK, Door, Enter, LeaveK, LeaveX
<1>9. TypesOK'
  BY <1>h, <1>q DEF TypesOK
<1>10. BooleansOK'
  BY <1>h, <1>q DEF BooleansOK
<1>11. SpinsExact'
  BY <1>h, <1>q, NoProcAssumption DEF SpinsExact, AtXUse, AtKUse, AtL, LeaveK,
    PlacesOK, Door, Enter, LeaveX, TypesOK
<1>12. QueuesOK'
  BY <1>h, <1>q DEF QueuesOK
<1>13. HandsReady'
  BY <1>h, <1>q DEF HandsReady
<1>14. HandsGiven'
  BY <1>1, <1>2 DEF HandsGiven
<1>15. HandsApart'
  BY <1>1, <1>2 DEF HandsApart
<1>16. PostsOK'
  BY <1>1, <1>2 DEF PostsOK
<1>17. OneHasX'
  BY <1>3 DEF OneHasX
<1>18. XExact'
  BY <1>3 DEF XExact
<1>19. CountOK'
  <2>1. IsFiniteSet(counts)
    BY ProcsAssumption, FS_Subset DEF counts
  <2>2. QED
    BY <1>5, <2>1, FS_RemoveElement DEF CountOK
<1>20. KExact'
  BY <1>4, <1>5, <1>6, <1>7 DEF KExact
<1>21. WritersApart'
  BY <1>4, <1>5, <1>6, <1>7 DEF WritersApart
<1>22. LastOut'
  <2>1. IsFiniteSet(counts)
    BY ProcsAssumption, FS_Subset DEF counts
  <2>2. Cardinality(counts') = 0 /\ IsFiniteSet(counts')
    BY <1>5, <2>1, FS_RemoveElement DEF CountOK
  <2>3. counts' = {}
    BY <2>2, FS_EmptySet
  <2>4. QED
    BY <2>3 DEF LastOut
<1>23. QED
  BY <1>h, <1>q, <1>1, <1>2, <1>3, <1>4, <1>5, <1>6, <1>7, <1>8,
    <1>9, <1>10, <1>11, <1>12, <1>13, <1>14, <1>15, <1>16, <1>17, <1>18,
    <1>19, <1>20, <1>21, <1>22

(* A reader that is not the last counts itself out: another one still shares k. *)
LEMMA LeaveLOK ==
  ASSUME IndInv, NEW p \in Procs, readers - 1 # 0, LockL(p, At("runlock",
    "lock l"), At("runlock", "unlock l"), readers - 1)
  PROVE  IndInv'
<1>a. "runlock" \in Ops /\ "lock l" \in Stmts /\ "unlock l" \in Stmts
  BY DEF Ops, Stmts, Door, Enter, LeaveK
<1>g. PcOK /\ X!Goto(p, At("runlock", "lock l"), At("runlock", "unlock l"))
  BY DEF IndInv, LockL
<1>h. /\ oper \in [Procs -> Ops] /\ stmt \in [Procs -> Stmts]
      /\ oper[p] = "runlock" /\ stmt[p] = "lock l" /\ PcOK'
      /\ oper' = [oper EXCEPT ![p] = "runlock"] /\ stmt' = [stmt EXCEPT ![p] = "unlock l"]
  <2>1. Moves(p, "runlock", "lock l", "runlock", "unlock l")
    BY <1>a, <1>g, GotoOK
  <2>2. QED
    BY <2>1 DEF Moves
<1> USE DEF IndInv, LockL, xvars, kvars
<1>q. ListsOK' /\ xq' = xq /\ kq' = kq
  BY ListsSame
<1>1. givenX' = givenX
  BY <1>h, <1>q DEF givenX
<1>2. givenK' = givenK
  BY <1>h, <1>q DEF givenK
<1>3. hasX' = hasX
  BY <1>h, <1>q, <1>1, <1>2 DEF hasX, HasX, LeaveK
<1>4. hasK' = hasK
  BY <1>h, <1>q, <1>1, <1>2 DEF hasK, HasK
<1>5. counts' = counts \ {p} /\ p \in counts
  BY <1>h, <1>q, <1>1, <1>2 DEF counts, Counts
<1>6. leaving' = leaving
  BY <1>h, <1>q, <1>1, <1>2 DEF leaving, Leaving
<1>7. shares' = shares \ {p}
  BY <1>h, <1>q, <1>1, <1>2 DEF shares, Shares, Counts, Leaving
<1>8. PlacesOK'
  BY ZenonT(60), <1>h, <1>q DEF PlacesOK, Door, Enter, LeaveK, LeaveX
<1>9. TypesOK'
  BY <1>h, <1>q DEF TypesOK
<1>10. BooleansOK'
  BY <1>h, <1>q DEF BooleansOK
<1>11. SpinsExact'
  BY <1>h, <1>q, NoProcAssumption DEF SpinsExact, AtXUse, AtKUse, AtL, LeaveK,
    PlacesOK, Door, Enter, LeaveX, TypesOK
<1>12. QueuesOK'
  BY <1>h, <1>q DEF QueuesOK
<1>13. HandsReady'
  BY <1>h, <1>q DEF HandsReady
<1>14. HandsGiven'
  BY <1>1, <1>2 DEF HandsGiven
<1>15. HandsApart'
  BY <1>1, <1>2 DEF HandsApart
<1>16. PostsOK'
  BY <1>1, <1>2 DEF PostsOK
<1>17. OneHasX'
  BY <1>3 DEF OneHasX
<1>18. XExact'
  BY <1>3 DEF XExact
<1>19. CountOK'
  <2>1. IsFiniteSet(counts)
    BY ProcsAssumption, FS_Subset DEF counts
  <2>2. QED
    BY <1>5, <2>1, FS_RemoveElement DEF CountOK
<1>20. KExact'
  <2>1. IsFiniteSet(counts)
    BY ProcsAssumption, FS_Subset DEF counts
  <2>2. counts' # {}
    <3>1. IsFiniteSet(counts') /\ Cardinality(counts') # 0
      BY <1>5, <2>1, FS_RemoveElement DEF CountOK
    <3>2. QED
      BY <3>1, FS_EmptySet
  <2>3. PICK q \in counts : q # p
    BY <1>5, <2>2
  <2>4. p \in shares /\ q \in shares
    BY <1>h, <2>3, NoProcAssumption DEF counts, shares, Shares, Counts, Leaving, SpinsExact,
      AtL, AtKUse, AtXUse, LeaveK, TypesOK
  <2>5. QED
    BY <1>4, <1>7, <2>3, <2>4 DEF KExact
<1>21. WritersApart'
  BY <1>4, <1>5, <1>6, <1>7 DEF WritersApart
<1>22. LastOut'
  BY <1>4, <1>5, <1>6, <1>7 DEF LastOut
<1>23. QED
  BY <1>h, <1>q, <1>1, <1>2, <1>3, <1>4, <1>5, <1>6, <1>7, <1>8,
    <1>9, <1>10, <1>11, <1>12, <1>13, <1>14, <1>15, <1>16, <1>17, <1>18,
    <1>19, <1>20, <1>21, <1>22

(* unlock(&l->l) of runlock. *)
LEMMA LeaveUnlockLOK ==
  ASSUME IndInv, NEW p \in Procs, UnlockL(p, At("runlock", "unlock l"), Out)
  PROVE  IndInv'
<1>a. "runlock" \in Ops /\ "none" \in Ops /\ "unlock l" \in Stmts /\ "out" \in Stmts
  BY DEF Ops, Stmts, Door, Enter, LeaveK
<1>g. PcOK /\ X!Goto(p, At("runlock", "unlock l"), At("none", "out"))
  BY DEF IndInv, UnlockL, Out
<1>h. /\ oper \in [Procs -> Ops] /\ stmt \in [Procs -> Stmts]
      /\ oper[p] = "runlock" /\ stmt[p] = "unlock l" /\ PcOK'
      /\ oper' = [oper EXCEPT ![p] = "none"] /\ stmt' = [stmt EXCEPT ![p] = "out"]
  <2>1. Moves(p, "runlock", "unlock l", "none", "out")
    BY <1>a, <1>g, GotoOK
  <2>2. QED
    BY <2>1 DEF Moves
<1> USE DEF IndInv, UnlockL, Out, xvars, kvars
<1>q. ListsOK' /\ xq' = xq /\ kq' = kq
  BY ListsSame
<1>1. givenX' = givenX
  BY <1>h, <1>q DEF givenX
<1>2. givenK' = givenK
  BY <1>h, <1>q DEF givenK
<1>3. hasX' = hasX
  BY <1>h, <1>q, <1>1, <1>2 DEF hasX, HasX, LeaveK
<1>4. hasK' = hasK
  BY <1>h, <1>q, <1>1, <1>2 DEF hasK, HasK
<1>5. counts' = counts
  BY <1>h, <1>q, <1>1, <1>2 DEF counts, Counts
<1>6. leaving' = leaving
  BY <1>h, <1>q, <1>1, <1>2 DEF leaving, Leaving
<1>7. shares' = shares
  BY <1>h, <1>q, <1>1, <1>2 DEF shares, Shares, Counts, Leaving
<1>8. PlacesOK'
  BY ZenonT(60), <1>h, <1>q DEF PlacesOK, Door, Enter, LeaveK, LeaveX
<1>9. TypesOK'
  BY <1>h, <1>q DEF TypesOK
<1>10. BooleansOK'
  BY <1>h, <1>q DEF BooleansOK
<1>11. SpinsExact'
  BY <1>h, <1>q, NoProcAssumption DEF SpinsExact, AtXUse, AtKUse, AtL, LeaveK,
    PlacesOK, Door, Enter, LeaveX, TypesOK
<1>12. QueuesOK'
  BY <1>h, <1>q DEF QueuesOK
<1>13. HandsReady'
  BY <1>h, <1>q DEF HandsReady
<1>14. HandsGiven'
  BY <1>1, <1>2 DEF HandsGiven
<1>15. HandsApart'
  BY <1>1, <1>2 DEF HandsApart
<1>16. PostsOK'
  BY <1>1, <1>2 DEF PostsOK
<1>17. OneHasX'
  BY <1>3 DEF OneHasX
<1>18. XExact'
  BY <1>3 DEF XExact
<1>19. CountOK'
  BY <1>5 DEF CountOK
<1>20. KExact'
  BY <1>4, <1>5, <1>6, <1>7 DEF KExact
<1>21. WritersApart'
  BY <1>4, <1>5, <1>6, <1>7 DEF WritersApart
<1>22. LastOut'
  BY <1>4, <1>5, <1>6, <1>7 DEF LastOut
<1>23. QED
  BY <1>h, <1>q, <1>1, <1>2, <1>3, <1>4, <1>5, <1>6, <1>7, <1>8,
    <1>9, <1>10, <1>11, <1>12, <1>13, <1>14, <1>15, <1>16, <1>17, <1>18,
    <1>19, <1>20, <1>21, <1>22

(* The five calls. *)
LEMMA CallRlockOK ==
  ASSUME IndInv, NEW p \in Procs, X!Goto(p, At("none", "out"), At("rlock",
    "qlock x")), UNCHANGED <<xvars, kvars, l, readers, handoff, sem>>
  PROVE  IndInv'
<1>a. "none" \in Ops /\ "rlock" \in Ops /\ "out" \in Stmts /\ "qlock x" \in Stmts
  BY DEF Ops, Stmts, Door, Enter, LeaveK
<1>g. PcOK /\ X!Goto(p, At("none", "out"), At("rlock", "qlock x"))
  BY DEF IndInv
<1>h. /\ oper \in [Procs -> Ops] /\ stmt \in [Procs -> Stmts]
      /\ oper[p] = "none" /\ stmt[p] = "out" /\ PcOK'
      /\ oper' = [oper EXCEPT ![p] = "rlock"] /\ stmt' = [stmt EXCEPT ![p] = "qlock x"]
  <2>1. Moves(p, "none", "out", "rlock", "qlock x")
    BY <1>a, <1>g, GotoOK
  <2>2. QED
    BY <2>1 DEF Moves
<1> USE DEF IndInv, xvars, kvars
<1>q. ListsOK' /\ xq' = xq /\ kq' = kq
  BY ListsSame
<1>1. givenX' = givenX
  BY <1>h, <1>q DEF givenX
<1>2. givenK' = givenK
  BY <1>h, <1>q DEF givenK
<1>3. hasX' = hasX
  BY <1>h, <1>q, <1>1, <1>2 DEF hasX, HasX, LeaveK
<1>4. hasK' = hasK
  BY <1>h, <1>q, <1>1, <1>2 DEF hasK, HasK
<1>5. counts' = counts
  BY <1>h, <1>q, <1>1, <1>2 DEF counts, Counts
<1>6. leaving' = leaving
  BY <1>h, <1>q, <1>1, <1>2 DEF leaving, Leaving
<1>7. shares' = shares
  BY <1>h, <1>q, <1>1, <1>2 DEF shares, Shares, Counts, Leaving
<1>8. PlacesOK'
  BY ZenonT(60), <1>h, <1>q DEF PlacesOK, Door, Enter, LeaveK, LeaveX
<1>9. TypesOK'
  BY <1>h, <1>q DEF TypesOK
<1>10. BooleansOK'
  BY <1>h, <1>q DEF BooleansOK
<1>11. SpinsExact'
  BY <1>h, <1>q DEF SpinsExact, AtXUse, AtKUse, AtL, LeaveK
<1>12. QueuesOK'
  BY <1>h, <1>q DEF QueuesOK
<1>13. HandsReady'
  BY <1>h, <1>q DEF HandsReady
<1>14. HandsGiven'
  BY <1>1, <1>2 DEF HandsGiven
<1>15. HandsApart'
  BY <1>1, <1>2 DEF HandsApart
<1>16. PostsOK'
  BY <1>1, <1>2 DEF PostsOK
<1>17. OneHasX'
  BY <1>3 DEF OneHasX
<1>18. XExact'
  BY <1>3 DEF XExact
<1>19. CountOK'
  BY <1>5 DEF CountOK
<1>20. KExact'
  BY <1>4, <1>5, <1>6, <1>7 DEF KExact
<1>21. WritersApart'
  BY <1>4, <1>5, <1>6, <1>7 DEF WritersApart
<1>22. LastOut'
  BY <1>4, <1>5, <1>6, <1>7 DEF LastOut
<1>23. QED
  BY <1>h, <1>q, <1>1, <1>2, <1>3, <1>4, <1>5, <1>6, <1>7, <1>8,
    <1>9, <1>10, <1>11, <1>12, <1>13, <1>14, <1>15, <1>16, <1>17, <1>18,
    <1>19, <1>20, <1>21, <1>22

LEMMA CallCanrlockOK ==
  ASSUME IndInv, NEW p \in Procs, X!Goto(p, At("none", "out"), At("canrlock",
    "canqlock x")), UNCHANGED <<xvars, kvars, l, readers, handoff, sem>>
  PROVE  IndInv'
<1>a. "none" \in Ops /\ "canrlock" \in Ops /\ "out" \in Stmts /\ "canqlock x" \in Stmts
  BY DEF Ops, Stmts, Door, Enter, LeaveK
<1>g. PcOK /\ X!Goto(p, At("none", "out"), At("canrlock", "canqlock x"))
  BY DEF IndInv
<1>h. /\ oper \in [Procs -> Ops] /\ stmt \in [Procs -> Stmts]
      /\ oper[p] = "none" /\ stmt[p] = "out" /\ PcOK'
      /\ oper' = [oper EXCEPT ![p] = "canrlock"] /\ stmt' = [stmt EXCEPT ![p] = "canqlock x"]
  <2>1. Moves(p, "none", "out", "canrlock", "canqlock x")
    BY <1>a, <1>g, GotoOK
  <2>2. QED
    BY <2>1 DEF Moves
<1> USE DEF IndInv, xvars, kvars
<1>q. ListsOK' /\ xq' = xq /\ kq' = kq
  BY ListsSame
<1>1. givenX' = givenX
  BY <1>h, <1>q DEF givenX
<1>2. givenK' = givenK
  BY <1>h, <1>q DEF givenK
<1>3. hasX' = hasX
  BY <1>h, <1>q, <1>1, <1>2 DEF hasX, HasX, LeaveK
<1>4. hasK' = hasK
  BY <1>h, <1>q, <1>1, <1>2 DEF hasK, HasK
<1>5. counts' = counts
  BY <1>h, <1>q, <1>1, <1>2 DEF counts, Counts
<1>6. leaving' = leaving
  BY <1>h, <1>q, <1>1, <1>2 DEF leaving, Leaving
<1>7. shares' = shares
  BY <1>h, <1>q, <1>1, <1>2 DEF shares, Shares, Counts, Leaving
<1>8. PlacesOK'
  BY ZenonT(60), <1>h, <1>q DEF PlacesOK, Door, Enter, LeaveK, LeaveX
<1>9. TypesOK'
  BY <1>h, <1>q DEF TypesOK
<1>10. BooleansOK'
  BY <1>h, <1>q DEF BooleansOK
<1>11. SpinsExact'
  BY <1>h, <1>q DEF SpinsExact, AtXUse, AtKUse, AtL, LeaveK
<1>12. QueuesOK'
  BY <1>h, <1>q DEF QueuesOK
<1>13. HandsReady'
  BY <1>h, <1>q DEF HandsReady
<1>14. HandsGiven'
  BY <1>1, <1>2 DEF HandsGiven
<1>15. HandsApart'
  BY <1>1, <1>2 DEF HandsApart
<1>16. PostsOK'
  BY <1>1, <1>2 DEF PostsOK
<1>17. OneHasX'
  BY <1>3 DEF OneHasX
<1>18. XExact'
  BY <1>3 DEF XExact
<1>19. CountOK'
  BY <1>5 DEF CountOK
<1>20. KExact'
  BY <1>4, <1>5, <1>6, <1>7 DEF KExact
<1>21. WritersApart'
  BY <1>4, <1>5, <1>6, <1>7 DEF WritersApart
<1>22. LastOut'
  BY <1>4, <1>5, <1>6, <1>7 DEF LastOut
<1>23. QED
  BY <1>h, <1>q, <1>1, <1>2, <1>3, <1>4, <1>5, <1>6, <1>7, <1>8,
    <1>9, <1>10, <1>11, <1>12, <1>13, <1>14, <1>15, <1>16, <1>17, <1>18,
    <1>19, <1>20, <1>21, <1>22

LEMMA CallWlockOK ==
  ASSUME IndInv, NEW p \in Procs, X!Goto(p, At("none", "out"), At("wlock",
    "qlock x")), UNCHANGED <<xvars, kvars, l, readers, handoff, sem>>
  PROVE  IndInv'
<1>a. "none" \in Ops /\ "wlock" \in Ops /\ "out" \in Stmts /\ "qlock x" \in Stmts
  BY DEF Ops, Stmts, Door, Enter, LeaveK
<1>g. PcOK /\ X!Goto(p, At("none", "out"), At("wlock", "qlock x"))
  BY DEF IndInv
<1>h. /\ oper \in [Procs -> Ops] /\ stmt \in [Procs -> Stmts]
      /\ oper[p] = "none" /\ stmt[p] = "out" /\ PcOK'
      /\ oper' = [oper EXCEPT ![p] = "wlock"] /\ stmt' = [stmt EXCEPT ![p] = "qlock x"]
  <2>1. Moves(p, "none", "out", "wlock", "qlock x")
    BY <1>a, <1>g, GotoOK
  <2>2. QED
    BY <2>1 DEF Moves
<1> USE DEF IndInv, xvars, kvars
<1>q. ListsOK' /\ xq' = xq /\ kq' = kq
  BY ListsSame
<1>1. givenX' = givenX
  BY <1>h, <1>q DEF givenX
<1>2. givenK' = givenK
  BY <1>h, <1>q DEF givenK
<1>3. hasX' = hasX
  BY <1>h, <1>q, <1>1, <1>2 DEF hasX, HasX, LeaveK
<1>4. hasK' = hasK
  BY <1>h, <1>q, <1>1, <1>2 DEF hasK, HasK
<1>5. counts' = counts
  BY <1>h, <1>q, <1>1, <1>2 DEF counts, Counts
<1>6. leaving' = leaving
  BY <1>h, <1>q, <1>1, <1>2 DEF leaving, Leaving
<1>7. shares' = shares
  BY <1>h, <1>q, <1>1, <1>2 DEF shares, Shares, Counts, Leaving
<1>8. PlacesOK'
  BY ZenonT(60), <1>h, <1>q DEF PlacesOK, Door, Enter, LeaveK, LeaveX
<1>9. TypesOK'
  BY <1>h, <1>q DEF TypesOK
<1>10. BooleansOK'
  BY <1>h, <1>q DEF BooleansOK
<1>11. SpinsExact'
  BY <1>h, <1>q DEF SpinsExact, AtXUse, AtKUse, AtL, LeaveK
<1>12. QueuesOK'
  BY <1>h, <1>q DEF QueuesOK
<1>13. HandsReady'
  BY <1>h, <1>q DEF HandsReady
<1>14. HandsGiven'
  BY <1>1, <1>2 DEF HandsGiven
<1>15. HandsApart'
  BY <1>1, <1>2 DEF HandsApart
<1>16. PostsOK'
  BY <1>1, <1>2 DEF PostsOK
<1>17. OneHasX'
  BY <1>3 DEF OneHasX
<1>18. XExact'
  BY <1>3 DEF XExact
<1>19. CountOK'
  BY <1>5 DEF CountOK
<1>20. KExact'
  BY <1>4, <1>5, <1>6, <1>7 DEF KExact
<1>21. WritersApart'
  BY <1>4, <1>5, <1>6, <1>7 DEF WritersApart
<1>22. LastOut'
  BY <1>4, <1>5, <1>6, <1>7 DEF LastOut
<1>23. QED
  BY <1>h, <1>q, <1>1, <1>2, <1>3, <1>4, <1>5, <1>6, <1>7, <1>8,
    <1>9, <1>10, <1>11, <1>12, <1>13, <1>14, <1>15, <1>16, <1>17, <1>18,
    <1>19, <1>20, <1>21, <1>22

LEMMA CallRunlockOK ==
  ASSUME IndInv, NEW p \in Procs, X!Goto(p, At("rlock", "in"), At("runlock",
    "lock l")), UNCHANGED <<xvars, kvars, l, readers, handoff, sem>>
  PROVE  IndInv'
<1>a. "rlock" \in Ops /\ "runlock" \in Ops /\ "in" \in Stmts /\ "lock l" \in Stmts
  BY DEF Ops, Stmts, Door, Enter, LeaveK
<1>g. PcOK /\ X!Goto(p, At("rlock", "in"), At("runlock", "lock l"))
  BY DEF IndInv
<1>h. /\ oper \in [Procs -> Ops] /\ stmt \in [Procs -> Stmts]
      /\ oper[p] = "rlock" /\ stmt[p] = "in" /\ PcOK'
      /\ oper' = [oper EXCEPT ![p] = "runlock"] /\ stmt' = [stmt EXCEPT ![p] = "lock l"]
  <2>1. Moves(p, "rlock", "in", "runlock", "lock l")
    BY <1>a, <1>g, GotoOK
  <2>2. QED
    BY <2>1 DEF Moves
<1> USE DEF IndInv, xvars, kvars
<1>q. ListsOK' /\ xq' = xq /\ kq' = kq
  BY ListsSame
<1>1. givenX' = givenX
  BY <1>h, <1>q DEF givenX
<1>2. givenK' = givenK
  BY <1>h, <1>q DEF givenK
<1>3. hasX' = hasX
  BY <1>h, <1>q, <1>1, <1>2 DEF hasX, HasX, LeaveK
<1>4. hasK' = hasK
  BY <1>h, <1>q, <1>1, <1>2 DEF hasK, HasK
<1>5. counts' = counts
  BY <1>h, <1>q, <1>1, <1>2 DEF counts, Counts
<1>6. leaving' = leaving
  BY <1>h, <1>q, <1>1, <1>2 DEF leaving, Leaving
<1>7. shares' = shares
  BY <1>h, <1>q, <1>1, <1>2 DEF shares, Shares, Counts, Leaving
<1>8. PlacesOK'
  BY ZenonT(60), <1>h, <1>q DEF PlacesOK, Door, Enter, LeaveK, LeaveX
<1>9. TypesOK'
  BY <1>h, <1>q DEF TypesOK
<1>10. BooleansOK'
  BY <1>h, <1>q DEF BooleansOK
<1>11. SpinsExact'
  BY <1>h, <1>q DEF SpinsExact, AtXUse, AtKUse, AtL, LeaveK
<1>12. QueuesOK'
  BY <1>h, <1>q DEF QueuesOK
<1>13. HandsReady'
  BY <1>h, <1>q DEF HandsReady
<1>14. HandsGiven'
  BY <1>1, <1>2 DEF HandsGiven
<1>15. HandsApart'
  BY <1>1, <1>2 DEF HandsApart
<1>16. PostsOK'
  BY <1>1, <1>2 DEF PostsOK
<1>17. OneHasX'
  BY <1>3 DEF OneHasX
<1>18. XExact'
  BY <1>3 DEF XExact
<1>19. CountOK'
  BY <1>5 DEF CountOK
<1>20. KExact'
  BY <1>4, <1>5, <1>6, <1>7 DEF KExact
<1>21. WritersApart'
  BY <1>4, <1>5, <1>6, <1>7 DEF WritersApart
<1>22. LastOut'
  BY <1>4, <1>5, <1>6, <1>7 DEF LastOut
<1>23. QED
  BY <1>h, <1>q, <1>1, <1>2, <1>3, <1>4, <1>5, <1>6, <1>7, <1>8,
    <1>9, <1>10, <1>11, <1>12, <1>13, <1>14, <1>15, <1>16, <1>17, <1>18,
    <1>19, <1>20, <1>21, <1>22

LEMMA CallWunlockOK ==
  ASSUME IndInv, NEW p \in Procs, X!Goto(p, At("wlock", "in"), At("wunlock",
    "qunlock k")), UNCHANGED <<xvars, kvars, l, readers, handoff, sem>>
  PROVE  IndInv'
<1>a. "wlock" \in Ops /\ "wunlock" \in Ops /\ "in" \in Stmts /\ "qunlock k" \in Stmts
  BY DEF Ops, Stmts, Door, Enter, LeaveK
<1>g. PcOK /\ X!Goto(p, At("wlock", "in"), At("wunlock", "qunlock k"))
  BY DEF IndInv
<1>h. /\ oper \in [Procs -> Ops] /\ stmt \in [Procs -> Stmts]
      /\ oper[p] = "wlock" /\ stmt[p] = "in" /\ PcOK'
      /\ oper' = [oper EXCEPT ![p] = "wunlock"] /\ stmt' = [stmt EXCEPT ![p] = "qunlock k"]
  <2>1. Moves(p, "wlock", "in", "wunlock", "qunlock k")
    BY <1>a, <1>g, GotoOK
  <2>2. QED
    BY <2>1 DEF Moves
<1> USE DEF IndInv, xvars, kvars
<1>q. ListsOK' /\ xq' = xq /\ kq' = kq
  BY ListsSame
<1>1. givenX' = givenX
  BY <1>h, <1>q DEF givenX
<1>2. givenK' = givenK
  BY <1>h, <1>q DEF givenK
<1>3. hasX' = hasX
  BY <1>h, <1>q, <1>1, <1>2 DEF hasX, HasX, LeaveK
<1>4. hasK' = hasK
  BY <1>h, <1>q, <1>1, <1>2 DEF hasK, HasK
<1>5. counts' = counts
  BY <1>h, <1>q, <1>1, <1>2 DEF counts, Counts
<1>6. leaving' = leaving
  BY <1>h, <1>q, <1>1, <1>2 DEF leaving, Leaving
<1>7. shares' = shares
  BY <1>h, <1>q, <1>1, <1>2 DEF shares, Shares, Counts, Leaving
<1>8. PlacesOK'
  BY ZenonT(60), <1>h, <1>q DEF PlacesOK, Door, Enter, LeaveK, LeaveX
<1>9. TypesOK'
  BY <1>h, <1>q DEF TypesOK
<1>10. BooleansOK'
  BY <1>h, <1>q DEF BooleansOK
<1>11. SpinsExact'
  BY <1>h, <1>q DEF SpinsExact, AtXUse, AtKUse, AtL, LeaveK
<1>12. QueuesOK'
  BY <1>h, <1>q DEF QueuesOK
<1>13. HandsReady'
  BY <1>h, <1>q DEF HandsReady
<1>14. HandsGiven'
  BY <1>1, <1>2 DEF HandsGiven
<1>15. HandsApart'
  BY <1>1, <1>2 DEF HandsApart
<1>16. PostsOK'
  BY <1>1, <1>2 DEF PostsOK
<1>17. OneHasX'
  BY <1>3 DEF OneHasX
<1>18. XExact'
  BY <1>3 DEF XExact
<1>19. CountOK'
  BY <1>5 DEF CountOK
<1>20. KExact'
  BY <1>4, <1>5, <1>6, <1>7 DEF KExact
<1>21. WritersApart'
  BY <1>4, <1>5, <1>6, <1>7 DEF WritersApart
<1>22. LastOut'
  BY <1>4, <1>5, <1>6, <1>7 DEF LastOut
<1>23. QED
  BY <1>h, <1>q, <1>1, <1>2, <1>3, <1>4, <1>5, <1>6, <1>7, <1>8,
    <1>9, <1>10, <1>11, <1>12, <1>13, <1>14, <1>15, <1>16, <1>17, <1>18,
    <1>19, <1>20, <1>21, <1>22

----------------------------------------------------------------------------
(* Every step is one of those above. *)
LEMMA InitIndInv == ASSUME Init PROVE IndInv
<1>1. PcOK
  BY DEF Init, PcOK, Out, At, Ops, Stmts
<1>2. \A p \in Procs : oper[p] = "none" /\ stmt[p] = "out"
  <2>1. ASSUME NEW p \in Procs PROVE pc[p] = At("none", "out")
    BY DEF Init, Out
  <2>2. QED
    BY <2>1, PlaceOf
<1>3. xq = {} /\ kq = {} /\ ListsOK
  BY DEF Init, xq, kq, OnList, OnListOnce, ListsOK
<1>4. PlacesOK /\ TypesOK /\ BooleansOK /\ QueuesOK
  BY <1>2, <1>3 DEF Init, PlacesOK, TypesOK, BooleansOK, QueuesOK
<1>5. SpinsExact
  BY <1>2, NoProcAssumption DEF Init, SpinsExact, AtXUse, AtKUse, AtL
<1>6. HandsReady /\ HandsGiven /\ HandsApart /\ PostsOK
  BY <1>2 DEF Init, HandsReady, HandsGiven, HandsApart, PostsOK
<1>7. hasX = {} /\ hasK = {}
  BY <1>2 DEF hasX, HasX, hasK, HasK, givenX, givenK
<1>8. counts = {} /\ leaving = {} /\ shares = {}
  BY <1>2 DEF counts, Counts, leaving, Leaving, shares, Shares
<1>9. CountOK
  BY <1>8, FS_EmptySet DEF Init, CountOK
<1>10. OneHasX /\ XExact /\ KExact /\ WritersApart /\ LastOut
  BY <1>7, <1>8 DEF Init, OneHasX, XExact, KExact, WritersApart, LastOut
<1>11. QED
  BY <1>1, <1>3, <1>4, <1>5, <1>6, <1>9, <1>10 DEF IndInv

(* The statements of the two queueing locks. *)
LEMMA qlockXOK ==
  ASSUME IndInv, NEW p \in Procs, NEW f \in {"rlock", "wlock"}, qlockX(p, f, AfterX(f))
  PROVE  IndInv'
  BY XLockUseOK, XTakeOK, XEnqueueOK, XBlockOK DEF qlockX

LEMMA qunlockXOK ==
  ASSUME IndInv, NEW p \in Procs, NEW f \in {"rlock", "canrlock", "wunlock"},
         qunlockX(p, f, At(AfterOp(f), AfterStmt(f)))
  PROVE  IndInv'
  BY XUnlockUseOK, XPassOK, XFreeOK, XReadyOK DEF qunlockX

LEMMA qlockKOK ==
  ASSUME IndInv, NEW p \in Procs, qlockK(p, "wlock", "in")
  PROVE  IndInv'
  BY KLockUseOK, KTakeOK, KEnqueueOK, KBlockOK DEF qlockK

LEMMA qunlockKOK ==
  ASSUME IndInv, NEW p \in Procs, NEW f \in {"runlock", "wunlock"}, qunlockK(p, f, AfterK(f))
  PROVE  IndInv'
  BY KUnlockUseOK, KPassOK, KFreeOK, KReadyOK DEF qunlockK

LEMMA EnterReaderOK ==
  ASSUME IndInv, NEW p \in Procs, NEW f \in {"rlock", "canrlock"}, EnterReader(p, f)
  PROVE  IndInv'
<1>1. CASE LockL(p, At(f, "lock l"), At(f, "canqlock k"), readers + 1)
  BY <1>1, EnterLOK
<1>2. CASE canqlockK(p, f, "unlock l")
  BY <1>2, CanLockUseOK, CanTakeOK DEF canqlockK
<1>3. CASE UnlockL(p, At(f, "unlock l"), At(f, "qunlock x"))
  BY <1>3, EnterUnlockLOK
<1>4. CASE qunlockX(p, f, Reading)
  <2>1. f \in {"rlock", "canrlock", "wunlock"} /\ Reading = At(AfterOp(f), AfterStmt(f))
    BY DEF Reading, AfterOp, AfterStmt
  <2>2. QED
    BY <1>4, <2>1, qunlockXOK
<1>5. QED
  BY <1>1, <1>2, <1>3, <1>4 DEF EnterReader

(* The operations. *)
LEMMA rlockOK == ASSUME IndInv, NEW p \in Procs, rlock(p) PROVE IndInv'
<1>1. CASE qlockX(p, "rlock", "lock l")
  <2>1. AfterX("rlock") = "lock l"
    BY DEF AfterX
  <2>2. QED
    BY <1>1, <2>1, qlockXOK
<1>2. QED
  BY <1>1, EnterReaderOK DEF rlock

LEMMA canrlockOK == ASSUME IndInv, NEW p \in Procs, canrlock(p) PROVE IndInv'
  BY DoorLockUseOK, DoorBusyOK, DoorTakeOK, DoorFailOK, EnterReaderOK DEF canrlock

LEMMA runlockOK == ASSUME IndInv, NEW p \in Procs, runlock(p) PROVE IndInv'
<1>1. CASE qunlockK(p, "runlock", "unlock l")
  <2>1. AfterK("runlock") = "unlock l"
    BY DEF AfterK
  <2>2. QED
    BY <1>1, <2>1, qunlockKOK
<1>2. CASE UnlockL(p, At("runlock", "unlock l"), Out)
  BY <1>2, LeaveUnlockLOK
<1>3. CASE LockL(p, At("runlock", "lock l"),
                 At("runlock", IF readers - 1 = 0 THEN "qunlock k" ELSE "unlock l"), readers - 1)
  <2>1. CASE readers - 1 = 0
    BY <1>3, <2>1, LeaveLastOK
  <2>2. CASE readers - 1 # 0
    BY <1>3, <2>2, LeaveLOK
  <2>3. QED
    BY <2>1, <2>2
<1>4. QED
  BY <1>1, <1>2, <1>3 DEF runlock

LEMMA wlockOK == ASSUME IndInv, NEW p \in Procs, wlock(p) PROVE IndInv'
<1>1. AfterX("wlock") = "qlock k"
  BY DEF AfterX
<1>2. QED
  BY <1>1, qlockXOK, qlockKOK DEF wlock

LEMMA wunlockOK == ASSUME IndInv, NEW p \in Procs, wunlock(p) PROVE IndInv'
<1>1. AfterK("wunlock") = "qunlock x" /\ At(AfterOp("wunlock"), AfterStmt("wunlock")) = Out
  BY DEF AfterK, AfterOp, AfterStmt, Out
<1>2. QED
  BY <1>1, qunlockKOK, qunlockXOK DEF wunlock

LEMMA CallOK == ASSUME IndInv, NEW p \in Procs, Call(p) PROVE IndInv'
  BY CallRlockOK, CallCanrlockOK, CallWlockOK, CallRunlockOK, CallWunlockOK
    DEF Call, Out, Reading, Writing

LEMMA StutterOK == ASSUME IndInv, UNCHANGED vars PROVE IndInv'
<1>1. /\ oper' = oper /\ stmt' = stmt /\ xq' = xq /\ kq' = kq
  BY DEF vars, oper, stmt, xq, kq
<1>2. givenX' = givenX /\ givenK' = givenK
  BY <1>1 DEF givenX, givenK
<1>3. hasX' = hasX /\ hasK' = hasK /\ counts' = counts /\ leaving' = leaving /\ shares' = shares
  BY <1>1, <1>2 DEF hasX, HasX, hasK, HasK, counts, Counts, leaving, Leaving, shares, Shares
<1>4. QED
  BY ZenonT(60), <1>1, <1>2, <1>3 DEF IndInv, vars, PcOK, PlacesOK, TypesOK, ListsOK, BooleansOK, SpinsExact,
    AtXUse, AtKUse, AtL, QueuesOK, HandsReady, HandsGiven, HandsApart, PostsOK, OneHasX, XExact,
    CountOK, KExact, WritersApart, LastOut

(***************************************************************************)
(* The invariant holds in every state the five operations reach.           *)
(***************************************************************************)
THEOREM Invariance == Spec => []IndInv
<1>1. Init => IndInv
  BY InitIndInv
<1>2. IndInv /\ [Next]_vars => IndInv'
  <2> SUFFICES ASSUME IndInv, [Next]_vars PROVE IndInv'
    OBVIOUS
  <2>1. ASSUME NEW p \in Procs, Call(p) \/ Step(p) PROVE IndInv'
    BY <2>1, CallOK, rlockOK, canrlockOK, runlockOK, wlockOK, wunlockOK DEF Step
  <2>2. QED
    BY <2>1, StutterOK DEF Next
<1>3. QED
  BY <1>1, <1>2, PTL DEF Spec

(* The readers inside are counted, and share k. *)
LEMMA ReadersShare == ReadersIn \subseteq counts /\ ReadersIn \subseteq shares
<1> SUFFICES ASSUME NEW p \in ReadersIn PROVE p \in counts /\ p \in shares
  OBVIOUS
<1>1. p \in Procs /\ oper[p] = "rlock" /\ stmt[p] = "in"
  <2>1. p \in Procs /\ pc[p] = At("rlock", "in")
    BY DEF ReadersIn, Reading
  <2>2. QED
    BY <2>1, PlaceOf
<1>2. QED
  BY <1>1 DEF counts, Counts, shares, Shares

(***************************************************************************)
(* A writer inside wlock..wunlock is alone, whatever rlock and canrlock    *)
(* make of canqlock(&l->k), for any number of processes.                   *)
(***************************************************************************)
THEOREM WriterAlone == Spec => []WriterExcludes
<1>1. IndInv => WriterExcludes
  <2> SUFFICES ASSUME IndInv, WritersIn # {} PROVE ReadersIn = {} /\ Cardinality(WritersIn) = 1
    BY DEF WriterExcludes
  <2>1. WritersIn \subseteq hasK
    BY PlaceOf DEF WritersIn, Writing, hasK, HasK
  <2>2. ReadersIn \subseteq shares
    BY ReadersShare
  <2>3. ReadersIn = {}
    BY <2>1, <2>2 DEF IndInv, WritersApart
  <2>4. PICK p \in Procs : WritersIn = {p}
    BY <2>1, KOwnersHaveX DEF IndInv, OneHasX, WritersIn
  <2>5. QED
    BY <2>3, <2>4, FS_Singleton
<1>2. QED
  BY <1>1, Invariance, PTL

(***************************************************************************)
(* The count of readers, the lock k that one reader takes and another      *)
(* releases, and the posts of both queueing locks agree.                   *)
(***************************************************************************)
THEOREM LocksAgree == Spec => []LocksMatchReaders
<1>1. IndInv => LocksMatchReaders
  <2> SUFFICES ASSUME IndInv PROVE LocksMatchReaders
    OBVIOUS
  <2> USE DEF IndInv
  <2>1. ASSUME NEW p \in Procs, NEW f, NEW a
        PROVE  pc[p] = At(f, a) <=> oper[p] = f /\ stmt[p] = a
    <3>1. pc[p] = At(oper[p], stmt[p])
      BY DEF PcOK, At, oper, stmt
    <3>2. QED
      BY <3>1, PlaceOf
  <2>2. ASSUME NEW p \in Procs PROVE Counted(p) <=> p \in counts
    <3>1. pc[p].op = oper[p] /\ pc[p].at = stmt[p]
      BY DEF oper, stmt
    <3>2. /\ pc[p] = Reading <=> oper[p] = "rlock" /\ stmt[p] = "in"
          /\ pc[p] = At("runlock", "lock l") <=> oper[p] = "runlock" /\ stmt[p] = "lock l"
      BY <2>1 DEF Reading
    <3>3. p \in counts <=> Counts(p)
      BY DEF counts
    <3>4. QED
      BY <3>1, <3>2, <3>3 DEF Counted, Counts
  <2>3. {p \in Procs : Counted(p)} = counts
    BY <2>2 DEF counts
  <2>4. IsFiniteSet(counts) /\ counts \subseteq Procs
    BY ProcsAssumption, FS_Subset DEF counts
  <2>5. TypeOK
    <3>1. Cardinality(counts) \in Nat /\ Cardinality(Procs) \in Nat
          /\ Cardinality(counts) <= Cardinality(Procs)
      BY <2>4, ProcsAssumption, FS_Subset, FS_CardinalityType
    <3>2. readers \in 0..Cardinality(Procs)
      BY <3>1 DEF CountOK
    <3>3. xlocked \in BOOLEAN /\ klocked \in BOOLEAN
      BY DEF BooleansOK
    <3>4. {xlocked, klocked} \subseteq BOOLEAN
      BY <3>3, Zenon
    <3>5. QED
      BY <3>2, <3>4 DEF TypeOK, TypesOK, ListsOK
  <2>6. CountExact
    BY <2>3 DEF CountExact, CountOK
  <2>7. ReadersHoldK
    <3>1. ReadersIn \subseteq counts /\ ReadersIn \subseteq shares
      BY ReadersShare
    <3>2. Cardinality(ReadersIn) <= Cardinality(counts)
      BY <2>4, <3>1, FS_Subset
    <3>3. Cardinality(ReadersIn) \in Nat /\ Cardinality(counts) \in Nat
      BY <2>4, <3>1, FS_Subset, FS_CardinalityType
    <3>4. QED
      BY <3>1, <3>2, <3>3 DEF ReadersHoldK, KExact, CountOK
  <2>8. PostsMatchSleepers
    <3>1. ASSUME NEW p \in Procs, sem[p] = 1 PROVE pc[p].at \in {"x block", "k block"}
      <4>1. p \in givenX \cup givenK
        BY <3>1 DEF PostsOK
      <4>2. stmt[p] = pc[p].at
        BY DEF stmt
      <4>3. QED
        BY <4>1, <4>2 DEF givenX, givenK
    <3>2. QED
      BY <3>1 DEF PostsMatchSleepers
  <2>9. QED
    BY <2>5, <2>6, <2>7, <2>8 DEF LocksMatchReaders
<1>2. QED
  BY <1>1, Invariance, PTL
=============================================================================
