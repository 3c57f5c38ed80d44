------------------------------- MODULE RWLock ------------------------------
(***************************************************************************)
(* The readers/writer lock of styx/svcs/lock.c, built from two QLocks and  *)
(* a spin lock: x is the door every reader passes and a writer keeps shut, *)
(* k is held by the writer or by the group of readers, and l guards the    *)
(* count of readers.  rlock ignores what canqlock(&l->k) returns, and      *)
(* canqlock may fail only because k's spin lock is busy.                   *)
(*                                                                         *)
(* A process is at the statement `at` of the operation `op`; the steps     *)
(* inside a QLock operation are those of the module QLock.                 *)
(***************************************************************************)
EXTENDS Integers, Sequences, FiniteSets

CONSTANTS Procs, NoProc

ASSUME NoProcAssumption == NoProc \notin Procs
ASSUME ProcsAssumption == IsFiniteSet(Procs)

VARIABLES
  xuse, xlocked, xwaitq,   \* the QLock x
  kuse, klocked, kwaitq,   \* the QLock k
  l,                       \* the spin lock l: the process inside it
  readers,                 \* the count of readers
  handoff, sem, pc         \* as in QLock

xvars == <<xuse, xlocked, xwaitq>>
kvars == <<kuse, klocked, kwaitq>>
vars == <<xuse, xlocked, xwaitq, kuse, klocked, kwaitq, l, readers,
          handoff, sem, pc>>

X == INSTANCE QLock WITH use <- xuse, locked <- xlocked, waitq <- xwaitq
K == INSTANCE QLock WITH use <- kuse, locked <- klocked, waitq <- kwaitq

At(op, at) == [op |-> op, at |-> at]
Out == At("none", "out")
Reading == At("rlock", "in")
Writing == At("wlock", "in")

Init ==
  /\ xuse = NoProc /\ xlocked = FALSE /\ xwaitq = <<>>
  /\ kuse = NoProc /\ klocked = FALSE /\ kwaitq = <<>>
  /\ l = NoProc
  /\ readers = 0
  /\ handoff = [p \in Procs |-> NoProc]
  /\ sem = [p \in Procs |-> 0]
  /\ pc = [p \in Procs |-> Out]
----------------------------------------------------------------------------
(* qlock and qunlock of x, and of k, as statements of the operation op. *)
qlockX(p, op, next) ==
  /\ \/ X!LockUse(p, At(op, "qlock x"), At(op, "x use"))
     \/ X!TakeOrEnqueue(p, At(op, "x use"), At(op, next), At(op, "x block"))
     \/ X!Block(p, At(op, "x block"), At(op, next))
  /\ UNCHANGED <<kvars, l, readers>>

qunlockX(p, op, next) ==
  /\ \/ X!LockUse(p, At(op, "qunlock x"), At(op, "un x use"))
     \/ X!PassOrFree(p, At(op, "un x use"), At(op, "ready x"), next)
     \/ X!Ready(p, At(op, "ready x"), next)
  /\ UNCHANGED <<kvars, l, readers>>

qlockK(p, op, next) ==
  /\ \/ K!LockUse(p, At(op, "qlock k"), At(op, "k use"))
     \/ K!TakeOrEnqueue(p, At(op, "k use"), At(op, next), At(op, "k block"))
     \/ K!Block(p, At(op, "k block"), At(op, next))
  /\ UNCHANGED <<xvars, l, readers>>

qunlockK(p, op, next) ==
  /\ \/ K!LockUse(p, At(op, "qunlock k"), At(op, "un k use"))
     \/ K!PassOrFree(p, At(op, "un k use"), At(op, "ready k"), At(op, next))
     \/ K!Ready(p, At(op, "ready k"), At(op, next))
  /\ UNCHANGED <<xvars, l, readers>>

(* lock(&l->l) with the update of the count that follows it. *)
LockL(p, from, to, count) ==
  /\ X!Goto(p, from, to)
  /\ l = NoProc
  /\ l' = p
  /\ readers' = count
  /\ UNCHANGED <<xvars, kvars, handoff, sem>>

UnlockL(p, from, to) ==
  /\ X!Goto(p, from, to)
  /\ l' = NoProc
  /\ UNCHANGED <<xvars, kvars, readers, handoff, sem>>

(* canqlock(&l->k): both of its results lead to the same statement. *)
canqlockK(p, op, next) ==
  /\ \/ K!CanLockUse(p, At(op, "canqlock k"), At(op, "k can"), At(op, next))
     \/ K!TakeOrFail(p, At(op, "k can"), At(op, next), At(op, next))
  /\ UNCHANGED <<xvars, l, readers>>
----------------------------------------------------------------------------
(* The part rlock and canrlock share, once x is held. *)
EnterReader(p, op) ==
  \/ LockL(p, At(op, "lock l"), At(op, "canqlock k"), readers + 1)
  \/ canqlockK(p, op, "unlock l")
  \/ UnlockL(p, At(op, "unlock l"), At(op, "qunlock x"))
  \/ qunlockX(p, op, Reading)

rlock(p) == qlockX(p, "rlock", "lock l") \/ EnterReader(p, "rlock")

canrlock(p) ==
  \/ /\ \/ X!CanLockUse(p, At("canrlock", "canqlock x"), At("canrlock", "x can"), Out)
        \/ X!TakeOrFail(p, At("canrlock", "x can"), At("canrlock", "lock l"), Out)
     /\ UNCHANGED <<kvars, l, readers>>
  \/ EnterReader(p, "canrlock")

(* Mutants: a reader that is not the last one does not count itself out;   *)
(* the last reader keeps k.                                                *)
runlock_OnlyLastCounts(p) ==
  \/ LockL(p, At("runlock", "lock l"),
           At("runlock", IF readers = 1 THEN "qunlock k" ELSE "unlock l"),
           IF readers = 1 THEN 0 ELSE readers)
  \/ qunlockK(p, "runlock", "unlock l")
  \/ UnlockL(p, At("runlock", "unlock l"), Out)
runlock_KeepsK(p) ==
  \/ LockL(p, At("runlock", "lock l"), At("runlock", "unlock l"), readers - 1)
  \/ UnlockL(p, At("runlock", "unlock l"), Out)

(* runlock: the last reader out allows writers, still inside l. *)
runlock(p) ==
  \/ LockL(p, At("runlock", "lock l"),
           At("runlock", IF readers - 1 = 0 THEN "qunlock k" ELSE "unlock l"),
           readers - 1)
  \/ qunlockK(p, "runlock", "unlock l")
  \/ UnlockL(p, At("runlock", "unlock l"), Out)

(* Mutant: the writer takes the door only. *)
wlock_WithoutK(p) == qlockX(p, "wlock", "in")

wlock(p) == qlockX(p, "wlock", "qlock k") \/ qlockK(p, "wlock", "in")

wunlock(p) == qunlockK(p, "wunlock", "qunlock x") \/ qunlockX(p, "wunlock", Out)

Call(p) ==
  /\ \/ X!Goto(p, Out, At("rlock", "qlock x"))
     \/ X!Goto(p, Out, At("canrlock", "canqlock x"))
     \/ X!Goto(p, Out, At("wlock", "qlock x"))
     \/ X!Goto(p, Reading, At("runlock", "lock l"))
     \/ X!Goto(p, Writing, At("wunlock", "qunlock k"))
  /\ UNCHANGED <<xvars, kvars, l, readers, handoff, sem>>

Step(p) == rlock(p) \/ canrlock(p) \/ runlock(p) \/ wlock(p) \/ wunlock(p)

Next == \E p \in Procs : Call(p) \/ Step(p)

(* As in QLock: threads run, spinners get their turn, holders leave. *)
Fairness ==
  \A p \in Procs : SF_vars(Step(p)) /\ WF_vars(pc[p] \in {Reading, Writing} /\ Call(p))

Spec == Init /\ [][Next]_vars
FairSpec == Spec /\ Fairness
----------------------------------------------------------------------------
(* The processes inside a read section and inside a write section. *)
ReadersIn == {p \in Procs : pc[p] = Reading}
WritersIn == {p \in Procs : pc[p] = Writing}

(* The processes the count of readers stands for. *)
Counted(p) ==
  \/ pc[p] = Reading
  \/ pc[p].op \in {"rlock", "canrlock"}
     /\ pc[p].at \in {"canqlock k", "k can", "unlock l", "qunlock x", "un x use", "ready x"}
  \/ pc[p] = At("runlock", "lock l")

TypeOK ==
  /\ {xuse, kuse, l} \subseteq Procs \cup {NoProc}
  /\ {xlocked, klocked} \subseteq BOOLEAN
  /\ {xwaitq, kwaitq} \subseteq Seq(Procs)
  /\ readers \in 0..Cardinality(Procs)
  /\ handoff \in [Procs -> Procs \cup {NoProc}]
  /\ sem \in [Procs -> Nat]

(***************************************************************************)
(* A writer is alone: no second writer and no reader is inside, although   *)
(* rlock and canrlock never look at what canqlock(&l->k) returned.         *)
(***************************************************************************)
WriterExcludes == WritersIn # {} => ReadersIn = {} /\ Cardinality(WritersIn) = 1

(***************************************************************************)
(* The readers are never inside without k: whenever the count is above     *)
(* zero and no process is between the increment and canqlock, k is locked. *)
(***************************************************************************)
ReadersHoldK ==
  ReadersIn # {} => klocked /\ readers >= Cardinality(ReadersIn)

(* The count of readers is the number of processes that owe a runlock. *)
CountExact == readers = Cardinality({p \in Procs : Counted(p)})

(* A semaphore post always finds its sleeper inside osblock. *)
PostsMatchSleepers ==
  \A p \in Procs : sem[p] = 1 => pc[p].at \in {"x block", "k block"}

(***************************************************************************)
(* The count that rlock and runlock keep under l, the lock k that the first *)
(* reader takes and the last one releases for all, and the posts of both   *)
(* queueing locks agree, although different processes take and release k.  *)
(***************************************************************************)
LocksMatchReaders == TypeOK /\ CountExact /\ ReadersHoldK /\ PostsMatchSleepers

(***************************************************************************)
(* No starvation on either side: a writer that queued at x gets in while   *)
(* readers keep coming, and a reader gets in while writers keep coming.    *)
(***************************************************************************)
WriterGetsIn ==
  \A p \in Procs : pc[p] = At("wlock", "qlock x") ~> pc[p] = Writing
ReaderGetsIn ==
  \A p \in Procs : pc[p] = At("rlock", "qlock x") ~> pc[p] = Reading

(* rlock and wlock both return, whatever mix of the two keeps coming. *)
EveryoneGetsIn == WriterGetsIn /\ ReaderGetsIn
============================================================================
