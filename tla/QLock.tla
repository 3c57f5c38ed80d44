------------------------------- MODULE QLock -------------------------------
(***************************************************************************)
(* The queueing lock of styx/svcs/lock.c: a spin lock `use` guards a flag  *)
(* and a FIFO list of blocked processes, and qunlock hands the lock        *)
(* directly to the head of the list, which sleeps on its own semaphore     *)
(* (osblock/osready, kproc-libuv.c).                                       *)
(*                                                                         *)
(* The code between lock(&q->use) and unlock(&q->use) is one step, because *)
(* the fields are touched nowhere else; taking the spin lock is a step of  *)
(* its own, because canqlock gives up when it finds the spin lock taken.   *)
(* Each step operator takes the label it starts from and the label it      *)
(* leads to, so that RWLock can run the same code in two places.           *)
(***************************************************************************)
EXTENDS Integers, Sequences, FiniteSets

CONSTANTS
  Procs,   \* the processes (`up`) that call the lock
  NoProc   \* no process: a free spin lock, an empty hand-off

ASSUME NoProcAssumption == NoProc \notin Procs

VARIABLES
  use,     \* q->use: the process inside the spin lock
  locked,  \* q->locked
  waitq,   \* the list q->head .. q->tail, linked through qnext
  handoff, \* the local p of qunlock: whom to make ready
  sem,     \* up->os->sem: the count of each process's semaphore
  pc       \* where each process is

vars == <<use, locked, waitq, handoff, sem, pc>>
lockvars == <<use, locked, waitq>>
----------------------------------------------------------------------------
(* Control flow. *)
Goto(p, from, to) == pc[p] = from /\ pc' = [pc EXCEPT ![p] = to]

(* lock(&q->use): os_spinlock loops until its compare-and-swap succeeds. *)
LockUse(p, from, to) ==
  /\ Goto(p, from, to)
  /\ use = NoProc
  /\ use' = p
  /\ UNCHANGED <<locked, waitq, handoff, sem>>

(* Mutant: a waiter pushes itself in front of the list. *)
TakeOrEnqueue_Lifo(p, from, taken, queued) ==
  /\ use = p
  /\ use' = NoProc
  /\ \/ ~locked /\ locked' = TRUE /\ Goto(p, from, taken) /\ UNCHANGED waitq
     \/ locked /\ waitq' = <<p>> \o waitq /\ Goto(p, from, queued) /\ UNCHANGED locked
  /\ UNCHANGED <<handoff, sem>>

(* qlock, inside the spin lock: take a free lock, or join the list. *)
TakeOrEnqueue(p, from, taken, queued) ==
  /\ use = p
  /\ use' = NoProc
  /\ \/ /\ ~locked
        /\ locked' = TRUE
        /\ Goto(p, from, taken)
        /\ UNCHANGED waitq
     \/ /\ locked
        /\ waitq' = Append(waitq, p)
        /\ Goto(p, from, queued)
        /\ UNCHANGED locked
  /\ UNCHANGED <<handoff, sem>>

(* osblock(): wait for the semaphore. *)
Block(p, from, to) ==
  /\ Goto(p, from, to)
  /\ sem[p] > 0
  /\ sem' = [sem EXCEPT ![p] = @ - 1]
  /\ UNCHANGED <<use, locked, waitq, handoff>>

(* canqlock: canlock(&q->use) is one attempt at the spin lock. *)
CanLockUse(p, from, got, failed) ==
  /\ \/ /\ use = NoProc
        /\ use' = p
        /\ Goto(p, from, got)
     \/ /\ use # NoProc
        /\ use' = use
        /\ Goto(p, from, failed)
  /\ UNCHANGED <<locked, waitq, handoff, sem>>

(* canqlock, inside the spin lock. *)
TakeOrFail(p, from, taken, failed) ==
  /\ use = p
  /\ use' = NoProc
  /\ locked' = TRUE
  /\ \/ ~locked /\ Goto(p, from, taken)
     \/ locked /\ Goto(p, from, failed)
  /\ UNCHANGED <<waitq, handoff, sem>>

(* Mutants: qunlock frees the lock it passes on; it frees the lock and      *)
(* forgets the waiters.                                                     *)
PassOrFree_Frees(p, from, passed, freed) ==
  /\ use = p /\ use' = NoProc /\ locked' = FALSE
  /\ \/ /\ waitq # <<>>
        /\ handoff' = [handoff EXCEPT ![p] = Head(waitq)]
        /\ waitq' = Tail(waitq)
        /\ Goto(p, from, passed)
     \/ waitq = <<>> /\ Goto(p, from, freed) /\ UNCHANGED <<waitq, handoff>>
  /\ UNCHANGED sem
PassOrFree_Forgets(p, from, passed, freed) ==
  /\ use = p /\ use' = NoProc /\ locked' = FALSE
  /\ Goto(p, from, freed)
  /\ UNCHANGED <<waitq, handoff, sem>>

(* qunlock, inside the spin lock: pass the lock on, or free it. *)
PassOrFree(p, from, passed, freed) ==
  /\ use = p
  /\ use' = NoProc
  /\ \/ /\ waitq # <<>>
        /\ handoff' = [handoff EXCEPT ![p] = Head(waitq)]
        /\ waitq' = Tail(waitq)
        /\ Goto(p, from, passed)
        /\ UNCHANGED locked
     \/ /\ waitq = <<>>
        /\ locked' = FALSE
        /\ Goto(p, from, freed)
        /\ UNCHANGED <<waitq, handoff>>
  /\ UNCHANGED sem

(* Mutant: the process that was passed the lock is not made ready. *)
Ready_NoPost(p, from, to) ==
  /\ Goto(p, from, to)
  /\ handoff' = [handoff EXCEPT ![p] = NoProc]
  /\ UNCHANGED <<use, locked, waitq, sem>>

(* osready(p): post the semaphore of the process the lock was passed to. *)
Ready(p, from, to) ==
  /\ Goto(p, from, to)
  /\ sem' = [sem EXCEPT ![handoff[p]] = @ + 1]
  /\ handoff' = [handoff EXCEPT ![p] = NoProc]
  /\ UNCHANGED <<use, locked, waitq>>
----------------------------------------------------------------------------
(* A client takes the lock with qlock or canqlock, and releases it. *)
Labels == {"out", "qlock", "qlock_use", "osblock", "canqlock", "canqlock_use",
           "in", "qunlock", "qunlock_use", "osready"}

Init ==
  /\ use = NoProc
  /\ locked = FALSE
  /\ waitq = <<>>
  /\ handoff = [p \in Procs |-> NoProc]
  /\ sem = [p \in Procs |-> 0]
  /\ pc = [p \in Procs |-> "out"]

Call(p) == /\ \/ Goto(p, "out", "qlock")
              \/ Goto(p, "out", "canqlock")
              \/ Goto(p, "in", "qunlock")
           /\ UNCHANGED <<use, locked, waitq, handoff, sem>>

qlock(p) == \/ LockUse(p, "qlock", "qlock_use")
            \/ TakeOrEnqueue(p, "qlock_use", "in", "osblock")
            \/ Block(p, "osblock", "in")

canqlock(p) == \/ CanLockUse(p, "canqlock", "canqlock_use", "out")
               \/ TakeOrFail(p, "canqlock_use", "in", "out")

qunlock(p) == \/ LockUse(p, "qunlock", "qunlock_use")
              \/ PassOrFree(p, "qunlock_use", "osready", "out")
              \/ Ready(p, "osready", "out")

Next == \E p \in Procs : Call(p) \/ qlock(p) \/ canqlock(p) \/ qunlock(p)

(***************************************************************************)
(* A thread that can move does move; a spinning thread, whose retries      *)
(* find the lock free again and again, gets it; a holder leaves.           *)
(***************************************************************************)
Fairness ==
  \A p \in Procs :
    /\ WF_vars(qlock(p)) /\ WF_vars(canqlock(p)) /\ WF_vars(qunlock(p))
    /\ SF_vars(LockUse(p, "qlock", "qlock_use"))
    /\ SF_vars(LockUse(p, "qunlock", "qunlock_use"))
    /\ WF_vars(pc[p] = "in" /\ Call(p))

Spec == Init /\ [][Next]_vars
FairSpec == Spec /\ Fairness
----------------------------------------------------------------------------
(* The process is on the list of waiters. *)
Queued(p) == \E i \in 1..Len(waitq) : waitq[i] = p

(* p owns the lock: it is inside, on its way out and still the owner, or    *)
(* asleep with the lock already passed to it.                               *)
Holds(p) == \/ pc[p] \in {"in", "qunlock", "qunlock_use"}
            \/ pc[p] = "osblock" /\ ~Queued(p)

holders == {p \in Procs : Holds(p)}

TypeOK ==
  /\ use \in Procs \cup {NoProc}
  /\ locked \in BOOLEAN
  /\ waitq \in Seq(Procs)
  /\ handoff \in [Procs -> Procs \cup {NoProc}]
  /\ sem \in [Procs -> Nat]
  /\ pc \in [Procs -> Labels]

(***************************************************************************)
(* At most one process owns a QLock, counting the sleeper to which qunlock *)
(* has passed it and which has not run yet.                                *)
(***************************************************************************)
MutualExclusion == \A p, q \in Procs : Holds(p) /\ Holds(q) => p = q

(***************************************************************************)
(* A semaphore is posted at most once, and only for a process that owns    *)
(* the lock and still has to wake: no post is left over that would let a   *)
(* later osblock, of qlock or of Sleep, return at once.                    *)
(***************************************************************************)
NoStrayPost ==
  \A p \in Procs :
    sem[p] > 0 => sem[p] = 1 /\ pc[p] = "osblock" /\ ~Queued(p)

(***************************************************************************)
(* A sleeper that was passed the lock has its wake-up: either its          *)
(* semaphore is posted or exactly one process is about to post it.         *)
(***************************************************************************)
WakeupInFlight ==
  \A p \in Procs :
    pc[p] = "osblock" /\ ~Queued(p) =>
      \/ sem[p] = 1 /\ \A r \in Procs : handoff[r] # p
      \/ sem[p] = 0 /\ \E r \in Procs : handoff[r] = p

(***************************************************************************)
(* Each hand-over of qunlock posts one semaphore once, for one osblock: the *)
(* post goes to the new owner, is not lost when osready runs before it     *)
(* blocks, and none is left over.                                          *)
(***************************************************************************)
PostsMatchHandoffs == TypeOK /\ NoStrayPost /\ WakeupInFlight

(***************************************************************************)
(* The inductive invariant behind these three: who is inside the spin      *)
(* lock, who owns the lock, who is on the list, whom a hand-off is for.    *)
(***************************************************************************)
UseExact ==
  \A p \in Procs : use = p <=> pc[p] \in {"qlock_use", "canqlock_use", "qunlock_use"}

LockedExact == locked <=> \E p \in Procs : Holds(p)

QueuedOnce == \A i, j \in 1..Len(waitq) : waitq[i] = waitq[j] => i = j

QueueOK ==
  /\ QueuedOnce
  /\ \A p \in Procs : Queued(p) => pc[p] = "osblock"

HandoffOK ==
  /\ \A p \in Procs : handoff[p] # NoProc <=> pc[p] = "osready"
  /\ \A p, q \in Procs : handoff[p] = q =>
       /\ pc[q] = "osblock" /\ ~Queued(q) /\ sem[q] = 0
       /\ \A r \in Procs : handoff[r] = q => r = p

IndInv == /\ TypeOK /\ UseExact /\ LockedExact /\ MutualExclusion
          /\ QueueOK /\ HandoffOK /\ NoStrayPost /\ WakeupInFlight

(* A process that calls qlock gets the lock. *)
EveryQlockReturns == \A p \in Procs : pc[p] = "qlock" ~> pc[p] = "in"

(***************************************************************************)
(* What the lock promises: FifoMutex, the processes that own it and the    *)
(* ones that wait for it in order of arrival.                              *)
(***************************************************************************)
Abstract == INSTANCE FifoMutex WITH queue <- waitq
RefinesFifoMutex == Abstract!Spec
============================================================================
