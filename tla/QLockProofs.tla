---------------------------- MODULE QLockProofs ----------------------------
(***************************************************************************)
(* Proofs about QLock, for any set of processes: the inductive invariant   *)
(* IndInv, the safety properties it implies, and the refinement of         *)
(* FifoMutex.                                                              *)
(***************************************************************************)
EXTENDS QLock, TLAPS

(* What the list of waiters is after qlock appends a process to it. *)
LEMMA AppendWaiter ==
  ASSUME waitq \in Seq(Procs), NEW p \in Procs, waitq' = Append(waitq, p)
  PROVE  /\ waitq' \in Seq(Procs)
         /\ \A q \in Procs : Queued(q)' <=> (Queued(q) \/ q = p)
         /\ QueuedOnce /\ ~Queued(p) => QueuedOnce'
<1>1. /\ waitq' \in Seq(Procs)
      /\ Len(waitq') = Len(waitq) + 1
      /\ Len(waitq) \in Nat
      /\ \A i \in 1..Len(waitq) : waitq'[i] = waitq[i]
      /\ waitq'[Len(waitq) + 1] = p
  OBVIOUS
<1>2. ASSUME NEW q \in Procs
      PROVE  Queued(q)' <=> (Queued(q) \/ q = p)
  BY <1>1 DEF Queued
<1>3. QueuedOnce /\ ~Queued(p) => QueuedOnce'
  BY <1>1 DEF Queued, QueuedOnce
<1>4. QED
  BY <1>1, <1>2, <1>3

(* What the list of waiters is after qunlock takes its head. *)
LEMMA TakeWaiter ==
  ASSUME waitq \in Seq(Procs), waitq # <<>>, waitq' = Tail(waitq), QueuedOnce
  PROVE  /\ waitq' \in Seq(Procs)
         /\ Head(waitq) \in Procs
         /\ Queued(Head(waitq))
         /\ \A q \in Procs : Queued(q)' <=> (Queued(q) /\ q # Head(waitq))
         /\ QueuedOnce'
<1>1. /\ waitq' \in Seq(Procs)
      /\ Len(waitq) \in Nat \ {0}
      /\ Len(waitq') = Len(waitq) - 1
      /\ \A i \in 1..Len(waitq') : waitq'[i] = waitq[i + 1]
      /\ Head(waitq) = waitq[1]
      /\ Head(waitq) \in Procs
  OBVIOUS
<1>2. Queued(Head(waitq))
  BY <1>1 DEF Queued
<1>3. ASSUME NEW q \in Procs
      PROVE  Queued(q)' <=> (Queued(q) /\ q # Head(waitq))
  <2>1. ASSUME Queued(q)' PROVE Queued(q) /\ q # Head(waitq)
    <3>1. PICK i \in 1..Len(waitq') : waitq'[i] = q
      BY <2>1 DEF Queued
    <3>2. i + 1 \in 1..Len(waitq) /\ waitq[i + 1] = q /\ i + 1 # 1 /\ 1 \in 1..Len(waitq)
      BY <1>1, <3>1
    <3>3. QED
      BY <1>1, <3>2 DEF Queued, QueuedOnce
  <2>2. ASSUME Queued(q), q # Head(waitq) PROVE Queued(q)'
    <3>1. PICK i \in 1..Len(waitq) : waitq[i] = q
      BY <2>2 DEF Queued
    <3>2. i - 1 \in 1..Len(waitq') /\ (i - 1) + 1 = i
      BY <1>1, <2>2, <3>1
    <3>3. waitq'[i - 1] = q
      BY <1>1, <3>1, <3>2
    <3>4. QED
      BY <3>2, <3>3 DEF Queued
  <2>3. QED
    BY <2>1, <2>2
<1>4. QueuedOnce'
  <2>1. SUFFICES ASSUME NEW i \in 1..Len(waitq'), NEW j \in 1..Len(waitq'),
                        waitq'[i] = waitq'[j]
                 PROVE  i = j
    BY DEF QueuedOnce
  <2>2. i + 1 \in 1..Len(waitq) /\ j + 1 \in 1..Len(waitq)
        /\ waitq[i + 1] = waitq[j + 1]
    BY <1>1, <2>1
  <2>3. QED
    BY <2>2, <1>1 DEF QueuedOnce
<1>5. QED
  BY <1>1, <1>2, <1>3, <1>4

(* The initial state satisfies the invariant. *)
LEMMA InitIndInv == Init => IndInv
<1>1. SUFFICES ASSUME Init PROVE IndInv
  OBVIOUS
<1>2. \A p \in Procs : ~Queued(p) /\ pc[p] = "out" /\ ~Holds(p)
  BY <1>1 DEF Init, Queued, Holds
<1>3. TypeOK
  <2>0. locked \in BOOLEAN
    BY <1>1, Zenon DEF Init
  <2>1. use \in Procs \cup {NoProc} /\ waitq \in Seq(Procs)
    BY <1>1 DEF Init
  <2>2. handoff \in [Procs -> Procs \cup {NoProc}] /\ sem \in [Procs -> Nat]
    BY <1>1 DEF Init
  <2>3. pc \in [Procs -> Labels]
    BY <1>1 DEF Init, Labels
  <2>4. QED
    BY <2>0, <2>1, <2>2, <2>3 DEF TypeOK
<1>4. UseExact /\ LockedExact /\ MutualExclusion
  BY <1>1, <1>2, NoProcAssumption DEF Init, UseExact, LockedExact, MutualExclusion
<1>5. QueueOK /\ HandoffOK /\ NoStrayPost /\ WakeupInFlight
  BY <1>1, <1>2, NoProcAssumption
  DEF Init, QueueOK, QueuedOnce, HandoffOK, NoStrayPost, WakeupInFlight
<1>6. QED
  BY <1>3, <1>4, <1>5 DEF IndInv

----------------------------------------------------------------------------
(* The labels of a process that neither sleeps nor wakes another one, by    *)
(* whether the process owns the lock.                                       *)
OwnerLabels == {"in", "qunlock", "qunlock_use"}
OtherLabels == {"out", "qlock", "qlock_use", "canqlock", "canqlock_use"}

(* A step that only moves one process between labels of the same kind. *)
LEMMA QuietStep ==
  ASSUME IndInv, NEW p \in Procs, NEW from, NEW to, Goto(p, from, to),
         \/ from \in OwnerLabels /\ to \in OwnerLabels
         \/ from \in OtherLabels /\ to \in OtherLabels,
         use' \in Procs \cup {NoProc}, UseExact',
         UNCHANGED <<locked, waitq, handoff, sem>>
  PROVE  IndInv'
<1> USE DEF OwnerLabels, OtherLabels
<1>1. /\ pc \in [Procs -> Labels]
      /\ pc[p] = from /\ pc' = [pc EXCEPT ![p] = to] /\ to \in Labels
  BY DEF IndInv, TypeOK, Goto, Labels
<1>2. /\ pc' \in [Procs -> Labels]
      /\ pc'[p] = to /\ \A q \in Procs : q # p => pc'[q] = pc[q]
  BY <1>1
<1>3. \A q \in Procs : Queued(q)' <=> Queued(q)
  BY DEF Queued
<1>4. \A q \in Procs : (pc'[q] = "osblock" <=> pc[q] = "osblock")
                       /\ (pc'[q] = "osready" <=> pc[q] = "osready")
  BY <1>1, <1>2
<1>5. \A q \in Procs : Holds(q)' <=> Holds(q)
  BY <1>1, <1>2, <1>3 DEF Holds
<1>6. TypeOK'
  BY <1>2 DEF IndInv, TypeOK
<1>7. LockedExact' /\ MutualExclusion'
  BY <1>5 DEF IndInv, LockedExact, MutualExclusion
<1>8. QueueOK'
  BY <1>3, <1>4 DEF IndInv, QueueOK, QueuedOnce
<1>9. HandoffOK'
  BY <1>3, <1>4 DEF IndInv, HandoffOK
<1>10. NoStrayPost' /\ WakeupInFlight'
  BY <1>3, <1>4 DEF IndInv, NoStrayPost, WakeupInFlight
<1>11. QED
  BY <1>6, <1>7, <1>8, <1>9, <1>10 DEF IndInv

(* A process takes the free lock: qlock and canqlock. *)
LEMMA TakeStep ==
  ASSUME IndInv, NEW p \in Procs, NEW from \in OtherLabels, Goto(p, from, "in"),
         ~locked, locked' = TRUE, use' = NoProc, UseExact',
         UNCHANGED <<waitq, handoff, sem>>
  PROVE  IndInv'
<1> USE DEF OtherLabels
<1>1. /\ pc \in [Procs -> Labels]
      /\ pc[p] = from /\ pc' = [pc EXCEPT ![p] = "in"]
  BY DEF IndInv, TypeOK, Goto
<1>2. /\ pc' \in [Procs -> Labels]
      /\ pc'[p] = "in" /\ \A q \in Procs : q # p => pc'[q] = pc[q]
  BY <1>1 DEF Labels
<1>3. \A q \in Procs : Queued(q)' <=> Queued(q)
  BY DEF Queued
<1>4. \A q \in Procs : (pc'[q] = "osblock" <=> pc[q] = "osblock")
                       /\ (pc'[q] = "osready" <=> pc[q] = "osready")
  BY <1>1, <1>2
<1>5. \A q \in Procs : ~Holds(q)
  BY DEF IndInv, LockedExact
<1>6. \A q \in Procs : Holds(q)' <=> q = p
  BY <1>1, <1>2, <1>3, <1>5 DEF Holds
<1>7. TypeOK'
  BY <1>2 DEF IndInv, TypeOK
<1>8. LockedExact' /\ MutualExclusion'
  BY <1>6, Zenon DEF LockedExact, MutualExclusion
<1>9. QueueOK'
  BY <1>3, <1>4 DEF IndInv, QueueOK, QueuedOnce
<1>10. HandoffOK'
  BY <1>3, <1>4 DEF IndInv, HandoffOK
<1>11. NoStrayPost' /\ WakeupInFlight'
  BY <1>3, <1>4 DEF IndInv, NoStrayPost, WakeupInFlight
<1>12. QED
  BY <1>7, <1>8, <1>9, <1>10, <1>11 DEF IndInv

(* A process finds the lock taken and joins the list. *)
LEMMA EnqueueStep ==
  ASSUME IndInv, NEW p \in Procs, Goto(p, "qlock_use", "osblock"),
         locked, waitq' = Append(waitq, p), use' = NoProc, UseExact',
         UNCHANGED <<locked, handoff, sem>>
  PROVE  /\ IndInv'
         /\ \A q \in Procs : Holds(q)' <=> Holds(q)
         /\ ~Holds(p)
<1>1. /\ pc \in [Procs -> Labels] /\ waitq \in Seq(Procs)
      /\ pc[p] = "qlock_use" /\ pc' = [pc EXCEPT ![p] = "osblock"]
  BY DEF IndInv, TypeOK, Goto
<1>2. /\ pc' \in [Procs -> Labels]
      /\ pc'[p] = "osblock" /\ \A q \in Procs : q # p => pc'[q] = pc[q]
  BY <1>1 DEF Labels
<1>3. ~Queued(p) /\ ~Holds(p)
  BY <1>1 DEF IndInv, QueueOK, Holds
<1>4. /\ waitq' \in Seq(Procs) /\ QueuedOnce'
      /\ \A q \in Procs : Queued(q)' <=> (Queued(q) \/ q = p)
  BY <1>1, <1>3, AppendWaiter DEF IndInv, QueueOK
<1>5. \A q \in Procs : Holds(q)' <=> Holds(q)
  BY <1>1, <1>2, <1>3, <1>4 DEF Holds
<1>6. TypeOK'
  BY <1>2, <1>4 DEF IndInv, TypeOK
<1>7. LockedExact' /\ MutualExclusion'
  BY <1>5 DEF IndInv, LockedExact, MutualExclusion
<1>8. QueueOK'
  BY <1>2, <1>4 DEF IndInv, QueueOK
<1>9. sem[p] = 0 /\ \A q \in Procs : handoff[q] # p
  BY <1>1 DEF IndInv, HandoffOK, NoStrayPost, TypeOK
<1>10. HandoffOK'
  BY <1>1, <1>2, <1>4, <1>9 DEF IndInv, HandoffOK
<1>11. NoStrayPost' /\ WakeupInFlight'
  BY <1>1, <1>2, <1>4, <1>9 DEF IndInv, NoStrayPost, WakeupInFlight
<1>12. QED
  BY <1>3, <1>5, <1>6, <1>7, <1>8, <1>10, <1>11 DEF IndInv

(* A posted sleeper wakes as the owner. *)
LEMMA BlockStep ==
  ASSUME IndInv, NEW p \in Procs, Block(p, "osblock", "in")
  PROVE  /\ IndInv'
         /\ \A q \in Procs : Holds(q)' <=> Holds(q)
<1>1. /\ pc \in [Procs -> Labels] /\ sem \in [Procs -> Nat]
      /\ pc[p] = "osblock" /\ pc' = [pc EXCEPT ![p] = "in"]
      /\ sem[p] > 0 /\ sem' = [sem EXCEPT ![p] = sem[p] - 1]
      /\ UNCHANGED <<use, locked, waitq, handoff>>
  BY DEF IndInv, TypeOK, Goto, Block
<1>2. /\ pc' \in [Procs -> Labels]
      /\ pc'[p] = "in" /\ \A q \in Procs : q # p => pc'[q] = pc[q]
  BY <1>1 DEF Labels
<1>3. sem[p] = 1 /\ ~Queued(p) /\ \A q \in Procs : handoff[q] # p
  BY <1>1 DEF IndInv, NoStrayPost, HandoffOK
<1>4. /\ sem' \in [Procs -> Nat]
      /\ sem'[p] = 0 /\ \A q \in Procs : q # p => sem'[q] = sem[q]
  BY <1>1, <1>3
<1>5. \A q \in Procs : Queued(q)' <=> Queued(q)
  BY <1>1 DEF Queued
<1>6. \A q \in Procs : Holds(q)' <=> Holds(q)
  BY <1>1, <1>2, <1>3, <1>5 DEF Holds
<1>7. TypeOK'
  BY <1>1, <1>2, <1>4 DEF IndInv, TypeOK
<1>8. UseExact'
  BY <1>1, <1>2 DEF IndInv, UseExact
<1>9. LockedExact' /\ MutualExclusion'
  BY <1>1, <1>6 DEF IndInv, LockedExact, MutualExclusion
<1>10. QueueOK'
  BY <1>1, <1>2, <1>3, <1>5 DEF IndInv, QueueOK, QueuedOnce
<1>11. HandoffOK'
  BY <1>1, <1>2, <1>3, <1>4, <1>5 DEF IndInv, HandoffOK
<1>12. NoStrayPost' /\ WakeupInFlight'
  BY <1>1, <1>2, <1>3, <1>4, <1>5 DEF IndInv, NoStrayPost, WakeupInFlight
<1>13. QED
  BY <1>6, <1>7, <1>8, <1>9, <1>10, <1>11, <1>12 DEF IndInv

(* The owner passes the lock to the head of the list. *)
LEMMA PassStep ==
  ASSUME IndInv, NEW p \in Procs, Goto(p, "qunlock_use", "osready"),
         waitq # <<>>, handoff' = [handoff EXCEPT ![p] = Head(waitq)],
         waitq' = Tail(waitq), use' = NoProc, UseExact',
         UNCHANGED <<locked, sem>>
  PROVE  /\ IndInv'
         /\ \A q \in Procs : Holds(q) <=> q = p
         /\ \A q \in Procs : Holds(q)' <=> q = Head(waitq)
<1> DEFINE h == Head(waitq)
<1>1. /\ pc \in [Procs -> Labels] /\ waitq \in Seq(Procs)
      /\ handoff \in [Procs -> Procs \cup {NoProc}]
      /\ pc[p] = "qunlock_use" /\ pc' = [pc EXCEPT ![p] = "osready"]
  BY DEF IndInv, TypeOK, Goto
<1>2. /\ pc' \in [Procs -> Labels]
      /\ pc'[p] = "osready" /\ \A q \in Procs : q # p => pc'[q] = pc[q]
  BY <1>1 DEF Labels
<1>3. /\ waitq' \in Seq(Procs) /\ h \in Procs /\ Queued(h) /\ QueuedOnce'
      /\ \A q \in Procs : Queued(q)' <=> (Queued(q) /\ q # h)
  BY <1>1, TakeWaiter DEF IndInv, QueueOK
<1>4. pc[h] = "osblock" /\ h # p /\ sem[h] = 0 /\ \A q \in Procs : handoff[q] # h
  BY <1>1, <1>3 DEF IndInv, QueueOK, NoStrayPost, HandoffOK, TypeOK
<1>5. /\ handoff' \in [Procs -> Procs \cup {NoProc}]
      /\ handoff'[p] = h /\ \A q \in Procs : q # p => handoff'[q] = handoff[q]
  BY <1>1, <1>3
<1>6. \A q \in Procs : Holds(q) <=> q = p
  BY <1>1 DEF IndInv, MutualExclusion, Holds
<1>7. \A q \in Procs : Holds(q)' <=> q = h
  BY <1>1, <1>2, <1>3, <1>4, <1>6 DEF Holds
<1>8. TypeOK'
  BY <1>2, <1>3, <1>5 DEF IndInv, TypeOK
<1>9. LockedExact' /\ MutualExclusion'
  BY <1>3, <1>6, <1>7 DEF IndInv, LockedExact, MutualExclusion
<1>10. QueueOK'
  BY <1>1, <1>2, <1>3, <1>4 DEF IndInv, QueueOK
<1>11. HandoffOK'
  BY <1>1, <1>2, <1>3, <1>4, <1>5, NoProcAssumption DEF IndInv, HandoffOK
<1>12. NoStrayPost'
  BY <1>1, <1>2, <1>3, <1>4 DEF IndInv, NoStrayPost
<1>13. WakeupInFlight'
  BY <1>1, <1>2, <1>3, <1>4, <1>5, NoProcAssumption DEF IndInv, WakeupInFlight, HandoffOK
<1>14. QED
  BY <1>6, <1>7, <1>8, <1>9, <1>10, <1>11, <1>12, <1>13 DEF IndInv

(* The owner frees the lock: nobody waits for it. *)
LEMMA FreeStep ==
  ASSUME IndInv, NEW p \in Procs, Goto(p, "qunlock_use", "out"),
         locked' = FALSE, use' = NoProc, UseExact',
         UNCHANGED <<waitq, handoff, sem>>
  PROVE  /\ IndInv'
         /\ \A q \in Procs : Holds(q) <=> q = p
         /\ \A q \in Procs : ~Holds(q)'
<1>1. /\ pc \in [Procs -> Labels]
      /\ pc[p] = "qunlock_use" /\ pc' = [pc EXCEPT ![p] = "out"]
  BY DEF IndInv, TypeOK, Goto
<1>2. /\ pc' \in [Procs -> Labels]
      /\ pc'[p] = "out" /\ \A q \in Procs : q # p => pc'[q] = pc[q]
  BY <1>1 DEF Labels
<1>3. \A q \in Procs : Queued(q)' <=> Queued(q)
  BY DEF Queued
<1>4. \A q \in Procs : (pc'[q] = "osblock" <=> pc[q] = "osblock")
                       /\ (pc'[q] = "osready" <=> pc[q] = "osready")
  BY <1>1, <1>2
<1>5. \A q \in Procs : Holds(q) <=> q = p
  BY <1>1 DEF IndInv, MutualExclusion, Holds
<1>6. \A q \in Procs : ~Holds(q)'
  BY <1>1, <1>2, <1>3, <1>5 DEF Holds
<1>7. TypeOK'
  BY <1>2 DEF IndInv, TypeOK
<1>8. LockedExact' /\ MutualExclusion'
  BY <1>6, Zenon DEF LockedExact, MutualExclusion
<1>9. QueueOK'
  BY <1>3, <1>4 DEF IndInv, QueueOK, QueuedOnce
<1>10. HandoffOK'
  BY <1>3, <1>4 DEF IndInv, HandoffOK
<1>11. NoStrayPost' /\ WakeupInFlight'
  BY <1>3, <1>4 DEF IndInv, NoStrayPost, WakeupInFlight
<1>12. QED
  BY <1>5, <1>6, <1>7, <1>8, <1>9, <1>10, <1>11 DEF IndInv

(* The former owner posts the semaphore of the process it passed the lock to. *)
LEMMA ReadyStep ==
  ASSUME IndInv, NEW p \in Procs, Ready(p, "osready", "out")
  PROVE  /\ IndInv'
         /\ \A q \in Procs : Holds(q)' <=> Holds(q)
<1> DEFINE h == handoff[p]
<1>1. /\ pc \in [Procs -> Labels] /\ sem \in [Procs -> Nat]
      /\ handoff \in [Procs -> Procs \cup {NoProc}]
      /\ pc[p] = "osready" /\ pc' = [pc EXCEPT ![p] = "out"]
      /\ sem' = [sem EXCEPT ![h] = sem[h] + 1]
      /\ handoff' = [handoff EXCEPT ![p] = NoProc]
      /\ UNCHANGED <<use, locked, waitq>>
  BY DEF IndInv, TypeOK, Goto, Ready
<1>2. /\ pc' \in [Procs -> Labels]
      /\ pc'[p] = "out" /\ \A q \in Procs : q # p => pc'[q] = pc[q]
  BY <1>1 DEF Labels
<1>3. /\ h \in Procs /\ h # p
      /\ pc[h] = "osblock" /\ ~Queued(h) /\ sem[h] = 0
      /\ \A q \in Procs : handoff[q] = h => q = p
  BY <1>1 DEF IndInv, HandoffOK
<1>4. /\ sem' \in [Procs -> Nat]
      /\ sem'[h] = 1 /\ \A q \in Procs : q # h => sem'[q] = sem[q]
  BY <1>1, <1>3
<1>5. /\ handoff' \in [Procs -> Procs \cup {NoProc}]
      /\ handoff'[p] = NoProc /\ \A q \in Procs : q # p => handoff'[q] = handoff[q]
  BY <1>1
<1>6. \A q \in Procs : Queued(q)' <=> Queued(q)
  BY <1>1 DEF Queued
<1>7. \A q \in Procs : pc'[q] = "osblock" <=> pc[q] = "osblock"
  BY <1>1, <1>2
<1>8. \A q \in Procs : Holds(q)' <=> Holds(q)
  BY <1>1, <1>2, <1>6 DEF Holds
<1>9. TypeOK'
  BY <1>1, <1>2, <1>4, <1>5 DEF IndInv, TypeOK
<1>10. UseExact'
  BY <1>1, <1>2 DEF IndInv, UseExact
<1>11. LockedExact' /\ MutualExclusion'
  BY <1>1, <1>8 DEF IndInv, LockedExact, MutualExclusion
<1>12. QueueOK'
  BY <1>1, <1>6, <1>7 DEF IndInv, QueueOK, QueuedOnce
<1>13. HandoffOK'
  BY <1>1, <1>2, <1>3, <1>4, <1>5, <1>6, <1>7, NoProcAssumption DEF IndInv, HandoffOK
<1>14. NoStrayPost'
  BY <1>3, <1>4, <1>6, <1>7 DEF IndInv, NoStrayPost
<1>15. WakeupInFlight'
  BY <1>1, <1>3, <1>4, <1>5, <1>6, <1>7, NoProcAssumption DEF IndInv, WakeupInFlight
<1>16. QED
  BY <1>8, <1>9, <1>10, <1>11, <1>12, <1>13, <1>14, <1>15 DEF IndInv
----------------------------------------------------------------------------
UseLabels == {"qlock_use", "canqlock_use", "qunlock_use"}

(* A process enters, or leaves, the spin lock. *)
LEMMA EnterUse ==
  ASSUME IndInv, NEW p \in Procs, NEW from, NEW to \in UseLabels, Goto(p, from, to),
         use = NoProc, use' = p
  PROVE  UseExact'
  BY NoProcAssumption DEF IndInv, UseExact, TypeOK, Goto, UseLabels

LEMMA LeaveUse ==
  ASSUME IndInv, NEW p \in Procs, NEW from, NEW to, to \notin UseLabels,
         Goto(p, from, to), use = p, use' = NoProc
  PROVE  UseExact'
  BY NoProcAssumption DEF IndInv, UseExact, TypeOK, Goto, UseLabels

(* The change of owner and list that each kind of step makes. *)
NoChange == waitq' = waitq /\ \A q \in Procs : Holds(q)' <=> Holds(q)
Takes(p) == /\ waitq' = waitq
            /\ \A q \in Procs : ~Holds(q)
            /\ \A q \in Procs : Holds(q)' <=> q = p
Joins(p) == /\ waitq' = Append(waitq, p)
            /\ ~Holds(p) /\ \E q \in Procs : Holds(q)
            /\ \A q \in Procs : Holds(q)' <=> Holds(q)
Passes(p) == /\ waitq # <<>> /\ waitq' = Tail(waitq)
             /\ \A q \in Procs : Holds(q) <=> q = p
             /\ \A q \in Procs : Holds(q)' <=> q = Head(waitq)
Frees(p) == /\ waitq = <<>> /\ waitq' = waitq
            /\ \A q \in Procs : Holds(q) <=> q = p
            /\ \A q \in Procs : ~Holds(q)'
Effect(p) == NoChange \/ Takes(p) \/ Joins(p) \/ Passes(p) \/ Frees(p)

(* Quiet steps change neither the owner nor the list. *)
LEMMA QuietNoChange ==
  ASSUME IndInv, NEW p \in Procs, NEW from, NEW to, Goto(p, from, to),
         \/ from \in OwnerLabels /\ to \in OwnerLabels
         \/ from \in OtherLabels /\ to \in OtherLabels,
         UNCHANGED waitq
  PROVE  NoChange
  BY DEF IndInv, TypeOK, Goto, OwnerLabels, OtherLabels, NoChange, Holds, Queued

(* The client's calls. *)
LEMMA CallOK ==
  ASSUME IndInv, NEW p \in Procs, Call(p)
  PROVE  IndInv' /\ Effect(p)
<1> USE DEF OwnerLabels, OtherLabels
<1>1. UNCHANGED <<use, locked, waitq, handoff, sem>>
  BY DEF Call
<1>2. PICK from, to :
        /\ Goto(p, from, to)
        /\ \/ from \in OwnerLabels /\ to \in OwnerLabels
           \/ from \in OtherLabels /\ to \in OtherLabels
        /\ from \notin UseLabels /\ to \notin UseLabels
  BY DEF Call, UseLabels
<1>3. UseExact'
  BY <1>1, <1>2 DEF IndInv, UseExact, TypeOK, Goto, UseLabels
<1>4. use' \in Procs \cup {NoProc}
  BY <1>1 DEF IndInv, TypeOK
<1>5. IndInv'
  BY <1>1, <1>2, <1>3, <1>4, QuietStep
<1>6. NoChange
  BY <1>1, <1>2, QuietNoChange
<1>7. QED
  BY <1>5, <1>6 DEF Effect

(* Entering the spin lock, from qlock, from canqlock or from qunlock. *)
LEMMA EnterOK ==
  ASSUME IndInv, NEW p \in Procs, NEW from, NEW to \in UseLabels, Goto(p, from, to),
         \/ from \in OwnerLabels /\ to \in OwnerLabels
         \/ from \in OtherLabels /\ to \in OtherLabels,
         use = NoProc, use' = p, UNCHANGED <<locked, waitq, handoff, sem>>
  PROVE  IndInv' /\ Effect(p)
<1>1. UseExact' /\ use' \in Procs \cup {NoProc}
  BY EnterUse
<1>2. IndInv'
  BY <1>1, QuietStep
<1>3. NoChange
  BY QuietNoChange
<1>4. QED
  BY <1>2, <1>3 DEF Effect

(* qlock. *)
LEMMA qlockOK ==
  ASSUME IndInv, NEW p \in Procs, qlock(p)
  PROVE  IndInv' /\ Effect(p)
<1>1. CASE LockUse(p, "qlock", "qlock_use")
  BY <1>1, EnterOK DEF LockUse, OtherLabels, UseLabels
<1>2. CASE TakeOrEnqueue(p, "qlock_use", "in", "osblock")
  <2>1. use = p /\ use' = NoProc /\ UNCHANGED <<handoff, sem>>
    BY <1>2 DEF TakeOrEnqueue
  <2>2. CASE ~locked /\ locked' = TRUE /\ Goto(p, "qlock_use", "in") /\ UNCHANGED waitq
    <3>1. UseExact'
      BY <2>1, <2>2, LeaveUse DEF UseLabels
    <3>2. IndInv'
      BY <2>1, <2>2, <3>1, TakeStep DEF OtherLabels
    <3>3. Takes(p)
      <4>1. \A q \in Procs : ~Holds(q)
        BY <2>2 DEF IndInv, LockedExact
      <4>2. Holds(p)'
        BY <2>2 DEF IndInv, TypeOK, Goto, Holds
      <4>3. QED
        BY <2>2, <3>2, <4>1, <4>2 DEF Takes, IndInv, MutualExclusion
    <3>4. QED
      BY <3>2, <3>3 DEF Effect
  <2>3. CASE locked /\ waitq' = Append(waitq, p) /\ Goto(p, "qlock_use", "osblock")
             /\ UNCHANGED locked
    <3>1. UseExact'
      BY <2>1, <2>3, LeaveUse DEF UseLabels
    <3>2. IndInv' /\ ~Holds(p) /\ \A q \in Procs : Holds(q)' <=> Holds(q)
      BY <2>1, <2>3, <3>1, EnqueueStep
    <3>3. \E q \in Procs : Holds(q)
      BY <2>3 DEF IndInv, LockedExact
    <3>4. QED
      BY <2>3, <3>2, <3>3 DEF Effect, Joins
  <2>4. QED
    BY <1>2, <2>2, <2>3 DEF TakeOrEnqueue
<1>3. CASE Block(p, "osblock", "in")
  BY <1>3, BlockStep DEF Effect, NoChange, Block
<1>4. QED
  BY <1>1, <1>2, <1>3 DEF qlock

(* canqlock. *)
LEMMA canqlockOK ==
  ASSUME IndInv, NEW p \in Procs, canqlock(p)
  PROVE  IndInv' /\ Effect(p)
<1> USE DEF OtherLabels, UseLabels
<1>1. CASE CanLockUse(p, "canqlock", "canqlock_use", "out")
  <2>1. UNCHANGED <<locked, waitq, handoff, sem>>
    BY <1>1 DEF CanLockUse
  <2>2. CASE use = NoProc /\ use' = p /\ Goto(p, "canqlock", "canqlock_use")
    BY <2>1, <2>2, EnterOK
  <2>3. CASE use' = use /\ Goto(p, "canqlock", "out")
    <3>1. UseExact' /\ use' \in Procs \cup {NoProc}
      BY <2>3 DEF IndInv, UseExact, TypeOK, Goto
    <3>2. IndInv'
      BY <2>1, <2>3, <3>1, QuietStep
    <3>3. NoChange
      BY <2>1, <2>3, QuietNoChange
    <3>4. QED
      BY <3>2, <3>3 DEF Effect
  <2>4. QED
    BY <1>1, <2>2, <2>3 DEF CanLockUse
<1>2. CASE TakeOrFail(p, "canqlock_use", "in", "out")
  <2>1. use = p /\ use' = NoProc /\ locked' = TRUE /\ UNCHANGED <<waitq, handoff, sem>>
    BY <1>2 DEF TakeOrFail
  <2>2. CASE ~locked /\ Goto(p, "canqlock_use", "in")
    <3>1. UseExact'
      BY <2>1, <2>2, LeaveUse
    <3>2. IndInv'
      BY <2>1, <2>2, <3>1, TakeStep
    <3>3. Takes(p)
      <4>1. \A q \in Procs : ~Holds(q)
        BY <2>2 DEF IndInv, LockedExact
      <4>2. Holds(p)'
        BY <2>2 DEF IndInv, TypeOK, Goto, Holds
      <4>3. QED
        BY <2>1, <3>2, <4>1, <4>2 DEF Takes, IndInv, MutualExclusion
    <3>4. QED
      BY <3>2, <3>3 DEF Effect
  <2>3. CASE locked /\ Goto(p, "canqlock_use", "out")
    <3>1. UseExact' /\ use' \in Procs \cup {NoProc}
      BY <2>1, <2>3, LeaveUse
    <3>2. locked' = locked
      BY <2>1, <2>3, Zenon DEF IndInv, TypeOK
    <3>3. IndInv'
      BY <2>1, <2>3, <3>1, <3>2, QuietStep
    <3>4. NoChange
      BY <2>1, <2>3, QuietNoChange
    <3>5. QED
      BY <3>3, <3>4 DEF Effect
  <2>4. QED
    BY <1>2, <2>2, <2>3 DEF TakeOrFail
<1>3. QED
  BY <1>1, <1>2 DEF canqlock

(* qunlock. *)
LEMMA qunlockOK ==
  ASSUME IndInv, NEW p \in Procs, qunlock(p)
  PROVE  IndInv' /\ Effect(p)
<1>1. CASE LockUse(p, "qunlock", "qunlock_use")
  BY <1>1, EnterOK DEF LockUse, OwnerLabels, UseLabels
<1>2. CASE PassOrFree(p, "qunlock_use", "osready", "out")
  <2>1. use = p /\ use' = NoProc /\ UNCHANGED sem
    BY <1>2 DEF PassOrFree
  <2>2. CASE /\ waitq # <<>> /\ handoff' = [handoff EXCEPT ![p] = Head(waitq)]
             /\ waitq' = Tail(waitq) /\ Goto(p, "qunlock_use", "osready")
             /\ UNCHANGED locked
    <3>1. UseExact'
      BY <2>1, <2>2, LeaveUse DEF UseLabels
    <3>2. QED
      BY <2>1, <2>2, <3>1, PassStep DEF Effect, Passes
  <2>3. CASE /\ waitq = <<>> /\ locked' = FALSE /\ Goto(p, "qunlock_use", "out")
             /\ UNCHANGED <<waitq, handoff>>
    <3>1. UseExact'
      BY <2>1, <2>3, LeaveUse DEF UseLabels
    <3>2. QED
      BY <2>1, <2>3, <3>1, FreeStep DEF Effect, Frees
  <2>4. QED
    BY <1>2, <2>2, <2>3 DEF PassOrFree
<1>3. CASE Ready(p, "osready", "out")
  BY <1>3, ReadyStep DEF Effect, NoChange, Ready
<1>4. QED
  BY <1>1, <1>2, <1>3 DEF qunlock

(* A step of the lock that changes nothing. *)
LEMMA StutterOK ==
  ASSUME IndInv, UNCHANGED vars
  PROVE  IndInv' /\ NoChange
<1>1. \A q \in Procs : (Queued(q)' <=> Queued(q)) /\ (Holds(q)' <=> Holds(q))
  BY DEF vars, Queued, Holds
<1>2. TypeOK' /\ UseExact' /\ QueueOK' /\ HandoffOK'
  BY <1>1 DEF vars, IndInv, TypeOK, UseExact, QueueOK, QueuedOnce, HandoffOK
<1>3. LockedExact' /\ MutualExclusion' /\ NoStrayPost' /\ WakeupInFlight'
  BY <1>1 DEF vars, IndInv, LockedExact, MutualExclusion, NoStrayPost, WakeupInFlight
<1>4. QED
  BY <1>1, <1>2, <1>3 DEF IndInv, NoChange, vars

(* Every step keeps the invariant and has one of the five effects. *)
LEMMA NextOK ==
  ASSUME IndInv, [Next]_vars
  PROVE  IndInv' /\ (NoChange \/ \E p \in Procs : Effect(p))
<1>1. CASE UNCHANGED vars
  BY <1>1, StutterOK
<1>2. CASE Next
  <2>1. PICK p \in Procs : Call(p) \/ qlock(p) \/ canqlock(p) \/ qunlock(p)
    BY <1>2 DEF Next
  <2>2. IndInv' /\ Effect(p)
    BY <2>1, CallOK, qlockOK, canqlockOK, qunlockOK
  <2>3. QED
    BY <2>2
<1>3. QED
  BY <1>1, <1>2
----------------------------------------------------------------------------
(* IndInv holds in every reachable state of the lock, for any processes. *)
THEOREM Invariance == Spec => []IndInv
<1>1. Init => IndInv
  BY InitIndInv
<1>2. IndInv /\ [Next]_vars => IndInv'
  BY NextOK
<1>3. QED
  BY <1>1, <1>2, PTL DEF Spec

(* Every variable of the lock keeps its type. *)
THEOREM TypeCorrect == Spec => []TypeOK
<1>1. IndInv => TypeOK
  BY DEF IndInv
<1>2. QED
  BY <1>1, Invariance, PTL

(***************************************************************************)
(* qlock, canqlock and qunlock keep at most one owner, the sleeper that    *)
(* has been passed the lock included, for any number of processes.         *)
(***************************************************************************)
THEOREM Exclusion == Spec => []MutualExclusion
<1>1. IndInv => MutualExclusion
  BY DEF IndInv
<1>2. QED
  BY <1>1, Invariance, PTL

(***************************************************************************)
(* osready posts only the owner that still sleeps, and at most once, so no *)
(* post is left for a later osblock of the same process.                   *)
(***************************************************************************)
THEOREM PostsExact == Spec => []NoStrayPost
<1>1. IndInv => NoStrayPost
  BY DEF IndInv
<1>2. QED
  BY <1>1, Invariance, PTL

(* A sleeper that qunlock has passed the lock to has its post or will get it. *)
THEOREM WakeupExact == Spec => []WakeupInFlight
<1>1. IndInv => WakeupInFlight
  BY DEF IndInv
<1>2. QED
  BY <1>1, Invariance, PTL

(***************************************************************************)
(* Each hand-over of qunlock posts one semaphore once, for one osblock,    *)
(* and the state of the lock keeps its type.                               *)
(***************************************************************************)
THEOREM HandoffsExact == Spec => []PostsMatchHandoffs
<1>1. IndInv => PostsMatchHandoffs
  BY DEF IndInv, PostsMatchHandoffs
<1>2. QED
  BY <1>1, Invariance, PTL

(* Each effect of a step is a step of the abstract lock, or none. *)
LEMMA EffectRefines ==
  ASSUME NEW p \in Procs, Effect(p), waitq \in Seq(Procs)
  PROVE  Abstract!Next \/ UNCHANGED <<holders, waitq>>
<1>1. CASE NoChange
  BY <1>1 DEF NoChange, holders
<1>2. CASE Takes(p)
  <2>1. holders = {} /\ holders' = {p} /\ waitq' = waitq
    BY <1>2 DEF Takes, holders
  <2>2. QED
    BY <2>1 DEF Abstract!Next, Abstract!Acquire
<1>3. CASE Joins(p)
  <2>1. holders # {} /\ p \notin holders /\ holders' = holders
    BY <1>3 DEF Joins, holders
  <2>2. QED
    BY <1>3, <2>1 DEF Joins, Abstract!Next, Abstract!Enqueue
<1>4. CASE Passes(p)
  <2>0. Head(waitq) \in Procs
    BY <1>4 DEF Passes
  <2>1. holders = {p} /\ holders' = {Head(waitq)}
    BY <1>4, <2>0 DEF Passes, holders
  <2>2. QED
    BY <1>4, <2>1 DEF Passes, Abstract!Next, Abstract!Release
<1>5. CASE Frees(p)
  <2>1. holders = {p} /\ holders' = {}
    BY <1>5 DEF Frees, holders
  <2>2. QED
    BY <1>5, <2>1 DEF Frees, Abstract!Next, Abstract!Release
<1>6. QED
  BY <1>1, <1>2, <1>3, <1>4, <1>5 DEF Effect

(***************************************************************************)
(* The lock of lock.c implements FifoMutex: one owner, waiters served in   *)
(* the order in which they joined the list, hand-over without a gap.       *)
(***************************************************************************)
THEOREM Refinement == Spec => RefinesFifoMutex
<1>1. Init => Abstract!Init
  BY DEF Init, Abstract!Init, holders, Holds
<1>2. IndInv /\ [Next]_vars => [Abstract!Next]_<<holders, waitq>>
  <2>1. SUFFICES ASSUME IndInv, [Next]_vars
                 PROVE  Abstract!Next \/ UNCHANGED <<holders, waitq>>
    OBVIOUS
  <2>2. CASE NoChange
    BY <2>2 DEF NoChange, holders
  <2>3. ASSUME NEW p \in Procs, Effect(p)
        PROVE  Abstract!Next \/ UNCHANGED <<holders, waitq>>
    BY <2>1, <2>3, EffectRefines DEF IndInv, TypeOK
  <2>4. QED
    BY <2>1, <2>2, <2>3, NextOK
<1>3. QED
  BY <1>1, <1>2, Invariance, PTL DEF Spec, RefinesFifoMutex, Abstract!Spec
============================================================================
