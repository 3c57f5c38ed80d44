---------------------------- MODULE RendezProofs ----------------------------
(***************************************************************************)
(* Proofs about Rendez, for any numbers of sleepers, wakers, interrupters  *)
(* and rendezvous: one post for each sleep, no double sleep, one order of  *)
(* the locks.                                                              *)
(***************************************************************************)
EXTENDS Rendez, TLAPS

(***************************************************************************)
(* The inductive invariant.  A thread's label says which call it is in and *)
(* what the call is about.                                                 *)
(***************************************************************************)
LabelsOK ==
  /\ \A p \in Sleepers :
       /\ pc[p] \in SleepLabels \cup {"work", "awake", "eintr"}
       /\ arg[p] \in Rendezvous \cup {None}
       /\ arg[p] = None <=> pc[p] = "work"
  /\ \A w \in Wakers :
       /\ pc[w] \in {"work", "lock_r", "wake"}
       /\ pc[w] # "work" => arg[w] \in Rendezvous
  /\ \A i \in Interrupters :
       /\ pc[i] \in {"work", "swi_lock_p", "swi_lock_r", "swi_pull", "swi_sysio"}
       /\ pc[i] # "work" => arg[i] \in Sleepers

(* One process at a time uses a Rendez: the QLock of Sleep's callers. *)
CallersApart ==
  \A p, q \in Sleepers : arg[p] = arg[q] /\ arg[p] # None => p = q

(* Who is inside p->rlock: p in Sleep, or the swiproc that pulls p out. *)
HasRlock(t, p) ==
  \/ t = p /\ pc[t] \in {"lock_r", "test", "register", "check"}
  \/ t \in Interrupters /\ pc[t] \in {"swi_lock_r", "swi_pull"} /\ arg[t] = p
RlockExact ==
  \A p \in Sleepers, t \in Threads : rlock[p] = t <=> HasRlock(t, p)

(* Who is inside r->l. *)
HasRl(t, r) ==
  \/ t \in Sleepers /\ pc[t] = "test" /\ arg[t] = r
  \/ t \in Wakers /\ pc[t] = "wake" /\ arg[t] = r
  \/ t \in Interrupters /\ pc[t] = "swi_pull" /\ pr[arg[t]] = r
RlExact ==
  \A r \in Rendezvous, t \in Threads : rl[r] = t <=> HasRl(t, r)

(* p->r is set while p blocks, and stays so for the swiproc that saw it. *)
PrExact ==
  /\ \A p \in Sleepers :
       pr[p] = IF pc[p] \in {"osblock", "relock"} THEN arg[p] ELSE None
  /\ \A i \in Interrupters :
       pc[i] \in {"swi_lock_r", "swi_pull"} => pr[arg[i]] # None

(* Who is on a Rendez is asleep on it. *)
RpExact ==
  \A r \in Rendezvous, p \in Sleepers : rp[r] = p => Asleep(p) /\ arg[p] = r

IndInv == /\ TypeOK /\ LabelsOK /\ CallersApart /\ RlockExact /\ RlExact
          /\ PrExact /\ RpExact /\ OnePostPerSleep

(* Setting a flag of a process leaves a function to the Booleans. *)
LEMMA FlagSet ==
  ASSUME NEW S, NEW f \in [S -> BOOLEAN], NEW x, NEW b \in BOOLEAN
  PROVE  [f EXCEPT ![x] = b] \in [S -> BOOLEAN]
  BY Zenon

(* The caller's QLock keeps others from r. *)
LEMMA CallSleepOK ==
  ASSUME IndInv, NEW p \in Sleepers, NEW r \in Rendezvous, CallSleep(p, r)
  PROVE  IndInv'
<1> USE DEF IndInv, CallSleep, Goto, flags
<1>1. TypeOK'
  BY DEF TypeOK, Labels, SleepLabels, Threads, LabelsOK
<1>2. LabelsOK'
  BY ThreadsAssumption DEF LabelsOK, SleepLabels, TypeOK, Labels, Threads
<1>3. CallersApart'
  BY DEF CallersApart, TypeOK, Labels, SleepLabels, Threads, LabelsOK
<1>4. RlockExact'
  BY DEF RlockExact, HasRlock, Threads, TypeOK, Labels, SleepLabels, LabelsOK
<1>5. RlExact'
  BY DEF RlExact, HasRl, Threads, TypeOK, Labels, SleepLabels, LabelsOK
<1>6. PrExact'
  BY DEF PrExact, TypeOK, Labels, SleepLabels, Threads, LabelsOK
<1>7. RpExact'
  BY DEF RpExact, Asleep, TypeOK, Labels, SleepLabels, Threads, LabelsOK
<1>8. OnePostPerSleep'
  BY DEF OnePostPerSleep, Asleep, TypeOK, Labels, SleepLabels, Threads,
    LabelsOK
<1>9. QED
  BY <1>1, <1>2, <1>3, <1>4, <1>5, <1>6, <1>7, <1>8

(* lock(&p->rlock): no swiproc is inside. *)
LEMMA SleepLockPOK ==
  ASSUME IndInv, NEW p \in Sleepers, SleepLockP(p)
  PROVE  IndInv'
<1> USE DEF IndInv, SleepLockP, Goto, flags
<1>1. TypeOK'
  BY DEF TypeOK, Labels, SleepLabels, Threads, LabelsOK
<1>2. LabelsOK'
  BY DEF LabelsOK, SleepLabels, TypeOK, Labels, Threads
<1>3. CallersApart'
  BY DEF CallersApart, TypeOK, Labels, SleepLabels, Threads, LabelsOK
<1>4. RlockExact'
  BY ThreadsAssumption DEF RlockExact, HasRlock, Threads, TypeOK, Labels,
    SleepLabels, LabelsOK
<1>5. RlExact'
  BY DEF RlExact, HasRl, Threads, TypeOK, Labels, SleepLabels, LabelsOK
<1>6. PrExact'
  BY DEF PrExact, TypeOK, Labels, SleepLabels, Threads, LabelsOK
<1>7. RpExact'
  BY DEF RpExact, Asleep, TypeOK, Labels, SleepLabels, Threads, LabelsOK
<1>8. OnePostPerSleep'
  BY DEF OnePostPerSleep, Asleep, TypeOK, Labels, SleepLabels, Threads,
    LabelsOK
<1>9. QED
  BY <1>1, <1>2, <1>3, <1>4, <1>5, <1>6, <1>7, <1>8

(* lock(&r->l): neither Wakeup nor swiproc is inside. *)
LEMMA SleepLockROK ==
  ASSUME IndInv, NEW p \in Sleepers, SleepLockR(p)
  PROVE  IndInv'
<1> USE DEF IndInv, SleepLockR, Goto, flags
<1>1. TypeOK'
  BY DEF TypeOK, Labels, SleepLabels, Threads, LabelsOK
<1>2. LabelsOK'
  BY ThreadsAssumption DEF LabelsOK, SleepLabels, TypeOK, Labels, Threads
<1>3. CallersApart'
  BY DEF CallersApart, TypeOK, Labels, SleepLabels, Threads, LabelsOK
<1>4. RlockExact'
  BY DEF RlockExact, HasRlock, Threads, TypeOK, Labels, SleepLabels, LabelsOK
<1>5. RlExact'
  BY ThreadsAssumption DEF RlExact, HasRl, Threads, TypeOK, Labels,
    SleepLabels, LabelsOK
<1>6. PrExact'
  BY DEF PrExact, TypeOK, Labels, SleepLabels, Threads, LabelsOK
<1>7. RpExact'
  BY DEF RpExact, Asleep, TypeOK, Labels, SleepLabels, Threads, LabelsOK
<1>8. OnePostPerSleep'
  BY DEF OnePostPerSleep, Asleep, TypeOK, Labels, SleepLabels, Threads,
    LabelsOK
<1>9. QED
  BY <1>1, <1>2, <1>3, <1>4, <1>5, <1>6, <1>7, <1>8

(* r->p was nil, since who is on r is asleep and r is p's alone. *)
LEMMA SleepTestOK ==
  ASSUME IndInv, NEW p \in Sleepers, SleepTest(p)
  PROVE  IndInv'
<1> USE DEF IndInv, SleepTest, Goto, flags
<1>1. TypeOK'
  BY DEF TypeOK, Labels, SleepLabels, Threads, LabelsOK
<1>2. LabelsOK'
  BY ThreadsAssumption DEF TypeOK, Labels, SleepLabels, Threads, LabelsOK,
    CallersApart, RlockExact, HasRlock, RlExact, HasRl, PrExact, RpExact,
    Asleep, OnePostPerSleep
<1>3. CallersApart'
  BY DEF CallersApart, TypeOK, Labels, SleepLabels, Threads, LabelsOK
<1>4. RlockExact'
  BY ThreadsAssumption DEF TypeOK, Labels, SleepLabels, Threads, LabelsOK,
    CallersApart, RlockExact, HasRlock, RlExact, HasRl, PrExact, RpExact,
    Asleep, OnePostPerSleep
<1>5. RlExact'
  BY ThreadsAssumption DEF RlExact, HasRl, Threads, TypeOK, Labels,
    SleepLabels, LabelsOK
<1>6. PrExact'
  BY DEF PrExact, TypeOK, Labels, SleepLabels, Threads, LabelsOK
<1>7. RpExact'
  BY ThreadsAssumption DEF RpExact, Asleep, TypeOK, Labels, SleepLabels,
    Threads, LabelsOK, CallersApart
<1>8. OnePostPerSleep'
  BY ThreadsAssumption DEF TypeOK, Labels, SleepLabels, Threads, LabelsOK,
    CallersApart, RlockExact, HasRlock, RlExact, HasRl, PrExact, RpExact,
    Asleep, OnePostPerSleep
<1>9. QED
  BY <1>1, <1>2, <1>3, <1>4, <1>5, <1>6, <1>7, <1>8

(* A Wakeup may have come already; r->p tells, and so does the semaphore. *)
LEMMA SleepRegisterOK ==
  ASSUME IndInv, NEW p \in Sleepers, SleepRegister(p)
  PROVE  IndInv'
<1> USE DEF IndInv, SleepRegister, Goto, flags
<1>1. TypeOK'
  BY DEF TypeOK, Labels, SleepLabels, Threads, LabelsOK
<1>2. LabelsOK'
  BY DEF LabelsOK, SleepLabels, TypeOK, Labels, Threads
<1>3. CallersApart'
  BY DEF CallersApart, TypeOK, Labels, SleepLabels, Threads, LabelsOK
<1>4. RlockExact'
  BY ThreadsAssumption DEF RlockExact, HasRlock, Threads, TypeOK, Labels,
    SleepLabels, LabelsOK
<1>5. RlExact'
  BY ThreadsAssumption DEF RlExact, HasRl, Threads, TypeOK, Labels,
    SleepLabels, LabelsOK, RlockExact, HasRlock
<1>6. PrExact'
  BY DEF PrExact, TypeOK, Labels, SleepLabels, Threads, LabelsOK
<1>7. RpExact'
  BY DEF RpExact, Asleep, TypeOK, Labels, SleepLabels, Threads, LabelsOK
<1>8. OnePostPerSleep'
  BY DEF OnePostPerSleep, Asleep, TypeOK, Labels, SleepLabels, Threads,
    LabelsOK
<1>9. QED
  BY <1>1, <1>2, <1>3, <1>4, <1>5, <1>6, <1>7, <1>8

(* The post is used up, and who posted has cleared r->p. *)
LEMMA SleepBlockOK ==
  ASSUME IndInv, NEW p \in Sleepers, SleepBlock(p)
  PROVE  IndInv'
<1> USE DEF IndInv, SleepBlock, Goto, flags
<1>1. TypeOK'
  BY DEF TypeOK, Labels, SleepLabels, Threads, LabelsOK
<1>2. LabelsOK'
  BY DEF LabelsOK, SleepLabels, TypeOK, Labels, Threads
<1>3. CallersApart'
  BY DEF CallersApart, TypeOK, Labels, SleepLabels, Threads, LabelsOK
<1>4. RlockExact'
  BY DEF RlockExact, HasRlock, Threads, TypeOK, Labels, SleepLabels, LabelsOK
<1>5. RlExact'
  BY DEF RlExact, HasRl, Threads, TypeOK, Labels, SleepLabels, LabelsOK
<1>6. PrExact'
  BY DEF PrExact, TypeOK, Labels, SleepLabels, Threads, LabelsOK
<1>7. RpExact'
  BY ThreadsAssumption DEF RpExact, Asleep, TypeOK, Labels, SleepLabels,
    Threads, LabelsOK, OnePostPerSleep
<1>8. OnePostPerSleep'
  BY ThreadsAssumption DEF OnePostPerSleep, Asleep, TypeOK, Labels,
    SleepLabels, Threads, LabelsOK, RpExact
<1>9. QED
  BY <1>1, <1>2, <1>3, <1>4, <1>5, <1>6, <1>7, <1>8

(* No swiproc is left that has seen p->r. *)
LEMMA SleepRelockOK ==
  ASSUME IndInv, NEW p \in Sleepers, SleepRelock(p)
  PROVE  IndInv'
<1> USE DEF IndInv, SleepRelock, Goto, flags
<1>1. TypeOK'
  BY DEF TypeOK, Labels, SleepLabels, Threads, LabelsOK
<1>2. LabelsOK'
  BY DEF LabelsOK, SleepLabels, TypeOK, Labels, Threads
<1>3. CallersApart'
  BY DEF CallersApart, TypeOK, Labels, SleepLabels, Threads, LabelsOK
<1>4. RlockExact'
  BY ThreadsAssumption DEF RlockExact, HasRlock, Threads, TypeOK, Labels,
    SleepLabels, LabelsOK
<1>5. RlExact'
  BY ThreadsAssumption DEF RlExact, HasRl, Threads, TypeOK, Labels,
    SleepLabels, LabelsOK, RlockExact, HasRlock
<1>6. PrExact'
  BY ThreadsAssumption DEF PrExact, TypeOK, Labels, SleepLabels, Threads,
    LabelsOK, RlockExact, HasRlock
<1>7. RpExact'
  BY DEF RpExact, Asleep, TypeOK, Labels, SleepLabels, Threads, LabelsOK
<1>8. OnePostPerSleep'
  BY DEF OnePostPerSleep, Asleep, TypeOK, Labels, SleepLabels, Threads,
    LabelsOK
<1>9. QED
  BY <1>1, <1>2, <1>3, <1>4, <1>5, <1>6, <1>7, <1>8

(* Eintr, or the normal return. *)
LEMMA SleepCheckOK ==
  ASSUME IndInv, NEW p \in Sleepers, SleepCheck(p)
  PROVE  IndInv'
<1> USE DEF IndInv, SleepCheck, Goto, flags
<1>1. TypeOK'
  <2>1. killed' \in [Sleepers -> BOOLEAN]
    <3>1. killed' = [killed EXCEPT ![p] = FALSE] \/ killed' = killed
      OBVIOUS
    <3>2. QED
      BY <3>1, FlagSet, Zenon DEF TypeOK
  <2>2. swipend' \in [Sleepers -> BOOLEAN]
    <3>1. swipend' = [swipend EXCEPT ![p] = FALSE] \/ swipend' = swipend
      OBVIOUS
    <3>2. QED
      BY <3>1, FlagSet, Zenon DEF TypeOK
  <2>3. rlock' \in [Sleepers -> Threads \cup {None}] /\ pc' \in [Threads -> Labels]
    BY DEF TypeOK, LabelsOK, Labels, SleepLabels, Threads
  <2>4. QED
    BY <2>1, <2>2, <2>3 DEF TypeOK
<1>2. LabelsOK'
  BY DEF LabelsOK, SleepLabels, TypeOK, Labels, Threads
<1>3. CallersApart'
  BY DEF CallersApart, TypeOK, Labels, SleepLabels, Threads, LabelsOK
<1>4. RlockExact'
  BY ThreadsAssumption DEF RlockExact, HasRlock, Threads, TypeOK, Labels,
    SleepLabels, LabelsOK
<1>5. RlExact'
  BY DEF RlExact, HasRl, Threads, TypeOK, Labels, SleepLabels, LabelsOK
<1>6. PrExact'
  BY DEF PrExact, TypeOK, Labels, SleepLabels, Threads, LabelsOK
<1>7. RpExact'
  BY DEF RpExact, Asleep, TypeOK, Labels, SleepLabels, Threads, LabelsOK
<1>8. OnePostPerSleep'
  BY DEF OnePostPerSleep, Asleep, TypeOK, Labels, SleepLabels, Threads,
    LabelsOK
<1>9. QED
  BY <1>1, <1>2, <1>3, <1>4, <1>5, <1>6, <1>7, <1>8

(* The caller lets go of r. *)
LEMMA ReturnOK ==
  ASSUME IndInv, NEW p \in Sleepers, Return(p)
  PROVE  IndInv'
<1> USE DEF IndInv, Return, Goto, flags
<1>1. TypeOK'
  <2>1. CASE pc[p] = "awake"
    BY <2>1 DEF TypeOK, LabelsOK, Labels, SleepLabels, Threads
  <2>2. CASE pc[p] # "awake"
    BY <2>2 DEF TypeOK, LabelsOK, Labels, SleepLabels, Threads
  <2>3. QED
    BY <2>1, <2>2
<1>2. LabelsOK'
  BY DEF LabelsOK, SleepLabels, TypeOK, Labels, Threads
<1>3. CallersApart'
  BY DEF CallersApart, TypeOK, Labels, SleepLabels, Threads, LabelsOK
<1>4. RlockExact'
  BY DEF RlockExact, HasRlock, Threads, TypeOK, Labels, SleepLabels, LabelsOK
<1>5. RlExact'
  BY DEF RlExact, HasRl, Threads, TypeOK, Labels, SleepLabels, LabelsOK
<1>6. PrExact'
  BY DEF PrExact, TypeOK, Labels, SleepLabels, Threads, LabelsOK
<1>7. RpExact'
  BY DEF RpExact, Asleep, TypeOK, Labels, SleepLabels, Threads, LabelsOK
<1>8. OnePostPerSleep'
  BY DEF OnePostPerSleep, Asleep, TypeOK, Labels, SleepLabels, Threads,
    LabelsOK
<1>9. QED
  BY <1>1, <1>2, <1>3, <1>4, <1>5, <1>6, <1>7, <1>8

LEMMA osenterOK ==
  ASSUME IndInv, NEW p \in Sleepers, osenter(p)
  PROVE  IndInv'
<1> USE DEF IndInv, osenter, Goto, flags
<1>1. TypeOK'
  BY DEF TypeOK, Labels, SleepLabels, Threads, LabelsOK
<1>2. LabelsOK'
  BY DEF LabelsOK, SleepLabels, TypeOK, Labels, Threads
<1>3. CallersApart'
  BY DEF CallersApart, TypeOK, Labels, SleepLabels, Threads, LabelsOK
<1>4. RlockExact'
  BY DEF RlockExact, HasRlock, Threads, TypeOK, Labels, SleepLabels, LabelsOK
<1>5. RlExact'
  BY DEF RlExact, HasRl, Threads, TypeOK, Labels, SleepLabels, LabelsOK
<1>6. PrExact'
  BY DEF PrExact, TypeOK, Labels, SleepLabels, Threads, LabelsOK
<1>7. RpExact'
  BY DEF RpExact, Asleep, TypeOK, Labels, SleepLabels, Threads, LabelsOK
<1>8. OnePostPerSleep'
  BY DEF OnePostPerSleep, Asleep, TypeOK, Labels, SleepLabels, Threads,
    LabelsOK
<1>9. QED
  BY <1>1, <1>2, <1>3, <1>4, <1>5, <1>6, <1>7, <1>8

LEMMA osleaveOK ==
  ASSUME IndInv, NEW p \in Sleepers, osleave(p)
  PROVE  IndInv'
<1> USE DEF IndInv, osleave, Goto, flags
<1>1. TypeOK'
  BY DEF TypeOK, Labels, SleepLabels, Threads, LabelsOK
<1>2. LabelsOK'
  BY DEF LabelsOK, SleepLabels, TypeOK, Labels, Threads
<1>3. CallersApart'
  BY DEF CallersApart, TypeOK, Labels, SleepLabels, Threads, LabelsOK
<1>4. RlockExact'
  BY DEF RlockExact, HasRlock, Threads, TypeOK, Labels, SleepLabels, LabelsOK
<1>5. RlExact'
  BY DEF RlExact, HasRl, Threads, TypeOK, Labels, SleepLabels, LabelsOK
<1>6. PrExact'
  BY DEF PrExact, TypeOK, Labels, SleepLabels, Threads, LabelsOK
<1>7. RpExact'
  BY DEF RpExact, Asleep, TypeOK, Labels, SleepLabels, Threads, LabelsOK
<1>8. OnePostPerSleep'
  BY DEF OnePostPerSleep, Asleep, TypeOK, Labels, SleepLabels, Threads,
    LabelsOK
<1>9. QED
  BY <1>1, <1>2, <1>3, <1>4, <1>5, <1>6, <1>7, <1>8

LEMMA notkilledOK ==
  ASSUME IndInv, NEW p \in Sleepers, notkilled(p)
  PROVE  IndInv'
<1> USE DEF IndInv, notkilled, Goto, flags
<1>1. TypeOK'
  BY DEF TypeOK, Labels, SleepLabels, Threads, LabelsOK
<1>2. LabelsOK'
  BY DEF LabelsOK, SleepLabels, TypeOK, Labels, Threads
<1>3. CallersApart'
  BY DEF CallersApart, TypeOK, Labels, SleepLabels, Threads, LabelsOK
<1>4. RlockExact'
  BY DEF RlockExact, HasRlock, Threads, TypeOK, Labels, SleepLabels, LabelsOK
<1>5. RlExact'
  BY DEF RlExact, HasRl, Threads, TypeOK, Labels, SleepLabels, LabelsOK
<1>6. PrExact'
  BY DEF PrExact, TypeOK, Labels, SleepLabels, Threads, LabelsOK
<1>7. RpExact'
  BY DEF RpExact, Asleep, TypeOK, Labels, SleepLabels, Threads, LabelsOK
<1>8. OnePostPerSleep'
  BY DEF OnePostPerSleep, Asleep, TypeOK, Labels, SleepLabels, Threads,
    LabelsOK
<1>9. QED
  BY <1>1, <1>2, <1>3, <1>4, <1>5, <1>6, <1>7, <1>8

LEMMA CallWakeupOK ==
  ASSUME IndInv, NEW w \in Wakers, NEW r \in Rendezvous, CallWakeup(w, r)
  PROVE  IndInv'
<1> USE DEF IndInv, CallWakeup, Goto, flags
<1>1. TypeOK'
  BY DEF TypeOK, Labels, SleepLabels, Threads, LabelsOK
<1>2. LabelsOK'
  BY ThreadsAssumption DEF LabelsOK, SleepLabels, TypeOK, Labels, Threads
<1>3. CallersApart'
  BY ThreadsAssumption DEF CallersApart, TypeOK, Labels, SleepLabels, Threads,
    LabelsOK
<1>4. RlockExact'
  BY ThreadsAssumption DEF RlockExact, HasRlock, Threads, TypeOK, Labels,
    SleepLabels, LabelsOK
<1>5. RlExact'
  BY DEF RlExact, HasRl, Threads, TypeOK, Labels, SleepLabels, LabelsOK
<1>6. PrExact'
  BY DEF PrExact, TypeOK, Labels, SleepLabels, Threads, LabelsOK
<1>7. RpExact'
  BY DEF RpExact, Asleep, TypeOK, Labels, SleepLabels, Threads, LabelsOK
<1>8. OnePostPerSleep'
  BY DEF OnePostPerSleep, Asleep, TypeOK, Labels, SleepLabels, Threads,
    LabelsOK
<1>9. QED
  BY <1>1, <1>2, <1>3, <1>4, <1>5, <1>6, <1>7, <1>8

(* lock(&r->l) of Wakeup. *)
LEMMA WakeupLockROK ==
  ASSUME IndInv, NEW w \in Wakers, WakeupLockR(w)
  PROVE  IndInv'
<1> USE DEF IndInv, WakeupLockR, Goto, flags
<1>1. TypeOK'
  BY DEF TypeOK, Labels, SleepLabels, Threads, LabelsOK
<1>2. LabelsOK'
  BY ThreadsAssumption DEF LabelsOK, SleepLabels, TypeOK, Labels, Threads
<1>3. CallersApart'
  BY DEF CallersApart, TypeOK, Labels, SleepLabels, Threads, LabelsOK
<1>4. RlockExact'
  BY ThreadsAssumption DEF RlockExact, HasRlock, Threads, TypeOK, Labels,
    SleepLabels, LabelsOK
<1>5. RlExact'
  BY ThreadsAssumption DEF RlExact, HasRl, Threads, TypeOK, Labels,
    SleepLabels, LabelsOK
<1>6. PrExact'
  BY DEF PrExact, TypeOK, Labels, SleepLabels, Threads, LabelsOK
<1>7. RpExact'
  BY DEF RpExact, Asleep, TypeOK, Labels, SleepLabels, Threads, LabelsOK
<1>8. OnePostPerSleep'
  BY DEF OnePostPerSleep, Asleep, TypeOK, Labels, SleepLabels, Threads,
    LabelsOK
<1>9. QED
  BY <1>1, <1>2, <1>3, <1>4, <1>5, <1>6, <1>7, <1>8

(* Wakeup posts the process it takes from r, which had no post yet. *)
LEMMA WakeupBodyOK ==
  ASSUME IndInv, NEW w \in Wakers, WakeupBody(w)
  PROVE  IndInv'
<1> USE DEF IndInv, WakeupBody, Goto, flags
<1>1. TypeOK'
  BY DEF TypeOK, Labels, SleepLabels, Threads, LabelsOK
<1>2. LabelsOK'
  BY DEF LabelsOK, SleepLabels, TypeOK, Labels, Threads
<1>3. CallersApart'
  BY DEF CallersApart, TypeOK, Labels, SleepLabels, Threads, LabelsOK
<1>4. RlockExact'
  BY DEF RlockExact, HasRlock, Threads, TypeOK, Labels, SleepLabels, LabelsOK
<1>5. RlExact'
  BY ThreadsAssumption DEF RlExact, HasRl, Threads, TypeOK, Labels,
    SleepLabels, LabelsOK
<1>6. PrExact'
  BY DEF PrExact, TypeOK, Labels, SleepLabels, Threads, LabelsOK
<1>7. RpExact'
  BY ThreadsAssumption DEF RpExact, Asleep, TypeOK, Labels, SleepLabels,
    Threads, LabelsOK
<1>8. OnePostPerSleep'
  BY ThreadsAssumption DEF OnePostPerSleep, Asleep, TypeOK, Labels,
    SleepLabels, Threads, LabelsOK, RpExact
<1>9. QED
  BY <1>1, <1>2, <1>3, <1>4, <1>5, <1>6, <1>7, <1>8

LEMMA CallSwiprocOK ==
  ASSUME IndInv, NEW i \in Interrupters, NEW p \in Sleepers, CallSwiproc(i, p)
  PROVE  IndInv'
<1> USE DEF IndInv, CallSwiproc, Goto, flags
<1>1. TypeOK'
  BY DEF TypeOK, Labels, SleepLabels, Threads, LabelsOK
<1>2. LabelsOK'
  BY ThreadsAssumption DEF LabelsOK, SleepLabels, TypeOK, Labels, Threads
<1>3. CallersApart'
  BY ThreadsAssumption DEF CallersApart, TypeOK, Labels, SleepLabels, Threads,
    LabelsOK
<1>4. RlockExact'
  BY DEF RlockExact, HasRlock, Threads, TypeOK, Labels, SleepLabels, LabelsOK
<1>5. RlExact'
  BY DEF RlExact, HasRl, Threads, TypeOK, Labels, SleepLabels, LabelsOK
<1>6. PrExact'
  BY DEF PrExact, TypeOK, Labels, SleepLabels, Threads, LabelsOK
<1>7. RpExact'
  BY DEF RpExact, Asleep, TypeOK, Labels, SleepLabels, Threads, LabelsOK
<1>8. OnePostPerSleep'
  BY DEF OnePostPerSleep, Asleep, TypeOK, Labels, SleepLabels, Threads,
    LabelsOK
<1>9. QED
  BY <1>1, <1>2, <1>3, <1>4, <1>5, <1>6, <1>7, <1>8

(* swiproc sees p->r under p->rlock, and keeps rlock if p sleeps. *)
LEMMA SwiMarkOK ==
  ASSUME IndInv, NEW i \in Interrupters, SwiMark(i)
  PROVE  IndInv'
<1> USE DEF IndInv, SwiMark, Goto, flags
<1>1. TypeOK'
  BY DEF TypeOK, Labels, SleepLabels, Threads, LabelsOK
<1>2. LabelsOK'
  BY DEF LabelsOK, SleepLabels, TypeOK, Labels, Threads
<1>3. CallersApart'
  BY DEF CallersApart, TypeOK, Labels, SleepLabels, Threads, LabelsOK
<1>4. RlockExact'
  BY ThreadsAssumption DEF RlockExact, HasRlock, Threads, TypeOK, Labels,
    SleepLabels, LabelsOK
<1>5. RlExact'
  BY DEF RlExact, HasRl, Threads, TypeOK, Labels, SleepLabels, LabelsOK
<1>6. PrExact'
  BY DEF PrExact, TypeOK, Labels, SleepLabels, Threads, LabelsOK
<1>7. RpExact'
  BY DEF RpExact, Asleep, TypeOK, Labels, SleepLabels, Threads, LabelsOK
<1>8. OnePostPerSleep'
  BY DEF OnePostPerSleep, Asleep, TypeOK, Labels, SleepLabels, Threads,
    LabelsOK
<1>9. QED
  BY <1>1, <1>2, <1>3, <1>4, <1>5, <1>6, <1>7, <1>8

(* swiproc takes the lock of the Rendez it saw. *)
LEMMA SwiLockROK ==
  ASSUME IndInv, NEW i \in Interrupters, SwiLockR(i)
  PROVE  IndInv'
<1> USE DEF IndInv, SwiLockR, Goto, flags
<1>1. TypeOK'
  BY DEF TypeOK, Labels, SleepLabels, Threads, LabelsOK
<1>2. LabelsOK'
  BY DEF LabelsOK, SleepLabels, TypeOK, Labels, Threads
<1>3. CallersApart'
  BY DEF CallersApart, TypeOK, Labels, SleepLabels, Threads, LabelsOK
<1>4. RlockExact'
  BY DEF RlockExact, HasRlock, Threads, TypeOK, Labels, SleepLabels, LabelsOK
<1>5. RlExact'
  BY ThreadsAssumption DEF RlExact, HasRl, Threads, TypeOK, Labels,
    SleepLabels, LabelsOK
<1>6. PrExact'
  BY DEF PrExact, TypeOK, Labels, SleepLabels, Threads, LabelsOK
<1>7. RpExact'
  BY DEF RpExact, Asleep, TypeOK, Labels, SleepLabels, Threads, LabelsOK
<1>8. OnePostPerSleep'
  BY DEF OnePostPerSleep, Asleep, TypeOK, Labels, SleepLabels, Threads,
    LabelsOK
<1>9. QED
  BY <1>1, <1>2, <1>3, <1>4, <1>5, <1>6, <1>7, <1>8

(* swiproc posts p only if p is still on r. *)
LEMMA SwiPullOK ==
  ASSUME IndInv, NEW i \in Interrupters, SwiPull(i)
  PROVE  IndInv'
<1> USE DEF IndInv, SwiPull, Goto, flags
<1>1. TypeOK'
  <2>1. swipend' \in [Sleepers -> BOOLEAN]
    <3>1. swipend' = [swipend EXCEPT ![arg[i]] = TRUE] \/ swipend' = swipend
      OBVIOUS
    <3>2. QED
      BY <3>1, FlagSet, Zenon DEF TypeOK
  <2>2. /\ rlock' \in [Sleepers -> Threads \cup {None}]
        /\ rl' \in [Rendezvous -> Threads \cup {None}]
        /\ arg' \in [Threads -> Sleepers \cup Rendezvous \cup {None}]
        /\ pc' \in [Threads -> Labels]
    BY DEF TypeOK, Labels, Threads
  <2>3. rp' \in [Rendezvous -> Sleepers \cup {None}] /\ sem' \in [Sleepers -> Nat]
    BY DEF TypeOK
  <2>4. QED
    BY <2>1, <2>2, <2>3 DEF TypeOK
<1>2. LabelsOK'
  BY DEF LabelsOK, SleepLabels, TypeOK, Labels, Threads
<1>3. CallersApart'
  BY DEF CallersApart, TypeOK, Labels, SleepLabels, Threads, LabelsOK
<1>4. RlockExact'
  BY ThreadsAssumption DEF RlockExact, HasRlock, Threads, TypeOK, Labels,
    SleepLabels, LabelsOK
<1>5. RlExact'
  BY ThreadsAssumption DEF RlExact, HasRl, Threads, TypeOK, Labels,
    SleepLabels, LabelsOK
<1>6. PrExact'
  BY DEF PrExact, TypeOK, Labels, SleepLabels, Threads, LabelsOK
<1>7. RpExact'
  BY ThreadsAssumption DEF RpExact, Asleep, TypeOK, Labels, SleepLabels,
    Threads, LabelsOK
<1>8. OnePostPerSleep'
  BY ThreadsAssumption DEF OnePostPerSleep, Asleep, TypeOK, Labels,
    SleepLabels, Threads, LabelsOK, PrExact
<1>9. QED
  BY <1>1, <1>2, <1>3, <1>4, <1>5, <1>6, <1>7, <1>8

(* p is not asleep, and only flags change. *)
LEMMA SwiSysioOK ==
  ASSUME IndInv, NEW i \in Interrupters, SwiSysio(i)
  PROVE  IndInv'
<1> USE DEF IndInv, SwiSysio, Goto, flags
<1>1. TypeOK'
  <2>1. swipend' \in [Sleepers -> BOOLEAN]
    <3>1. swipend' = [swipend EXCEPT ![arg[i]] = TRUE] \/ swipend' = swipend
      OBVIOUS
    <3>2. QED
      BY <3>1, FlagSet, Zenon DEF TypeOK
  <2>2. intwait' \in [Sleepers -> BOOLEAN]
    <3>1. intwait' = [intwait EXCEPT ![arg[i]] = TRUE] \/ intwait' = intwait
      OBVIOUS
    <3>2. QED
      BY <3>1, FlagSet, Zenon DEF TypeOK
  <2>3. arg' \in [Threads -> Sleepers \cup Rendezvous \cup {None}] /\ pc' \in [Threads -> Labels]
    BY DEF TypeOK, LabelsOK, Labels, SleepLabels, Threads
  <2>4. QED
    BY <2>1, <2>2, <2>3 DEF TypeOK
<1>2. LabelsOK'
  BY DEF LabelsOK, SleepLabels, TypeOK, Labels, Threads
<1>3. CallersApart'
  BY DEF CallersApart, TypeOK, Labels, SleepLabels, Threads, LabelsOK
<1>4. RlockExact'
  BY DEF RlockExact, HasRlock, Threads, TypeOK, Labels, SleepLabels, LabelsOK
<1>5. RlExact'
  BY DEF RlExact, HasRl, Threads, TypeOK, Labels, SleepLabels, LabelsOK
<1>6. PrExact'
  BY DEF PrExact, TypeOK, Labels, SleepLabels, Threads, LabelsOK
<1>7. RpExact'
  BY DEF RpExact, Asleep, TypeOK, Labels, SleepLabels, Threads, LabelsOK
<1>8. OnePostPerSleep'
  BY DEF OnePostPerSleep, Asleep, TypeOK, Labels, SleepLabels, Threads,
    LabelsOK
<1>9. QED
  BY <1>1, <1>2, <1>3, <1>4, <1>5, <1>6, <1>7, <1>8

----------------------------------------------------------------------------
LEMMA InitIndInv == Init => IndInv
<1> SUFFICES ASSUME Init PROVE IndInv
  OBVIOUS
<1>1. TypeOK
  BY DEF Init, TypeOK, Labels, SleepLabels, Threads
<1>2. LabelsOK /\ CallersApart /\ RlockExact /\ RlExact
  BY ThreadsAssumption
  DEF Init, Threads, LabelsOK, CallersApart, RlockExact, HasRlock, RlExact, HasRl
<1>3. PrExact /\ RpExact /\ OnePostPerSleep
  BY ThreadsAssumption DEF Init, Threads, PrExact, RpExact, OnePostPerSleep, Asleep
<1>4. QED
  BY <1>1, <1>2, <1>3 DEF IndInv

(* Every step of every thread preserves the invariant. *)
LEMMA NextIndInv == IndInv /\ [Next]_vars => IndInv'
<1> SUFFICES ASSUME IndInv, [Next]_vars PROVE IndInv'
  OBVIOUS
<1>1. CASE UNCHANGED vars
  BY <1>1 DEF vars, IndInv, TypeOK, LabelsOK, CallersApart, RlockExact, HasRlock,
    RlExact, HasRl, PrExact, RpExact, OnePostPerSleep, Asleep
<1>2. ASSUME NEW p \in Sleepers, Sleep(p) PROVE IndInv'
  BY <1>2, SleepLockPOK, SleepLockROK, SleepTestOK, SleepRegisterOK, SleepBlockOK,
    SleepRelockOK, SleepCheckOK DEF Sleep
<1>3. ASSUME NEW p \in Sleepers,
             Return(p) \/ osenter(p) \/ osleave(p) \/ notkilled(p)
             \/ \E r \in Rendezvous : CallSleep(p, r)
      PROVE  IndInv'
  BY <1>3, ReturnOK, osenterOK, osleaveOK, notkilledOK, CallSleepOK
<1>4. ASSUME NEW w \in Wakers, Wakeup(w) \/ \E r \in Rendezvous : CallWakeup(w, r)
      PROVE  IndInv'
  BY <1>4, WakeupLockROK, WakeupBodyOK, CallWakeupOK DEF Wakeup
<1>5. ASSUME NEW i \in Interrupters,
             swiproc(i) \/ \E p \in Sleepers : CallSwiproc(i, p)
      PROVE  IndInv'
  BY <1>5, SwiMarkOK, SwiLockROK, SwiPullOK, SwiSysioOK, CallSwiprocOK DEF swiproc
<1>6. QED
  BY <1>1, <1>2, <1>3, <1>4, <1>5 DEF Next

(* The invariant holds in every state of every behaviour. *)
THEOREM Invariance == Spec => []IndInv
  BY InitIndInv, NextIndInv, PTL DEF Spec

(***************************************************************************)
(* Wakeup and swiproc, which may both find the same sleeper in every       *)
(* window of Sleep, post it exactly once, and no post outlives its Sleep.  *)
(***************************************************************************)
THEOREM OnePost == Spec => []OnePostPerSleep
<1>1. IndInv => OnePostPerSleep
  BY DEF IndInv
<1>2. QED
  BY <1>1, Invariance, PTL

(***************************************************************************)
(* Sleep never finds another process on its Rendez, whoever holds r->l and *)
(* needs an rlock has it, and the state keeps its type.                    *)
(***************************************************************************)
THEOREM Registered == Spec => []SleepersRegistered
<1>1. IndInv => SleepersRegistered
  <2> SUFFICES ASSUME IndInv PROVE SleepersRegistered
    OBVIOUS
  <2>1. NoDoubleSleep
    BY DEF IndInv, LabelsOK, SleepLabels, NoDoubleSleep
  <2>2. RendezLockInsideRlock
    <3> SUFFICES ASSUME NEW r \in Rendezvous, NEW t \in Sleepers \cup Interrupters, rl[r] = t
                 PROVE  \E p \in Sleepers : rlock[p] = t
      BY DEF RendezLockInsideRlock
    <3>1. HasRl(t, r) /\ t \notin Wakers
      BY ThreadsAssumption DEF IndInv, RlExact, Threads
    <3>2. CASE t \in Sleepers
      BY <3>1, <3>2, ThreadsAssumption DEF IndInv, HasRl, RlockExact, HasRlock, Threads
    <3>3. CASE t \in Interrupters
      BY <3>1, <3>3, ThreadsAssumption DEF IndInv, HasRl, LabelsOK, RlockExact, HasRlock, Threads
    <3>4. QED
      BY <3>2, <3>3
  <2>3. QED
    BY <2>1, <2>2 DEF IndInv, SleepersRegistered
<1>2. QED
  BY <1>1, Invariance, PTL
=============================================================================
