------------------------------- MODULE Rendez ------------------------------
(***************************************************************************)
(* Sleep, Wakeup, swiproc and notkilled of styx/svcs/proc.c: condition     *)
(* variables made of two spin locks (the sleeper's rlock and the           *)
(* rendezvous' l) and of the sleeper's counting semaphore (osblock and     *)
(* osready, kproc-libuv.c).  Every step is what one thread does between    *)
(* two operations on a lock or on a semaphore.                             *)
(*                                                                         *)
(* Sleepers are kernel processes that alternate between their own work     *)
(* and Sleep; wakers make the condition f(arg) of a rendezvous true and    *)
(* call Wakeup; interrupters call swiproc(p, 0), the only form in use      *)
(* (exportfs.c).  The callers of Sleep own a QLock that lets one process   *)
(* at a time use a Rendez (qio.c, exportfs.c), which is the guard of Call. *)
(***************************************************************************)
EXTENDS Integers, FiniteSets

CONSTANTS
  Sleepers, Wakers, Interrupters,  \* the threads
  Rendezvous,                      \* the Rendez structures
  None                             \* nil, and a free spin lock

ASSUME ThreadsAssumption ==
  /\ Sleepers \cap Wakers = {} /\ Sleepers \cap Interrupters = {}
  /\ Wakers \cap Interrupters = {}
  /\ None \notin Sleepers \cup Wakers \cup Interrupters \cup Rendezvous

VARIABLES
  rlock,    \* p->rlock, per sleeper: the thread inside
  rl,       \* r->l, per rendezvous: the thread inside
  rp,       \* r->p: the process asleep on r
  pr,       \* p->r: the rendezvous p sleeps on
  killed, swipend, intwait, syscall,  \* the fields of p
  sem,      \* p->os->sem
  cond,     \* f(arg), per rendezvous
  arg,      \* the Rendez or the process a thread's current call is about
  pc        \* where each thread is

vars == <<rlock, rl, rp, pr, killed, swipend, intwait, syscall, sem, cond, arg, pc>>
flags == <<killed, swipend, intwait, syscall>>

Threads == Sleepers \cup Wakers \cup Interrupters

Init ==
  /\ rlock = [p \in Sleepers |-> None]
  /\ rl = [r \in Rendezvous |-> None]
  /\ rp = [r \in Rendezvous |-> None]
  /\ pr = [p \in Sleepers |-> None]
  /\ killed = [p \in Sleepers |-> FALSE]
  /\ swipend = [p \in Sleepers |-> FALSE]
  /\ intwait = [p \in Sleepers |-> FALSE]
  /\ syscall = [p \in Sleepers |-> FALSE]
  /\ sem = [p \in Sleepers |-> 0]
  /\ cond = [r \in Rendezvous |-> FALSE]
  /\ arg = [t \in Threads |-> None]
  /\ pc = [t \in Threads |-> "work"]

Goto(t, from, to) == pc[t] = from /\ pc' = [pc EXCEPT ![t] = to]
----------------------------------------------------------------------------
(* Sleep(r, f, arg) by the process p, with r = arg[p]. *)
SleepLabels == {"lock_p", "lock_r", "test", "register", "osblock", "relock", "check"}

(* The caller of Sleep: no other process uses this Rendez meanwhile. *)
CallSleep(p, r) ==
  /\ Goto(p, "work", "lock_p")
  /\ ~syscall[p]
  /\ \A q \in Sleepers : arg[q] # r
  /\ arg' = [arg EXCEPT ![p] = r]
  /\ UNCHANGED <<rlock, rl, rp, pr, flags, sem, cond>>

SleepLockP(p) ==
  /\ Goto(p, "lock_p", "lock_r")
  /\ rlock[p] = None
  /\ rlock' = [rlock EXCEPT ![p] = p]
  /\ UNCHANGED <<rl, rp, pr, flags, sem, cond, arg>>

SleepLockR(p) ==
  /\ Goto(p, "lock_r", "test")
  /\ rl[arg[p]] = None
  /\ rl' = [rl EXCEPT ![arg[p]] = p]
  /\ UNCHANGED <<rlock, rp, pr, flags, sem, cond, arg>>

(* Under both locks: return at once, or be the one who sleeps on r. *)
SleepTest(p) ==
  LET r == arg[p] IN
  /\ pc[p] = "test"
  /\ rl' = [rl EXCEPT ![r] = None]
  /\ \/ /\ killed[p] \/ cond[r]
        /\ Goto(p, "test", "check")
        /\ UNCHANGED rp
     \/ /\ ~killed[p] /\ ~cond[r]
        /\ Goto(p, "test", IF rp[r] # None THEN "panic" ELSE "register")
        /\ rp' = [rp EXCEPT ![r] = p]
  /\ UNCHANGED <<rlock, pr, flags, sem, cond, arg>>

SleepRegister(p) ==
  /\ Goto(p, "register", "osblock")
  /\ swipend' = [swipend EXCEPT ![p] = FALSE]
  /\ pr' = [pr EXCEPT ![p] = arg[p]]
  /\ rlock' = [rlock EXCEPT ![p] = None]
  /\ UNCHANGED <<rl, rp, killed, intwait, syscall, sem, cond, arg>>

SleepBlock(p) ==
  /\ Goto(p, "osblock", "relock")
  /\ sem[p] > 0
  /\ sem' = [sem EXCEPT ![p] = @ - 1]
  /\ UNCHANGED <<rlock, rl, rp, pr, flags, cond, arg>>

SleepRelock(p) ==
  /\ Goto(p, "relock", "check")
  /\ rlock[p] = None
  /\ rlock' = [rlock EXCEPT ![p] = p]
  /\ pr' = [pr EXCEPT ![p] = None]
  /\ UNCHANGED <<rl, rp, flags, sem, cond, arg>>

(* The end of Sleep: error(Eintr), or a normal return. *)
SleepCheck(p) ==
  /\ \/ /\ killed[p] \/ swipend[p]
        /\ killed' = [killed EXCEPT ![p] = FALSE]
        /\ swipend' = [swipend EXCEPT ![p] = FALSE]
        /\ Goto(p, "check", "eintr")
     \/ /\ ~killed[p] /\ ~swipend[p]
        /\ Goto(p, "check", "awake")
        /\ UNCHANGED <<killed, swipend>>
  /\ rlock' = [rlock EXCEPT ![p] = None]
  /\ UNCHANGED <<rl, rp, pr, intwait, syscall, sem, cond, arg>>

Sleep(p) ==
  \/ SleepLockP(p) \/ SleepLockR(p) \/ SleepTest(p) \/ SleepRegister(p)
  \/ SleepBlock(p) \/ SleepRelock(p) \/ SleepCheck(p)

(* The caller goes on: an awakened one uses up what it was waiting for. *)
Return(p) ==
  /\ \/ Goto(p, "awake", "work") /\ cond' = [cond EXCEPT ![arg[p]] = FALSE]
     \/ Goto(p, "eintr", "work") /\ UNCHANGED cond
  /\ arg' = [arg EXCEPT ![p] = None]
  /\ UNCHANGED <<rlock, rl, rp, pr, flags, sem>>

(* osenter, osleave: a call to the host operating system. *)
osenter(p) ==
  /\ pc[p] = "work" /\ ~syscall[p]
  /\ syscall' = [syscall EXCEPT ![p] = TRUE]
  /\ UNCHANGED <<rlock, rl, rp, pr, killed, swipend, intwait, sem, cond, arg, pc>>

osleave(p) ==
  /\ pc[p] = "work" /\ syscall[p]
  /\ syscall' = [syscall EXCEPT ![p] = FALSE]
  /\ UNCHANGED <<rlock, rl, rp, pr, killed, swipend, intwait, sem, cond, arg, pc>>

(* notkilled(): forget a kill, under rlock. *)
notkilled(p) ==
  /\ pc[p] = "work" /\ killed[p] /\ rlock[p] = None
  /\ killed' = [killed EXCEPT ![p] = FALSE]
  /\ UNCHANGED <<rlock, rl, rp, pr, swipend, intwait, syscall, sem, cond, arg, pc>>
----------------------------------------------------------------------------
(* Wakeup(r) by the thread w, which has just made the condition true. *)
CallWakeup(w, r) ==
  /\ Goto(w, "work", "lock_r")
  /\ arg' = [arg EXCEPT ![w] = r]
  /\ cond' = [cond EXCEPT ![r] = TRUE]
  /\ UNCHANGED <<rlock, rl, rp, pr, flags, sem>>

WakeupLockR(w) ==
  /\ Goto(w, "lock_r", "wake")
  /\ rl[arg[w]] = None
  /\ rl' = [rl EXCEPT ![arg[w]] = w]
  /\ UNCHANGED <<rlock, rp, pr, flags, sem, cond, arg>>

WakeupBody(w) ==
  LET r == arg[w] IN
  /\ Goto(w, "wake", "work")
  /\ rp' = [rp EXCEPT ![r] = None]
  /\ sem' = IF rp[r] # None THEN [sem EXCEPT ![rp[r]] = @ + 1] ELSE sem
  /\ rl' = [rl EXCEPT ![r] = None]
  /\ arg' = [arg EXCEPT ![w] = None]
  /\ UNCHANGED <<rlock, pr, flags, cond>>

Wakeup(w) == WakeupLockR(w) \/ WakeupBody(w)
----------------------------------------------------------------------------
(* swiproc(p, 0) by the thread i, with p = arg[i]. *)
CallSwiproc(i, p) ==
  /\ Goto(i, "work", "swi_lock_p")
  /\ arg' = [arg EXCEPT ![i] = p]
  /\ UNCHANGED <<rlock, rl, rp, pr, flags, sem, cond>>

(* Mutant: swiproc does not look whether p sleeps. *)
SwiMark_NoLook(i) ==
  LET p == arg[i] IN
  /\ Goto(i, "swi_lock_p", "swi_sysio")
  /\ rlock[p] = None
  /\ killed' = [killed EXCEPT ![p] = TRUE]
  /\ UNCHANGED <<rlock, rl, rp, pr, swipend, intwait, syscall, sem, cond, arg>>

(* Under p->rlock: mark p killed and see whether it sleeps. *)
SwiMark(i) ==
  LET p == arg[i] IN
  /\ pc[i] = "swi_lock_p"
  /\ rlock[p] = None
  /\ killed' = [killed EXCEPT ![p] = TRUE]
  /\ \/ pr[p] # None /\ Goto(i, "swi_lock_p", "swi_lock_r")
        /\ rlock' = [rlock EXCEPT ![p] = i]
     \/ pr[p] = None /\ Goto(i, "swi_lock_p", "swi_sysio")
        /\ UNCHANGED rlock
  /\ UNCHANGED <<rl, rp, pr, swipend, intwait, syscall, sem, cond, arg>>

SwiLockR(i) ==
  LET r == pr[arg[i]] IN
  /\ Goto(i, "swi_lock_r", "swi_pull")
  /\ rl[r] = None
  /\ rl' = [rl EXCEPT ![r] = i]
  /\ UNCHANGED <<rlock, rp, pr, flags, sem, cond, arg>>

(* Mutants: swiproc posts without looking whether Wakeup has; swiproc       *)
(* leaves p on the Rendez.                                                  *)
SwiPull_NoLook(i) ==
  LET p == arg[i]
      r == pr[p] IN
  /\ Goto(i, "swi_pull", "work")
  /\ swipend' = [swipend EXCEPT ![p] = TRUE]
  /\ rp' = [rp EXCEPT ![r] = None]
  /\ sem' = [sem EXCEPT ![p] = @ + 1]
  /\ rl' = [rl EXCEPT ![r] = None]
  /\ rlock' = [rlock EXCEPT ![p] = None]
  /\ arg' = [arg EXCEPT ![i] = None]
  /\ UNCHANGED <<pr, killed, intwait, syscall, cond>>
SwiPull_LeavesP(i) ==
  LET p == arg[i]
      r == pr[p] IN
  /\ Goto(i, "swi_pull", "work")
  /\ swipend' = [swipend EXCEPT ![p] = @ \/ rp[r] = p]
  /\ sem' = [sem EXCEPT ![p] = IF rp[r] = p THEN @ + 1 ELSE @]
  /\ rl' = [rl EXCEPT ![r] = None]
  /\ rlock' = [rlock EXCEPT ![p] = None]
  /\ arg' = [arg EXCEPT ![i] = None]
  /\ UNCHANGED <<rp, pr, killed, intwait, syscall, cond>>

(* Under p->rlock and r->l: pull p out of Sleep unless Wakeup has. *)
SwiPull(i) ==
  LET p == arg[i]
      r == pr[p] IN
  /\ Goto(i, "swi_pull", "work")
  /\ \/ /\ rp[r] = p
        /\ swipend' = [swipend EXCEPT ![p] = TRUE]
        /\ rp' = [rp EXCEPT ![r] = None]
        /\ sem' = [sem EXCEPT ![p] = @ + 1]
     \/ /\ rp[r] # p
        /\ UNCHANGED <<swipend, rp, sem>>
  /\ rl' = [rl EXCEPT ![r] = None]
  /\ rlock' = [rlock EXCEPT ![p] = None]
  /\ arg' = [arg EXCEPT ![i] = None]
  /\ UNCHANGED <<pr, killed, intwait, syscall, cond>>

(* Under p->sysio, which nothing else takes; oshostintr does nothing. *)
SwiSysio(i) ==
  LET p == arg[i] IN
  /\ Goto(i, "swi_sysio", "work")
  /\ \/ /\ syscall[p] /\ ~intwait[p]
        /\ swipend' = [swipend EXCEPT ![p] = TRUE]
        /\ intwait' = [intwait EXCEPT ![p] = TRUE]
     \/ /\ ~syscall[p] \/ intwait[p]
        /\ UNCHANGED <<swipend, intwait>>
  /\ arg' = [arg EXCEPT ![i] = None]
  /\ UNCHANGED <<rlock, rl, rp, pr, killed, syscall, sem, cond>>

swiproc(i) == SwiMark(i) \/ SwiLockR(i) \/ SwiPull(i) \/ SwiSysio(i)
----------------------------------------------------------------------------
Next ==
  \/ \E p \in Sleepers :
       \/ Sleep(p) \/ Return(p) \/ osenter(p) \/ osleave(p) \/ notkilled(p)
       \/ \E r \in Rendezvous : CallSleep(p, r)
  \/ \E w \in Wakers : Wakeup(w) \/ \E r \in Rendezvous : CallWakeup(w, r)
  \/ \E i \in Interrupters : swiproc(i) \/ \E p \in Sleepers : CallSwiproc(i, p)

(***************************************************************************)
(* Threads inside a call keep running, and a spinning one gets its lock    *)
(* when the lock is free again and again.  Nobody need ever call.          *)
(***************************************************************************)
Fairness ==
  /\ \A p \in Sleepers : SF_vars(Sleep(p))
  /\ \A w \in Wakers : SF_vars(Wakeup(w))
  /\ \A i \in Interrupters : SF_vars(swiproc(i))

Spec == Init /\ [][Next]_vars
FairSpec == Spec /\ Fairness
----------------------------------------------------------------------------
Labels == SleepLabels \cup {"work", "awake", "eintr", "panic", "wake", "swi_lock_p",
                            "swi_lock_r", "swi_pull", "swi_sysio"}

TypeOK ==
  /\ rlock \in [Sleepers -> Threads \cup {None}]
  /\ rl \in [Rendezvous -> Threads \cup {None}]
  /\ rp \in [Rendezvous -> Sleepers \cup {None}]
  /\ pr \in [Sleepers -> Rendezvous \cup {None}]
  /\ {killed, swipend, intwait, syscall} \subseteq [Sleepers -> BOOLEAN]
  /\ sem \in [Sleepers -> Nat]
  /\ cond \in [Rendezvous -> BOOLEAN]
  /\ arg \in [Threads -> Sleepers \cup Rendezvous \cup {None}]
  /\ pc \in [Threads -> Labels]

(* Sleep never finds another process on the Rendez (the "double sleep" panic). *)
NoDoubleSleep == \A p \in Sleepers : pc[p] # "panic"

(***************************************************************************)
(* Wakeup and swiproc race for the same sleeper and exactly one of them    *)
(* posts its semaphore: a process about to block is still on its Rendez or *)
(* has one post, and no post outlives the Sleep it was meant for.          *)
(***************************************************************************)
Asleep(p) == pc[p] \in {"register", "osblock"}
OnePostPerSleep ==
  \A p \in Sleepers :
    /\ Asleep(p) => sem[p] = IF rp[arg[p]] = p THEN 0 ELSE 1
    /\ ~Asleep(p) => sem[p] = 0 /\ \A r \in Rendezvous : rp[r] # p

(***************************************************************************)
(* No wake-up is lost: a process asleep on a Rendez whose condition has    *)
(* become true leaves Sleep, whether the waker came before, during or      *)
(* after its test of the condition.                                        *)
(***************************************************************************)
InSleep(p) == pc[p] \in SleepLabels
WakeupNotLost ==
  \A p \in Sleepers, r \in Rendezvous :
    (InSleep(p) /\ arg[p] = r /\ cond[r]) ~> ~InSleep(p)

(***************************************************************************)
(* No interrupt is lost: a process that swiproc marks killed while it is   *)
(* in Sleep, or that enters Sleep marked, gets Eintr from that Sleep.      *)
(***************************************************************************)
KillEndsSleep ==
  \A p \in Sleepers : (InSleep(p) /\ killed[p]) ~> pc[p] = "eintr"

(***************************************************************************)
(* The locks come in one order: whoever holds r->l and will need a         *)
(* process's rlock already has it, so Sleep and swiproc cannot each hold   *)
(* what the other wants.                                                   *)
(***************************************************************************)
RendezLockInsideRlock ==
  \A r \in Rendezvous, t \in Sleepers \cup Interrupters :
    rl[r] = t => \E p \in Sleepers : rlock[p] = t

(***************************************************************************)
(* Sleep, Wakeup and swiproc keep the registration of a sleeper right: a   *)
(* Rendez is free when the next process comes to it, and the two locks that *)
(* guard the registration are taken in one order.                          *)
(***************************************************************************)
SleepersRegistered == TypeOK /\ NoDoubleSleep /\ RendezLockInsideRlock

(* Sleep returns after a Wakeup and after an interrupt, wherever they met it. *)
SleepersReturn == WakeupNotLost /\ KillEndsSleep
============================================================================
