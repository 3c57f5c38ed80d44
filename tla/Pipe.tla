-------------------------------- MODULE Pipe -------------------------------
(***************************************************************************)
(* One direction of a pipe: the queue of styx/svcs/qio.c as devpipe.c uses *)
(* it.  Readers have one end open and call qread or qbread; writers have   *)
(* the other open and call qwrite, which queues blocks of at most          *)
(* Maxatomic bytes with qbwrite.  A reader of an empty queue sleeps on rr, *)
(* a writer of a full one sleeps on wr once its block is queued.  The last *)
(* close of the writing end hangs the queue up, the last close of the      *)
(* reading end closes it, and when both are closed it is reopened.         *)
(*                                                                         *)
(* A step is one section under q->l, one Wakeup, or one operation on the   *)
(* queue's QLocks and on the pipe's, which are used through what the       *)
(* module QLock shows of them; Sleep, Wakeup and swiproc likewise through  *)
(* Rendez.  Bytes are numbered in the order in which they are queued.      *)
(***************************************************************************)
EXTENDS Integers, Sequences, FiniteSets

CONSTANTS
  Readers, Writers,  \* the processes at the two ends
  Limit,             \* q->limit
  Maxatomic,         \* the bytes of the largest block
  WriteSizes, ReadSizes, \* the lengths asked for
  MaxBytes,          \* bound: the bytes written in all
  MaxOpens,          \* bound: how often an end is opened again
  MaxInterrupts,     \* bound: how often a process is interrupted
  None               \* nil, and a free lock

ASSUME PipeAssumption ==
  /\ Readers \cap Writers = {} /\ None \notin Readers \cup Writers
  /\ IsFiniteSet(Readers) /\ IsFiniteSet(Writers)
  /\ Limit \in Nat \ {0, 1} /\ Maxatomic \in Nat \ {0}
  /\ WriteSizes \cup ReadSizes \subseteq Nat \ {0}
  /\ {MaxBytes, MaxOpens, MaxInterrupts} \subseteq Nat

VARIABLES
  blocks,       \* the blocks from q->bfirst on: first byte, length, BALLOC
  len,          \* q->len
  starve, flow, closed, \* Qstarve, Qflow and Qclosed of q->state
  rlock, wlock, \* the QLocks of the queue
  rr, wr,       \* its Rendez: the process asleep on each
  pl, rref, wref, \* the QLock of the pipe, and p->qref for the two ends
  pc, killed,   \* where each process is, and whether it has been killed
  want,         \* what is left to read or write of its call
  taken,        \* the block a reader copies from, outside q->l
  queued, got,  \* the last byte that was queued, and that was read
  todo, opens, interrupts \* what is left of the bounds

queue == <<blocks, len, starve, flow, closed>>
qlocks == <<rlock, wlock>>
rendez == <<rr, wr>>
ends == <<pl, rref, wref>>
bytes == <<queued, got>>
bounds == <<todo, opens, interrupts>>
vars == <<queue, qlocks, rendez, ends, pc, killed, want, taken, bytes, bounds>>

Procs == Readers \cup Writers
Block(first, n, alloc) == [first |-> first, n |-> n, alloc |-> alloc]

(* sys_pipe has opened both ends. *)
Init ==
  /\ blocks = <<>> /\ len = 0 /\ starve = TRUE /\ flow = FALSE /\ closed = FALSE
  /\ rlock = None /\ wlock = None /\ rr = None /\ wr = None
  /\ pl = None /\ rref = Cardinality(Readers) /\ wref = Cardinality(Writers)
  /\ pc = [p \in Procs |-> "idle"] /\ killed = [p \in Procs |-> FALSE]
  /\ want = [p \in Procs |-> 0] /\ taken = [p \in Readers |-> <<>>]
  /\ queued = 0 /\ got = 0
  /\ todo = MaxBytes /\ opens = MaxOpens /\ interrupts = MaxInterrupts

Goto(p, from, to) == pc[p] = from /\ pc' = [pc EXCEPT ![p] = to]
Min2(a, b) == IF a < b THEN a ELSE b
----------------------------------------------------------------------------
(* qread and qbread.  qwait gives a block, or the end of a closed queue    *)
(* (no bytes three times, then an error: q->eof is left out), or sets      *)
(* Qstarve and sleeps.                                                     *)
Read(r, n) ==
  /\ Goto(r, "idle", "rlock")
  /\ want' = [want EXCEPT ![r] = n]
  /\ UNCHANGED <<queue, qlocks, rendez, ends, killed, taken, bytes, bounds>>

QlockRead(r) ==
  /\ Goto(r, "rlock", "qwait")
  /\ rlock = None /\ rlock' = r
  /\ UNCHANGED <<queue, wlock, rendez, ends, killed, want, taken, bytes, bounds>>

qwaitEmpty(r) ==
  /\ Goto(r, "qwait", "rsleep")
  /\ blocks = <<>> /\ ~closed
  /\ starve' = TRUE
  /\ UNCHANGED <<blocks, len, flow, closed, qlocks, rendez, ends, killed, want, taken, bytes,
                 bounds>>

qwaitClosed(r) ==
  /\ Goto(r, "qwait", "eof")
  /\ blocks = <<>> /\ closed
  /\ UNCHANGED <<queue, qlocks, rendez, ends, killed, want, taken, bytes, bounds>>

(* qwakeup_unlock: a reader that leaves the queue below half its limit     *)
(* restarts the writer.                                                    *)
qwakeup_unlock(r, from) ==
  LET restart == flow /\ len' < Limit \div 2 IN
  /\ flow' = (flow /\ ~restart)
  /\ Goto(r, from, IF restart THEN "wakeup_wr" ELSE "runlock")

(* qbread: the block, or its first part; the rest goes back as a new block. *)
qbread(r) ==
  /\ pc[r] = "qwait" /\ blocks # <<>>
  /\ LET b == Head(blocks)
         n == Min2(want[r], b.n)
         rest == Block(b.first + n, b.n - n, b.n - n) IN
     /\ blocks' = (IF n < b.n THEN <<rest>> ELSE <<>>) \o Tail(blocks)
     /\ len' = len - b.alloc + (IF n < b.n THEN rest.alloc ELSE 0)
     /\ got' = b.first + n - 1
  /\ qwakeup_unlock(r, "qwait")
  /\ UNCHANGED <<starve, closed, qlocks, rendez, ends, killed, want, taken, queued, bounds>>

(* qread: take the block, copy with q->l released, put back what is left. *)
qread(r) ==
  /\ Goto(r, "qwait", "copy")
  /\ blocks # <<>>
  /\ taken' = [taken EXCEPT ![r] = <<Head(blocks)>>]
  /\ blocks' = Tail(blocks)
  /\ len' = len - Head(blocks).alloc
  /\ UNCHANGED <<starve, flow, closed, qlocks, rendez, ends, killed, want, bytes, bounds>>

(* Mutants of the second section: what is left goes to the end of the      *)
(* queue; it is not counted again.                                         *)
qputback_AtEnd(r) ==
  LET b == taken[r][1]
      n == Min2(want[r], b.n)
      rest == Block(b.first + n, b.n - n, b.alloc) IN
  /\ blocks' = IF n < b.n THEN Append(blocks, rest) ELSE blocks
  /\ len' = IF n < b.n THEN len + b.alloc ELSE len
  /\ got' = b.first + n - 1

qputback_NotCounted(r) ==
  LET b == taken[r][1]
      n == Min2(want[r], b.n)
      rest == Block(b.first + n, b.n - n, b.alloc) IN
  /\ blocks' = IF n < b.n THEN <<rest>> \o blocks ELSE blocks
  /\ len' = len
  /\ got' = b.first + n - 1

qputback(r) ==
  LET b == taken[r][1]
      n == Min2(want[r], b.n)
      rest == Block(b.first + n, b.n - n, b.alloc) IN
  /\ blocks' = IF n < b.n THEN <<rest>> \o blocks ELSE blocks
  /\ len' = IF n < b.n THEN len + b.alloc ELSE len
  /\ got' = b.first + n - 1

CopyDone(r) ==
  /\ pc[r] = "copy"
  /\ qputback(r)
  /\ taken' = [taken EXCEPT ![r] = <<>>]
  /\ qwakeup_unlock(r, "copy")
  /\ UNCHANGED <<starve, closed, qlocks, rendez, ends, killed, want, queued, bounds>>

WakeWriter(r) ==
  /\ Goto(r, "wakeup_wr", "runlock")
  /\ wr' = None
  /\ UNCHANGED <<queue, qlocks, rr, ends, killed, want, taken, bytes, bounds>>

QunlockRead(r) ==
  /\ Goto(r, IF pc[r] = "eof" THEN "eof" ELSE "runlock", "idle")
  /\ rlock' = None
  /\ want' = [want EXCEPT ![r] = 0]
  /\ UNCHANGED <<queue, wlock, rendez, ends, killed, taken, bytes, bounds>>
----------------------------------------------------------------------------
(* Sleep on rr until notempty, and on wr until qnotfull; an interrupt ends *)
(* the call.                                                               *)
notempty == closed \/ blocks # <<>>
qnotfull == len < Limit \/ closed

SleepRead(r) ==
  /\ Goto(r, "rsleep", IF notempty THEN "qwait" ELSE "rasleep")
  /\ ~killed[r]
  /\ rr' = IF notempty THEN rr ELSE r
  /\ UNCHANGED <<queue, qlocks, wr, ends, killed, want, taken, bytes, bounds>>

SleepWrite(w) ==
  /\ Goto(w, "wsleep", IF qnotfull THEN "full" ELSE "wasleep")
  /\ ~killed[w]
  /\ wr' = IF qnotfull THEN wr ELSE w
  /\ UNCHANGED <<queue, qlocks, rr, ends, killed, want, taken, bytes, bounds>>

SleepReturns(p) ==
  /\ \/ Goto(p, "rasleep", "qwait") /\ rr # p
     \/ Goto(p, "wasleep", "full") /\ wr # p
  /\ ~killed[p]
  /\ UNCHANGED <<queue, qlocks, rendez, ends, killed, want, taken, bytes, bounds>>

(* Sleep's error(Eintr), in qwait under qread's handler, or in qbwrite. *)
SleepInterrupted(p) ==
  /\ \/ Goto(p, "rsleep", "runlock")
     \/ Goto(p, "rasleep", "runlock") /\ rr # p
     \/ Goto(p, "wsleep", "wunlock")
     \/ Goto(p, "wasleep", "wunlock") /\ wr # p
  /\ killed[p]
  /\ killed' = [killed EXCEPT ![p] = FALSE]
  /\ want' = [want EXCEPT ![p] = 0]
  /\ UNCHANGED <<queue, qlocks, rendez, ends, taken, bytes, bounds>>

(* swiproc *)
Interrupt(p) ==
  /\ pc[p] \notin {"out", "idle"} /\ ~killed[p]
  /\ interrupts > 0
  /\ interrupts' = interrupts - 1
  /\ killed' = [killed EXCEPT ![p] = TRUE]
  /\ rr' = IF rr = p THEN None ELSE rr
  /\ wr' = IF wr = p THEN None ELSE wr
  /\ UNCHANGED <<queue, qlocks, ends, pc, want, taken, bytes, todo, opens>>
----------------------------------------------------------------------------
(* qwrite, and qbwrite for each block. *)
Write(w, n) ==
  /\ Goto(w, "idle", "wlock")
  /\ n <= todo
  /\ todo' = todo - n
  /\ want' = [want EXCEPT ![w] = n]
  /\ UNCHANGED <<queue, qlocks, rendez, ends, killed, taken, bytes, opens, interrupts>>

QlockWrite(w) ==
  /\ Goto(w, "wlock", "put")
  /\ wlock = None /\ wlock' = w
  /\ UNCHANGED <<queue, rlock, rendez, ends, killed, want, taken, bytes, bounds>>

PutClosed(w) ==
  /\ Goto(w, "put", "wunlock")
  /\ closed
  /\ want' = [want EXCEPT ![w] = 0]
  /\ UNCHANGED <<queue, qlocks, rendez, ends, killed, taken, bytes, bounds>>

PutBlock(w) ==
  LET n == Min2(want[w], Maxatomic) IN
  /\ Goto(w, "put", IF starve THEN "wakeup_rr" ELSE "full")
  /\ ~closed
  /\ blocks' = Append(blocks, Block(queued + 1, n, n))
  /\ len' = len + n
  /\ queued' = queued + n
  /\ want' = [want EXCEPT ![w] = @ - n]
  /\ starve' = FALSE
  /\ UNCHANGED <<flow, closed, qlocks, rendez, ends, killed, taken, got, bounds>>

WakeReader(w) ==
  /\ Goto(w, "wakeup_rr", "full")
  /\ rr' = None
  /\ UNCHANGED <<queue, qlocks, wr, ends, killed, want, taken, bytes, bounds>>

(* Mutant: the writer does not wait below the limit. *)
TestFull_Never(w) ==
  /\ Goto(w, "full", "wunlock")
  /\ UNCHANGED <<queue, qlocks, rendez, ends, killed, want, taken, bytes, bounds>>

(* The test is made without q->l, and Qflow is set in a section of its own. *)
TestFull(w) ==
  /\ Goto(w, "full", IF qnotfull THEN "wunlock" ELSE "setflow")
  /\ UNCHANGED <<queue, qlocks, rendez, ends, killed, want, taken, bytes, bounds>>

(* Mutant: the reader is not told that a writer waits. *)
SetFlow_Not(w) ==
  /\ Goto(w, "setflow", "wsleep")
  /\ UNCHANGED <<queue, qlocks, rendez, ends, killed, want, taken, bytes, bounds>>

SetFlow(w) ==
  /\ Goto(w, "setflow", "wsleep")
  /\ flow' = TRUE
  /\ UNCHANGED <<blocks, len, starve, closed, qlocks, rendez, ends, killed, want, taken,
                 bytes, bounds>>

QunlockWrite(w) ==
  /\ Goto(w, "wunlock", IF want[w] > 0 THEN "wlock" ELSE "idle")
  /\ wlock' = None
  /\ UNCHANGED <<queue, rlock, rendez, ends, killed, want, taken, bytes, bounds>>
----------------------------------------------------------------------------
(* pipeopen and pipeclose, under the pipe's QLock; a process closes its    *)
(* end between calls.                                                      *)
Open(p) ==
  /\ Goto(p, "out", "idle")
  /\ opens > 0 /\ opens' = opens - 1
  /\ pl = None
  /\ IF p \in Readers THEN rref' = rref + 1 /\ UNCHANGED wref
                      ELSE wref' = wref + 1 /\ UNCHANGED rref
  /\ UNCHANGED <<queue, qlocks, rendez, pl, killed, want, taken, bytes, todo, interrupts>>

(* Mutant: the blocks go when the writers do. *)
qhangup_Releases ==
  /\ closed' = TRUE
  /\ blocks' = <<>> /\ len' = 0
  /\ UNCHANGED <<starve, flow, got>>

(* qhangup, and qclose, which releases the blocks. *)
qhangup ==
  /\ closed' = TRUE
  /\ UNCHANGED <<blocks, len, starve, flow, got>>

qclose ==
  /\ closed' = TRUE /\ flow' = FALSE /\ starve' = FALSE
  /\ blocks' = <<>> /\ len' = 0 /\ got' = queued

CloseReader(r) ==
  /\ pl = None /\ pl' = r
  /\ rref' = rref - 1
  /\ IF rref = 1 THEN Goto(r, "idle", "close_rr") /\ qclose
                 ELSE Goto(r, "idle", "closed") /\ UNCHANGED <<queue, got>>
  /\ UNCHANGED <<qlocks, rendez, wref, killed, want, taken, queued, bounds>>

CloseWriter(w) ==
  /\ pl = None /\ pl' = w
  /\ wref' = wref - 1
  /\ IF wref = 1 THEN Goto(w, "idle", "close_rr") /\ qhangup
                 ELSE Goto(w, "idle", "closed") /\ UNCHANGED <<queue, got>>
  /\ UNCHANGED <<qlocks, rendez, rref, killed, want, taken, queued, bounds>>

CloseWakes(p) ==
  /\ \/ Goto(p, "close_rr", "close_wr") /\ rr' = None /\ UNCHANGED wr
     \/ Goto(p, "close_wr", "closed") /\ wr' = None /\ UNCHANGED rr
  /\ UNCHANGED <<queue, qlocks, ends, killed, want, taken, bytes, bounds>>

qreopen == closed' = FALSE /\ starve' = TRUE

CloseEnds(p) ==
  /\ Goto(p, "closed", "out")
  /\ pl' = None
  /\ IF rref = 0 /\ wref = 0 THEN qreopen ELSE UNCHANGED <<closed, starve>>
  /\ UNCHANGED <<blocks, len, flow, qlocks, rendez, rref, wref, killed, want, taken, bytes, bounds>>

ReaderStep(r) ==
  \/ QlockRead(r) \/ qwaitEmpty(r) \/ qwaitClosed(r) \/ qbread(r) \/ qread(r) \/ CopyDone(r)
  \/ WakeWriter(r) \/ QunlockRead(r) \/ SleepRead(r)

WriterStep(w) ==
  \/ QlockWrite(w) \/ PutClosed(w) \/ PutBlock(w) \/ WakeReader(w) \/ TestFull(w) \/ SetFlow(w)
  \/ QunlockWrite(w) \/ SleepWrite(w)

ProcStep(p) ==
  \/ p \in Readers /\ ReaderStep(p)
  \/ p \in Writers /\ WriterStep(p)
  \/ SleepReturns(p) \/ SleepInterrupted(p) \/ CloseWakes(p) \/ CloseEnds(p)

Next ==
  \/ \E r \in Readers : CloseReader(r) \/ \E n \in ReadSizes : Read(r, n)
  \/ \E w \in Writers : CloseWriter(w) \/ \E n \in WriteSizes : Write(w, n)
  \/ \E p \in Procs : ProcStep(p) \/ Open(p) \/ Interrupt(p)

Spec == Init /\ [][Next]_vars

(* A process in a call goes on; it makes calls and closes as it likes. *)
FairSpec == Spec /\ \A p \in Procs : WF_vars(ProcStep(p))
----------------------------------------------------------------------------
Labels == {"out", "idle", "rlock", "qwait", "rsleep", "rasleep", "copy", "wakeup_wr", "runlock",
           "eof", "wlock", "put", "wakeup_rr", "full", "setflow", "wsleep", "wasleep", "wunlock",
           "close_rr", "close_wr", "closed"}

TypeOK ==
  /\ blocks \in Seq([first : Nat \ {0}, n : 1..Maxatomic, alloc : 1..Maxatomic])
  /\ len \in Nat /\ {starve, flow, closed} \subseteq BOOLEAN
  /\ {rlock, rr} \subseteq Readers \cup {None} /\ {wlock, wr} \subseteq Writers \cup {None}
  /\ pl \in Procs \cup {None}
  /\ rref \in 0..Cardinality(Readers) /\ wref \in 0..Cardinality(Writers)
  /\ pc \in [Procs -> Labels] /\ killed \in [Procs -> BOOLEAN] /\ want \in [Procs -> Nat]
  /\ {queued, got} \subseteq Nat

(* q->len is what the queued blocks take, whichever reads, splits and      *)
(* closes went on at the same time: flow control rests on it.              *)
Size(s) ==
  LET size[n \in 0..Len(s)] == IF n = 0 THEN 0 ELSE size[n - 1] + s[n].alloc
  IN size[Len(s)]
LenExact == len = Size(blocks)

(* The bytes in the pipe: what the reader with the lock copies from, then  *)
(* the queue.                                                              *)
Bytes(s) ==
  LET bytesTo[n \in 0..Len(s)] ==
        IF n = 0 THEN <<>> ELSE bytesTo[n - 1] \o [i \in 1..s[n].n |-> s[n].first + i - 1]
  IN bytesTo[Len(s)]
Copying == IF rlock = None THEN <<>> ELSE taken[rlock]
Inside == Bytes(Copying \o blocks)

(* The queue behaves as a stream: each byte is read once, in order, none   *)
(* is lost before the reading end closes, although qread takes a block and *)
(* puts its rest back in two sections, and any number of processes read.   *)
AbstractStream == INSTANCE Stream WITH inside <- Inside, got <- got
RefinesStream == AbstractStream!Spec

(* A writer queues its block before it waits, so the queue exceeds its     *)
(* limit, but by a bounded amount: one block, one more that was queued     *)
(* while a reader had a block out, and one for each interrupted write      *)
(* ("a process that keeps getting interrupted and rewriting").             *)
FlowBound == len < Limit + (2 + MaxInterrupts - interrupts) * Maxatomic

(* A reader is told of the end only when everything written was read. *)
EofMeansAll == \A r \in Readers : pc[r] = "eof" => got = queued

(* When both ends are closed nobody is left asleep or in a lock, and the   *)
(* queue is open for the next user of the pipe.  It need not be empty:     *)
(* what a writer wrote while no reader had opened it stays, as does Qflow. *)
CleanWhenClosed ==
  (\A p \in Procs : pc[p] = "out") =>
    rlock = None /\ wlock = None /\ rr = None /\ wr = None /\ ~closed /\ LenExact

(* The accounts of the queue are right, in use and when it is used again:  *)
(* q->len, which qread and qbwrite change in separate sections, and the    *)
(* state that pipeclose and qreopen leave.                                 *)
QueueExact == TypeOK /\ LenExact /\ CleanWhenClosed

(* No reader sleeps on for ever while there is a block or the queue has    *)
(* been closed.                                                            *)
ReaderWakes == \A r \in Readers : []<>(pc[r] # "rasleep" \/ ~notempty)

(* No writer sleeps on for ever while the queue is less than half full or  *)
(* has been closed.                                                        *)
WriterWakes == \A w \in Writers : []<>(pc[w] # "wasleep" \/ (len >= Limit \div 2 /\ ~closed))

(* qwakeup_unlock and qclose wake both sides. *)
SleepersWake == ReaderWakes /\ WriterWakes
============================================================================
