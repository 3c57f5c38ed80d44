------------------------------ MODULE Exportfs -----------------------------
(***************************************************************************)
(* The server side of a Styx mount, styx/svcs/exportfs.c: exportproc reads *)
(* T-messages and queues them on exq; slave processes take them, run the   *)
(* file call and reply; a Tflush discards a request that has not started,  *)
(* or joins the flush queue of the one in progress and interrupts its      *)
(* slave; when the connection hangs up the work is abandoned.              *)
(*                                                                         *)
(* One export.  A step is what a process does between two operations on    *)
(* exq.l or fs->l, or one write of a reply; the sections under q->l and    *)
(* under a process's rlock are inside such steps and take no other lock.   *)
(* exq.qwait and exq.rwait are used through what QLock and Rendez promise: *)
(* one slave at a time waits for work, and Wakeup is not lost.             *)
(***************************************************************************)
EXTENDS Integers, Sequences, FiniteSets

CONSTANTS
  Reqs,      \* the requests a client may send, other than Tflush
  Flushes,   \* the Tflush messages it may send; messages are numbered, and
             \* those of a kind are sent in the order of their numbers
  Blocking,  \* the requests whose file call returns only if interrupted
  Slaves,    \* bound: the slave processes that may be made
  MayHangUp, \* whether the client may close the connection
  None       \* nil, and a free lock

ASSUME ExportfsAssumption ==
  /\ Reqs \cup Flushes \subseteq Nat
  /\ Reqs \cap Flushes = {} /\ Blocking \subseteq Reqs
  /\ MayHangUp \in BOOLEAN
  /\ None \notin Reqs \cup Flushes \cup Slaves

VARIABLES
  exql, fsl,   \* exq.l and fs->l: "slave s", "exportproc" or None
  exq,         \* the requests that can be reached from exq.head
  tail,        \* exq.tail, which may point at freed memory
  stray,       \* history: the requests hung on one that is not on exq
  work,        \* fs->work
  flush,       \* q->flush, per request
  slave,       \* q->slave
  busy, finished, shut,  \* the flags of each request
  asked,       \* the messages the client has sent
  oldtag,      \* what a Tflush asks to flush
  live,        \* the messages whose Exq is allocated
  ref,         \* fs->r
  killed,      \* p->killed, per slave
  qwait, qwaitq, \* exq.qwait: the slave that holds it, and its list
  epc, msg,    \* exportproc: where it is, and its q
  spc, job, fq, err,  \* each slave: where it is, its q, its fq, and err # nil
  sent         \* the replies written to fs->io, in order

queues == <<exq, tail, stray, work, flush, slave>>
marks == <<busy, finished, shut>>
export == <<epc, msg, oldtag, asked>>
slaves == <<spc, job, fq, err>>
qlocks == <<qwait, qwaitq>>
vars == <<exql, fsl, queues, marks, live, ref, killed, qlocks, export, slaves, sent>>

Msgs == Reqs \cup Flushes
Exporter == "exportproc"

Init ==
  /\ exql = None /\ fsl = None
  /\ exq = <<>> /\ tail = None /\ stray = {} /\ work = {}
  /\ flush = [q \in Reqs |-> <<>>] /\ slave = [q \in Reqs |-> None]
  /\ busy = [q \in Reqs |-> FALSE] /\ finished = [q \in Reqs |-> FALSE]
  /\ shut = [q \in Reqs |-> FALSE]
  /\ asked = {} /\ oldtag = [f \in Flushes |-> None]
  /\ live = {} /\ ref = 1
  /\ killed = [s \in Slaves |-> FALSE]
  /\ qwait = None /\ qwaitq = <<>>
  /\ epc = "read" /\ msg = None
  /\ spc = [s \in Slaves |-> "none"] /\ job = [s \in Slaves |-> None]
  /\ fq = [s \in Slaves |-> None] /\ err = [s \in Slaves |-> FALSE]
  /\ sent = <<>>

Eto(from, to) == epc = from /\ epc' = to
Sto(s, from, to) == spc[s] = from /\ spc' = [spc EXCEPT ![s] = to]
InSeq(q) == {q[i] : i \in DOMAIN q}
Without(q, m) ==
  LET i == CHOOSE j \in DOMAIN q : q[j] = m
  IN  SubSeq(q, 1, i - 1) \o SubSeq(q, i + 1, Len(q))

(* exfreeq and exfree: free the messages and drop their references. *)
Free(ms) == live' = live \ ms /\ ref' = ref - Cardinality(ms)
----------------------------------------------------------------------------
(* exportproc: read a message and take a reference for it.  The client's   *)
(* tags are its own: it sends each message once, and flushes what it has   *)
(* sent.                                                                   *)
IsNext(m, ms) == m \notin asked /\ \A n \in ms : n < m => n \in asked

ReadRequest(q) ==
  /\ Eto("read", "append")
  /\ IsNext(q, Reqs)
  /\ asked' = asked \cup {q}
  /\ msg' = q
  /\ live' = live \cup {q}
  /\ ref' = ref + 1
  /\ UNCHANGED <<exql, fsl, queues, marks, killed, qlocks, oldtag, slaves, sent>>

ReadFlush(f, q) ==
  /\ Eto("read", "flush_exq")
  /\ IsNext(f, Flushes) /\ q \in asked
  /\ asked' = asked \cup {f}
  /\ oldtag' = [oldtag EXCEPT ![f] = q]
  /\ msg' = f
  /\ live' = live \cup {f}
  /\ ref' = ref + 1
  /\ UNCHANGED <<exql, fsl, queues, marks, killed, qlocks, slaves, sent>>

(* Put the request on the queue.  FlushQueued does not move exq.tail: when  *)
(* it discarded the last of several requests, exq.tail->next = q is written *)
(* into freed memory and q cannot be reached from exq.head; nor can those   *)
(* that follow, until the slaves have emptied the queue.  The freed memory  *)
(* is taken not to be in use again by then.                                 *)
TailStale == exq # <<>> /\ exq[Len(exq)] # tail

AppendRequest ==
  /\ Eto("append", "wake")
  /\ exql = None
  /\ exq' = IF TailStale THEN exq ELSE Append(exq, msg)
  /\ stray' = IF TailStale THEN stray \cup {msg} ELSE stray
  /\ tail' = msg
  /\ UNCHANGED <<exql, fsl, work, flush, slave, marks, live, ref, killed, qlocks, msg, oldtag, asked,
                 slaves, sent>>

(* A new slave if nobody queues for exq.qwait, and Wakeup(&exq.rwait). *)
Unmade == {s \in Slaves : spc[s] = "none"}

WakeSlave ==
  /\ Eto("wake", "read")
  /\ msg' = None
  /\ \/ qwaitq = <<>> /\ Unmade # {} /\ Sto(CHOOSE s \in Unmade : TRUE, "none", "qlock")
     \/ (qwaitq # <<>> \/ Unmade = {}) /\ UNCHANGED spc
  /\ UNCHANGED <<exql, fsl, queues, marks, live, ref, killed, qlocks, oldtag, asked, job, fq, err, sent>>

(* exflushed, first part: discard a request that has not started. *)
FlushQueued ==
  LET q == oldtag[msg] IN
  /\ epc = "flush_exq"
  /\ exql = None
  /\ IF q \in InSeq(exq)
     THEN /\ exq' = Without(exq, q)
          /\ Free({q})
          /\ epc' = "rflush"
     ELSE /\ epc' = "flush_work"
          /\ UNCHANGED <<exq, live, ref>>
  /\ UNCHANGED <<exql, fsl, tail, stray, work, flush, slave, marks, killed, qlocks, msg, oldtag, asked,
                 slaves, sent>>

(* Mutants: the flush is answered at once although the slave works on, or  *)
(* is queued without an interrupt.                                         *)
FlushWorking_AtOnce ==
  /\ Eto("flush_work", "rflush")
  /\ fsl = None
  /\ UNCHANGED <<exql, fsl, queues, marks, live, ref, killed, qlocks, msg, oldtag, asked, slaves, sent>>


(* exflushed, second part, under fs->l: not found; finished, and return     *)
(* with fs->l held; or append to the flush queue and interrupt the slave.   *)
FlushWorking ==
  LET q == oldtag[msg] IN
  /\ epc = "flush_work"
  /\ fsl = None
  /\ \/ /\ q \notin work
        /\ epc' = "rflush"
        /\ UNCHANGED <<fsl, flush, killed, msg>>
     \/ /\ q \in work /\ finished[q]
        /\ epc' = "rflush"
        /\ fsl' = Exporter
        /\ UNCHANGED <<flush, killed, msg>>
     \/ /\ q \in work /\ ~finished[q]
        /\ epc' = "read"
        /\ msg' = None
        /\ flush' = [flush EXCEPT ![q] = Append(@, msg)]
        /\ killed' = IF busy[q] THEN [killed EXCEPT ![slave[q]] = TRUE] ELSE killed
        /\ UNCHANGED fsl
  /\ UNCHANGED <<exql, exq, tail, stray, work, slave, marks, live, ref, qlocks, oldtag, asked, slaves, sent>>

(* exreply(q) and exfreeq(q) of a flush that exflushed did not pass on. *)
ReplyFlush ==
  /\ Eto("rflush", "read")
  /\ sent' = Append(sent, msg)
  /\ Free({msg})
  /\ msg' = None
  /\ UNCHANGED <<exql, fsl, queues, marks, killed, qlocks, oldtag, asked, slaves>>
----------------------------------------------------------------------------
(* The connection ends: exshutdown, and exportproc drops its reference. *)
HangUp ==
  /\ MayHangUp
  /\ Eto("read", "shut_exq")
  /\ UNCHANGED <<exql, fsl, queues, marks, live, ref, killed, qlocks, msg, oldtag, asked, slaves, sent>>

DropQueued ==
  /\ Eto("shut_exq", "shut_work")
  /\ exql = None
  /\ exq' = <<>>
  /\ Free(InSeq(exq))
  /\ UNCHANGED <<exql, fsl, tail, stray, work, flush, slave, marks, killed, qlocks, msg, oldtag, asked,
                 slaves, sent>>

(* Mutant: the slaves are left in their calls. *)
AbandonWork_NoInterrupt ==
  /\ Eto("shut_work", "exfree")
  /\ fsl = None
  /\ shut' = [q \in Reqs |-> shut[q] \/ q \in work]
  /\ work' = {}
  /\ UNCHANGED <<exql, fsl, exq, tail, stray, flush, slave, busy, finished, live, ref, killed, qlocks, msg,
                 oldtag, asked, slaves, sent>>

AbandonWork ==
  /\ Eto("shut_work", "exfree")
  /\ fsl = None
  /\ shut' = [q \in Reqs |-> shut[q] \/ q \in work]
  /\ killed' = [s \in Slaves |-> killed[s] \/ \E q \in work : slave[q] = s]
  /\ work' = {}
  /\ UNCHANGED <<exql, fsl, exq, tail, stray, flush, slave, busy, finished, live, ref, qlocks, msg,
                 oldtag, asked, slaves, sent>>

ExporterLeaves ==
  /\ Eto("exfree", "done")
  /\ ref' = ref - 1
  /\ UNCHANGED <<exql, fsl, queues, marks, live, killed, qlocks, msg, oldtag, asked, slaves, sent>>

exportproc ==
  \/ \E q \in Reqs : ReadRequest(q) \/ \E f \in Flushes : ReadFlush(f, q)
  \/ AppendRequest \/ WakeSlave \/ FlushQueued \/ FlushWorking \/ ReplyFlush
  \/ HangUp \/ DropQueued \/ AbandonWork \/ ExporterLeaves
----------------------------------------------------------------------------
(* qlock(&exq.qwait) and qunlock(&exq.qwait), as FifoMutex has them. *)
SlaveWait(s) ==
  /\ Sto(s, "qlock", "sleep")
  /\ \/ qwait = None /\ qwait' = s /\ UNCHANGED qwaitq
     \/ qwait # None /\ qwaitq' = Append(qwaitq, s) /\ UNCHANGED qwait
  /\ UNCHANGED <<exql, fsl, queues, marks, live, ref, killed, export, job, fq, err, sent>>

qunlock ==
  IF qwaitq = <<>>
  THEN qwait' = None /\ UNCHANGED qwaitq
  ELSE qwait' = Head(qwaitq) /\ qwaitq' = Tail(qwaitq)

(* With exq.qwait, sleep until there is work; an interrupt sends the slave  *)
(* round the loop.                                                         *)
SlaveWake(s) ==
  /\ spc[s] = "sleep" /\ qwait = s
  /\ killed[s] \/ exq # <<>>
  /\ spc' = [spc EXCEPT ![s] = IF killed[s] THEN "qlock" ELSE "take"]
  /\ killed' = [killed EXCEPT ![s] = FALSE]
  /\ IF killed[s] THEN qunlock ELSE UNCHANGED qlocks
  /\ UNCHANGED <<exql, fsl, queues, marks, live, ref, export, job, fq, err, sent>>

(* Under exq.l: take the head, which a flush may have discarded meanwhile; *)
(* let the next slave wait, and mark the request as in progress.           *)
SlaveTake(s) ==
  /\ spc[s] = "take"
  /\ exql = None
  /\ qunlock
  /\ \/ /\ exq = <<>>
        /\ Sto(s, "take", "qlock")
        /\ UNCHANGED <<exql, exq, slave, busy, killed, job>>
     \/ /\ exq # <<>>
        /\ Sto(s, "take", "post")
        /\ exql' = s
        /\ exq' = Tail(exq)
        /\ job' = [job EXCEPT ![s] = Head(exq)]
        /\ slave' = [slave EXCEPT ![Head(exq)] = s]
        /\ busy' = [busy EXCEPT ![Head(exq)] = TRUE]
        /\ killed' = [killed EXCEPT ![s] = FALSE]
  /\ UNCHANGED <<fsl, tail, stray, work, flush, finished, shut, live, ref, export, fq, err, sent>>

(* Still under exq.l: put the request on the export's work list. *)
SlavePost(s) ==
  /\ Sto(s, "post", "call")
  /\ fsl = None
  /\ work' = work \cup {job[s]}
  /\ exql' = None
  /\ UNCHANGED <<fsl, exq, tail, stray, flush, slave, marks, live, ref, killed, qlocks, export, job,
                 fq, err, sent>>

(* The file call returns, with an error or without. *)
SlaveCall(s, e) ==
  /\ Sto(s, "call", "end")
  /\ job[s] \in Blocking => killed[s] /\ e
  /\ err' = [err EXCEPT ![s] = e]
  /\ UNCHANGED <<exql, fsl, queues, marks, live, ref, killed, qlocks, export, job, fq, sent>>

(* Mutant: the interrupt of this request is left for the next. *)
SlaveEnd_StillKilled(s) ==
  LET q == job[s] IN
  /\ spc[s] = "end"
  /\ busy' = [busy EXCEPT ![q] = FALSE]
  /\ Sto(s, "end", IF ~shut[q] /\ (flush[q] = <<>> \/ ~err[s]) THEN "reply" ELSE "flushes")
  /\ UNCHANGED <<exql, fsl, queues, finished, shut, live, ref, killed, qlocks, export, job, fq, err,
                 sent>>

(* Under q->l: no longer interruptible; decide whether to reply. *)
SlaveEnd(s) ==
  LET q == job[s] IN
  /\ spc[s] = "end"
  /\ killed' = [killed EXCEPT ![s] = FALSE]
  /\ busy' = [busy EXCEPT ![q] = FALSE]
  /\ \/ ~shut[q] /\ (flush[q] = <<>> \/ ~err[s]) /\ Sto(s, "end", "reply")
     \/ ~shut[q] /\ ~(flush[q] = <<>> \/ ~err[s]) /\ Sto(s, "end", "flushes")
     \/ shut[q] /\ Sto(s, "end", "flushes")
  /\ UNCHANGED <<exql, fsl, queues, finished, shut, live, ref, qlocks, export, job, fq, err, sent>>

SlaveReply(s) ==
  /\ Sto(s, "reply", "flushes")
  /\ sent' = Append(sent, job[s])
  /\ UNCHANGED <<exql, fsl, queues, marks, live, ref, killed, qlocks, export, job, fq, err>>

(* Under q->l: take the next flush, or promise not to send any more. *)
SlaveFlushes(s) ==
  LET q == job[s] IN
  /\ spc[s] = "flushes"
  /\ \/ /\ flush[q] # <<>> /\ ~shut[q]
        /\ Sto(s, "flushes", "rflush")
        /\ fq' = [fq EXCEPT ![s] = Head(flush[q])]
        /\ flush' = [flush EXCEPT ![q] = Tail(@)]
        /\ UNCHANGED finished
     \/ /\ flush[q] = <<>> \/ shut[q]
        /\ Sto(s, "flushes", "unlink")
        /\ finished' = [finished EXCEPT ![q] = TRUE]
        /\ UNCHANGED <<fq, flush>>
  /\ UNCHANGED <<exql, fsl, exq, tail, stray, work, slave, busy, shut, live, ref, killed, qlocks,
                 export, job, err, sent>>

SlaveRflush(s) ==
  /\ Sto(s, "rflush", "flushes")
  /\ sent' = Append(sent, fq[s])
  /\ Free({fq[s]})
  /\ fq' = [fq EXCEPT ![s] = None]
  /\ UNCHANGED <<exql, fsl, queues, marks, killed, qlocks, export, job, err>>

(* Mutant: the request stays on the work list after it is freed. *)
SlaveUnlink_Forgets(s) ==
  /\ Sto(s, "unlink", "free")
  /\ fsl = None
  /\ UNCHANGED <<exql, fsl, queues, marks, live, ref, killed, qlocks, export, job, fq, err, sent>>

SlaveUnlink(s) ==
  /\ Sto(s, "unlink", "free")
  /\ fsl = None
  /\ work' = work \ {job[s]}
  /\ UNCHANGED <<exql, fsl, exq, tail, stray, flush, slave, marks, live, ref, killed, qlocks, export,
                 job, fq, err, sent>>

(* notkilled() and exfreeq(q), with the flushes a shutdown left behind. *)
SlaveFree(s) ==
  LET q == job[s] IN
  /\ Sto(s, "free", "qlock")
  /\ killed' = [killed EXCEPT ![s] = FALSE]
  /\ Free({q} \cup InSeq(flush[q]))
  /\ flush' = [flush EXCEPT ![q] = <<>>]
  /\ job' = [job EXCEPT ![s] = None]
  /\ UNCHANGED <<exql, fsl, exq, tail, stray, work, slave, marks, qlocks, export, fq, err, sent>>

exslave(s) ==
  \/ SlaveWait(s) \/ SlaveWake(s) \/ SlaveTake(s) \/ SlavePost(s)
  \/ \E e \in BOOLEAN : SlaveCall(s, e)
  \/ SlaveEnd(s) \/ SlaveReply(s) \/ SlaveFlushes(s) \/ SlaveRflush(s)
  \/ SlaveUnlink(s) \/ SlaveFree(s)

Next == exportproc \/ \E s \in Slaves : exslave(s)

(***************************************************************************)
(* Processes inside a request keep running; the client need never send     *)
(* another message or hang up.                                             *)
(***************************************************************************)
Fairness ==
  /\ WF_vars(exportproc /\ epc # "read")
  /\ \A s \in Slaves : SF_vars(exslave(s))

Spec == Init /\ [][Next]_vars
FairSpec == Spec /\ Fairness
----------------------------------------------------------------------------
TypeOK ==
  /\ {exql, fsl} \subseteq Slaves \cup {Exporter, None}
  /\ exq \in Seq(Reqs) /\ tail \in Reqs \cup {None}
  /\ stray \cup work \subseteq Reqs
  /\ flush \in [Reqs -> Seq(Flushes)]
  /\ slave \in [Reqs -> Slaves \cup {None}] /\ asked \subseteq Msgs
  /\ {busy, finished, shut} \subseteq [Reqs -> BOOLEAN]
  /\ live \subseteq Msgs /\ ref \in Nat
  /\ killed \in [Slaves -> BOOLEAN] /\ qwait \in Slaves \cup {None}
  /\ qwaitq \in Seq(Slaves)
  /\ job \in [Slaves -> Reqs \cup {None}] /\ fq \in [Slaves -> Flushes \cup {None}]
  /\ sent \in Seq(Msgs)

(***************************************************************************)
(* No message is answered twice: a flushed request is answered by its      *)
(* slave or not at all, a Tflush by exportproc or by the slave whose       *)
(* request it names, never by both.                                        *)
(***************************************************************************)
RepliesOnce == \A i, j \in DOMAIN sent : sent[i] = sent[j] => i = j

(***************************************************************************)
(* "must also reply to each flush in order, and only after the original    *)
(* reply (if sent)" (exportfs.c): after Rflush the client may reuse the    *)
(* tag, so no answer to the flushed request follows it.                    *)
(***************************************************************************)
NothingAfterRflush ==
  \A i, j \in DOMAIN sent :
    sent[i] \in Flushes /\ sent[j] = oldtag[sent[i]] => j < i

(***************************************************************************)
(* "must also reply to each flush in order" (exportfs.c): the flushes of   *)
(* one request are answered in the order in which the client sent them,    *)
(* whether exportproc or the slave answers.                                *)
(***************************************************************************)
FlushesInOrder ==
  \A i, j \in DOMAIN sent :
    /\ i < j /\ {sent[i], sent[j]} \subseteq Flushes
    /\ oldtag[sent[i]] = oldtag[sent[j]]
    => sent[i] < sent[j]

(***************************************************************************)
(* What the client is promised about answers: none comes twice, none after *)
(* the Rflush that cancels it, and the Rflushes come in order, whichever of *)
(* exportproc and the slaves sends them.                                   *)
(***************************************************************************)
AnswersAsPromised == RepliesOnce /\ NothingAfterRflush /\ FlushesInOrder

(***************************************************************************)
(* An interrupt hits the request it was meant for: a slave is marked       *)
(* killed only during a request that has a flush queued or whose export    *)
(* has shut down, and never takes the mark with it to the next one.        *)
(***************************************************************************)
InterruptHitsItsRequest ==
  \A s \in Slaves : killed[s] =>
    job[s] # None /\ (flush[job[s]] # <<>> \/ shut[job[s]])

(* The messages that exportproc, the slaves and the flush queues hold. *)
AtExporter == IF epc \in {"append", "flush_exq", "flush_work", "rflush"} THEN {msg} ELSE {}
AtSlaves == ({job[s] : s \in Slaves} \cup {fq[s] : s \in Slaves}) \ {None}
Pending == UNION {InSeq(flush[q]) : q \in Reqs}

(***************************************************************************)
(* fs->r counts the messages that exist and exportproc, and every message  *)
(* that exists is where somebody will find it: on exq, with exportproc, a  *)
(* slave or a flush queue.  The one exception is named: the stray requests *)
(* of AppendRequest, which nobody will free.                               *)
(***************************************************************************)
EveryMessagePlaced ==
  /\ ref = Cardinality(live) + (IF epc = "done" THEN 0 ELSE 1)
  /\ live = AtExporter \cup InSeq(exq) \cup AtSlaves \cup Pending \cup stray
  /\ work \subseteq {job[s] : s \in Slaves}
  /\ stray \cap (AtExporter \cup InSeq(exq) \cup AtSlaves) = {}

(***************************************************************************)
(* exq.tail is the last request of exq, so that an append writes a request *)
(* that exists, except after exflushed has discarded the last of several:  *)
(* then it is that freed request, or a stray one.  A request goes astray   *)
(* only after such a flush.                                                *)
(***************************************************************************)
FreedOnlyThroughTail ==
  /\ TailStale => \/ tail \in stray
                  \/ tail \notin live /\ \E f \in asked \cap Flushes : oldtag[f] = tail
  /\ stray # {} => \E f \in asked \cap Flushes : oldtag[f] \notin live

(***************************************************************************)
(* The references to the export, the queues and the requests agree: what   *)
(* is freed is on no list and with no process, and can be reached only     *)
(* through a stale exq.tail.                                               *)
(***************************************************************************)
ReferencesExact == TypeOK /\ EveryMessagePlaced /\ FreedOnlyThroughTail

(***************************************************************************)
(* "place request node on queue"; exq.head is the "work waiting for a      *)
(* slave" (exportfs.c): a request that exportproc has queued and no slave  *)
(* has taken can be reached from exq.head.  False when exq.tail is stale.  *)
(***************************************************************************)
WaitingWorkQueued == (live \cap Reqs) \ (AtExporter \cup AtSlaves) \subseteq InSeq(exq)

Answered(m) == m \in InSeq(sent)

(* exflushed has returned with fs->l held, and nobody will unlock it. *)
LockLeftHeld == fsl = Exporter
HungUp == epc \in {"shut_exq", "shut_work", "exfree", "done"}

(***************************************************************************)
(* A request whose call returns is answered by a slave of exslave, unless  *)
(* the client flushes it or hangs up, fs->l was left held, or the request  *)
(* went astray because exq.tail was stale.                                 *)
(***************************************************************************)
RequestEnds(q) ==
  \/ Answered(q) \/ \E f \in Flushes : oldtag[f] = q
  \/ HungUp \/ LockLeftHeld \/ q \in stray

(***************************************************************************)
(* The interrupt of exflushed ends a call that would never have returned:  *)
(* its Tflush is answered, unless the client hangs up or fs->l was left    *)
(* held.                                                                   *)
(***************************************************************************)
FlushEnds(f) == Answered(f) \/ HungUp \/ LockLeftHeld


(***************************************************************************)
(* "slave replied and emptied its flush queue; we can Rflush now" and      *)
(* "must also reply to each flush" (exportfs.c): every Tflush is answered. *)
(***************************************************************************)
FlushAnswered == \A f \in Flushes : (f \in live) ~> Answered(f)

(***************************************************************************)
(* After a hang-up the slaves give up their work, blocked calls included,  *)
(* and drop their references: the export is freed if no request went       *)
(* astray, and otherwise keeps one reference for each that did; unless     *)
(* fs->l was left held.                                                    *)
(***************************************************************************)
ExportFreed == []<>(HungUp => ref = Cardinality(stray) \/ LockLeftHeld)
============================================================================
