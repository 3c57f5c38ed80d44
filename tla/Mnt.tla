--------------------------------- MODULE Mnt -------------------------------
(***************************************************************************)
(* The client side of a Styx mount, styx/svcs/devmnt.c: processes share a  *)
(* connection to a server.  Each puts its rpc on m->queue and writes it;   *)
(* one of them at a time (m->rip) reads replies and hands them to the rpcs *)
(* they answer, the others sleep on their own rpc until it is done or the  *)
(* place of the reader is free.  An interrupted call sends a Tflush and    *)
(* waits for the answer to that; the flush is chained to what it flushes.  *)
(*                                                                         *)
(* An rpc header keeps its tag while it is allocated, so the tag stands    *)
(* for the header.  A step is one critical section of m->l or mntalloc.l,  *)
(* or one read or write of the connection.  Sleep, Wakeup and swiproc are  *)
(* used through what the module Rendez shows of them: Sleep tests its      *)
(* condition and registers in one step, and a Wakeup after that is not     *)
(* lost.                                                                   *)
(*                                                                         *)
(* The server is any that keeps the promises of the module Exportfs: at    *)
(* most one reply to a message, none to a request after the Rflush that    *)
(* discards it, and the flushes of a request answered in order.            *)
(***************************************************************************)
EXTENDS Integers, Sequences, FiniteSets, FiniteSetsExt, SequencesExt

CONSTANTS
  Procs,         \* the processes with files on this mount
  Tags,          \* bound: the tags there are
  MaxFree,       \* the most headers kept on the free list (10 in the code)
  Work,          \* bound: the calls each process makes, numbers in the
                 \* order in which the calls of all processes are made
  Blocking,      \* the calls the server need not answer unless they are flushed
  Victims,       \* bound: the processes that may be interrupted
  MaxInterrupts, \* bound: how often that happens
  None           \* nil

ASSUME MntAssumption ==
  /\ Tags \subseteq Nat /\ Work \in [Procs -> Seq(Nat \ {0})]
  /\ MaxFree \in Nat /\ MaxInterrupts \in Nat
  /\ None \notin Procs /\ None \notin Nat /\ None \notin {"Eintr", "fail"}

VARIABLES
  queue, rip,   \* m->queue, the newest first, and m->rip
  rpc,          \* the headers: done, reply, flushed, and the process on the
                \* Rendez r; call and oldtag are what the request says
  rpcfree,      \* mntalloc.rpcfree
  tagmask,      \* the tags in use, on the free list or not
  pc, killed,   \* where each process is, and whether it has been killed
  orig, cur,    \* the r of mountrpc's caller, and that of mountio
  late,         \* mountmux's q once m->l is released
  err,          \* the error that is being raised
  todo, interrupts, \* the calls each process has yet to make, and the interrupts so far
  owed,         \* the messages the server has to answer, oldest first
  replies,      \* its replies that have not been read
  hungup        \* whether the server has gone

headers == <<rpc, rpcfree, tagmask>>
mount == <<queue, rip>>
procs == <<pc, killed, orig, cur, late, err>>
counts == <<todo, interrupts>>
server == <<owed, replies, hungup>>
vars == <<mount, headers, procs, counts, server>>

Calls == UNION {ToSet(Work[p]) : p \in Procs}
Rflush == 0   \* the reply that answers no call
NoReply == [tag |-> None, of |-> None]
Unused == [done |-> FALSE, reply |-> NoReply, flushed |-> None,
           sleeper |-> None, call |-> None, oldtag |-> None]

Init ==
  /\ queue = <<>> /\ rip = None
  /\ rpc = [t \in Tags |-> Unused] /\ rpcfree = <<>> /\ tagmask = {}
  /\ pc = [p \in Procs |-> "idle"] /\ killed = [p \in Procs |-> FALSE]
  /\ orig = [p \in Procs |-> None] /\ cur = [p \in Procs |-> None]
  /\ late = [p \in Procs |-> None] /\ err = [p \in Procs |-> None]
  /\ todo = Work /\ interrupts = 0
  /\ owed = <<>> /\ replies = <<>> /\ hungup = FALSE

Goto(p, from, to) == pc[p] = from /\ pc' = [pc EXCEPT ![p] = to]
Raise(p, e) == err' = [err EXCEPT ![p] = e]
----------------------------------------------------------------------------
(* mntralloc: the newest free header, or a new one with the lowest free    *)
(* tag.  The Rendez of the header is left as it is.                        *)
Spare == rpcfree # <<>> \/ Tags \ tagmask # {}
NewTag == IF rpcfree # <<>> THEN Head(rpcfree) ELSE Min(Tags \ tagmask)

Fresh(t) == [Unused EXCEPT !.sleeper = rpc[t].sleeper]

mntralloc(call, oldtag, flushed) ==
  /\ Spare
  /\ rpc' = [rpc EXCEPT ![NewTag] = [Fresh(NewTag) EXCEPT !.call = call, !.oldtag = oldtag,
                                                          !.flushed = flushed]]
  /\ rpcfree' = IF rpcfree # <<>> THEN Tail(rpcfree) ELSE rpcfree
  /\ tagmask' = tagmask \cup {NewTag}

mntfree(t) ==
  /\ IF Len(rpcfree) >= MaxFree
     THEN tagmask' = tagmask \ {t} /\ UNCHANGED rpcfree
     ELSE rpcfree' = <<t>> \o rpcfree /\ UNCHANGED tagmask
  /\ rpc' = [rpc EXCEPT ![t] = Fresh(t)]

(* mountio, first part: put the new rpc on the queue.  The section of      *)
(* mntralloc and this one are one step: nobody else has seen the header.   *)
Enqueue(p) ==
  /\ queue' = <<NewTag>> \o queue
  /\ cur' = [cur EXCEPT ![p] = NewTag]
  /\ UNCHANGED rip

(* A file operation allocates an rpc and calls mountrpc. *)
Call(p) ==
  /\ Goto(p, "idle", "write")
  /\ todo[p] # <<>>
  /\ \A q \in Procs : todo[q] # <<>> => Head(todo[p]) <= Head(todo[q])
  /\ todo' = [todo EXCEPT ![p] = Tail(@)]
  /\ mntralloc(Head(todo[p]), None, None)
  /\ orig' = [orig EXCEPT ![p] = NewTag]
  /\ Enqueue(p)
  /\ UNCHANGED <<killed, late, err, interrupts, server>>

(* Transmit the rpc. *)
Message(t) == [tag |-> t, call |-> rpc[t].call, oldtag |-> rpc[t].oldtag]

Write(p) ==
  /\ Goto(p, "write", "gate")
  /\ ~hungup
  /\ owed' = Append(owed, Message(cur[p]))
  /\ UNCHANGED <<mount, headers, killed, orig, cur, late, err, counts, replies, hungup>>

WriteFails(p) ==
  /\ Goto(p, "write", "handler")
  /\ hungup
  /\ Raise(p, "fail")
  /\ UNCHANGED <<mount, headers, killed, orig, cur, late, counts, server>>

(* A write that is interrupted may have sent its message: qbwrite queues   *)
(* the data before it sleeps for flow control.                             *)
WriteInterrupted(p) ==
  /\ Goto(p, "write", "handler")
  /\ killed[p]
  /\ killed' = [killed EXCEPT ![p] = FALSE]
  /\ Raise(p, "Eintr")
  /\ owed' \in {owed} \cup (IF hungup THEN {} ELSE {Append(owed, Message(cur[p]))})
  /\ UNCHANGED <<mount, headers, orig, cur, late, counts, replies, hungup>>

(* The gate: become the reader, or sleep until done or nobody reads. *)
TakeGate(p) ==
  /\ Goto(p, "gate", IF rip # None THEN "sleep"
                     ELSE IF rpc[cur[p]].done THEN "gated" ELSE "read")
  /\ rip' = IF rip = None THEN p ELSE rip
  /\ UNCHANGED <<queue, headers, killed, orig, cur, late, err, counts, server>>

Awake(p) == IF rpc[cur[p]].done THEN "chain" ELSE "gate"
rpcattn(t) == rpc[t].done \/ rip = None

Sleep(p) ==
  /\ Goto(p, "sleep", IF rpcattn(cur[p]) THEN Awake(p) ELSE "asleep")
  /\ ~killed[p]
  /\ rpc' = IF rpcattn(cur[p]) THEN rpc ELSE [rpc EXCEPT ![cur[p]].sleeper = p]
  /\ UNCHANGED <<mount, rpcfree, tagmask, killed, orig, cur, late, err, counts, server>>

SleepReturns(p) ==
  /\ Goto(p, "asleep", Awake(p))
  /\ rpc[cur[p]].sleeper # p /\ ~killed[p]
  /\ UNCHANGED <<mount, headers, killed, orig, cur, late, err, counts, server>>

SleepInterrupted(p) ==
  /\ \/ Goto(p, "sleep", "handler")
     \/ Goto(p, "asleep", "handler") /\ rpc[cur[p]].sleeper # p
  /\ killed[p]
  /\ killed' = [killed EXCEPT ![p] = FALSE]
  /\ Raise(p, "Eintr")
  /\ UNCHANGED <<mount, headers, orig, cur, late, counts, server>>

----------------------------------------------------------------------------
(* The reader.  mntrpcread decodes into r->reply, whosever reply it is;    *)
(* an interrupt or the end of the connection ends the read.                *)
mntrpcread(p) ==
  /\ Goto(p, "read", "mux")
  /\ replies # <<>>
  /\ rpc' = [rpc EXCEPT ![cur[p]].reply = Head(replies)]
  /\ replies' = Tail(replies)
  /\ UNCHANGED <<mount, rpcfree, tagmask, killed, orig, cur, late, err, counts, owed, hungup>>

ReadInterrupted(p) ==
  /\ Goto(p, "read", "handler")
  /\ killed[p]
  /\ killed' = [killed EXCEPT ![p] = FALSE]
  /\ Raise(p, "Eintr")
  /\ UNCHANGED <<mount, headers, orig, cur, late, counts, server>>

ReadFails(p) ==
  /\ Goto(p, "read", "handler")
  /\ hungup /\ replies = <<>>
  /\ Raise(p, "fail")
  /\ UNCHANGED <<mount, headers, killed, orig, cur, late, counts, server>>

(* Mutant: the reply goes to the oldest rpc. *)
mountmux_Oldest(p) ==
  LET r == cur[p]
      q == queue[Len(queue)] IN
  /\ pc[p] = "mux" /\ queue # <<>>
  /\ queue' = Front(queue)
  /\ rpc' = [rpc EXCEPT ![q].reply = rpc[r].reply, ![q].done = TRUE]
  /\ late' = [late EXCEPT ![p] = IF q = r THEN None ELSE q]
  /\ Goto(p, "mux", IF q = r THEN "gated" ELSE "muxwake")
  /\ UNCHANGED <<rip, rpcfree, tagmask, killed, orig, cur, err, counts, server>>

(* mountmux: find the queued rpc with the tag of the reply, take it off    *)
(* the queue, give it the reply and mark it done; a reply with an unknown  *)
(* tag is dropped.  The rpc is woken after m->l has been released.         *)
mountmux(p) ==
  LET r == cur[p]
      q == rpc[r].reply.tag IN
  /\ pc[p] = "mux"
  /\ IF Contains(queue, q)
     THEN /\ queue' = RemoveFirst(queue, q)
          /\ rpc' = [rpc EXCEPT ![q].reply = rpc[r].reply, ![q].done = TRUE]
          /\ late' = [late EXCEPT ![p] = IF q = r THEN None ELSE q]
          /\ Goto(p, "mux", IF q = r THEN "gated" ELSE "muxwake")
     ELSE /\ Goto(p, "mux", "read")
          /\ rpc' = [rpc EXCEPT ![r].reply = NoReply]
          /\ UNCHANGED <<queue, late>>
  /\ UNCHANGED <<rip, rpcfree, tagmask, killed, orig, cur, err, counts, server>>

MuxWakeup(p) ==
  /\ Goto(p, "muxwake", "read")
  /\ rpc' = [rpc EXCEPT ![late[p]].sleeper = None, ![cur[p]].reply = NoReply]
  /\ late' = [late EXCEPT ![p] = None]
  /\ UNCHANGED <<mount, rpcfree, tagmask, killed, orig, cur, err, counts, server>>

(* Mutant: the reader leaves without waking a successor. *)
mntgate_WakesNobody ==
  /\ rip' = None
  /\ UNCHANGED rpc

(* mntgate: nobody reads, and the first rpc that is asleep is woken. *)
mntgate ==
  LET Asleep == {i \in DOMAIN queue : ~rpc[queue[i]].done /\ rpc[queue[i]].sleeper # None} IN
  /\ rip' = None
  /\ rpc' = IF Asleep = {} THEN rpc ELSE [rpc EXCEPT ![queue[Min(Asleep)]].sleeper = None]

LeaveGate(p) ==
  /\ Goto(p, "gated", "chain")
  /\ mntgate
  /\ UNCHANGED <<queue, rpcfree, tagmask, killed, orig, cur, late, err, counts, server>>
----------------------------------------------------------------------------
(* Mutant: an interrupted call returns at once. *)
Handler_NoFlush(p) ==
  /\ Goto(p, "handler", "chain")
  /\ IF rip = p THEN mntgate ELSE UNCHANGED <<rip, rpc>>
  /\ Raise(p, IF err[p] = "Eintr" THEN None ELSE err[p])
  /\ UNCHANGED <<queue, rpcfree, tagmask, killed, orig, cur, late, counts, server>>

(* mountio's handler: a reader gives up its place; an interrupt is         *)
(* followed by a flush, any other error ends the call.                     *)
Handler(p) ==
  /\ Goto(p, "handler", IF err[p] = "Eintr" THEN "flush" ELSE "chain")
  /\ IF rip = p THEN mntgate ELSE UNCHANGED <<rip, rpc>>
  /\ UNCHANGED <<queue, rpcfree, tagmask, killed, orig, cur, late, err, counts, server>>

(* mntflushalloc: a Tflush of the original request, chained to r. *)
mntflushalloc(p) ==
  LET old == IF rpc[cur[p]].oldtag # None THEN rpc[cur[p]].oldtag ELSE cur[p] IN
  /\ Goto(p, "flush", "write")
  /\ mntralloc(None, old, cur[p])
  /\ Enqueue(p)
  /\ Raise(p, None)
  /\ UNCHANGED <<killed, orig, late, counts, server>>

(* Mutant: the original is taken as flushed whatever it was answered. *)
FlushTest_Ignored(p) ==
  /\ Goto(p, "chain", "qrm")
  /\ UNCHANGED <<mount, headers, killed, orig, cur, late, err, counts, server>>

(* mntflushfree: along the chain, an rpc without an answer is marked as    *)
(* flushed and leaves the queue, and every rpc but the original is freed.  *)

Off(p) == IF rpc[cur[p]].flushed = None THEN "return" ELSE "free"

FlushTest(p) ==
  /\ Goto(p, "chain", IF rpc[cur[p]].done THEN Off(p) ELSE "qrm")
  /\ UNCHANGED <<mount, headers, killed, orig, cur, late, err, counts, server>>

(* Mutant: an rpc without an answer stays on the queue. *)
mntqrm_StaysQueued(p) ==
  /\ Goto(p, "qrm", Off(p))
  /\ rpc' = [rpc EXCEPT ![cur[p]].reply.of = Rflush, ![cur[p]].done = TRUE]
  /\ UNCHANGED <<mount, rpcfree, tagmask, killed, orig, cur, late, err, counts, server>>

mntqrm(p) ==
  /\ Goto(p, "qrm", Off(p))
  /\ rpc' = [rpc EXCEPT ![cur[p]].reply.of = Rflush, ![cur[p]].done = TRUE]
  /\ queue' = RemoveFirst(queue, cur[p])
  /\ UNCHANGED <<rip, rpcfree, tagmask, killed, orig, cur, late, err, counts, server>>

FlushFree(p) ==
  /\ Goto(p, "free", "chain")
  /\ mntfree(cur[p])
  /\ cur' = [cur EXCEPT ![p] = rpc[cur[p]].flushed]
  /\ UNCHANGED <<mount, killed, orig, late, err, counts, server>>

(* mountrpc returns the reply or raises an error, and its caller frees r. *)
Return(p) ==
  /\ Goto(p, "return", "idle")
  /\ mntfree(orig[p])
  /\ orig' = [orig EXCEPT ![p] = None] /\ cur' = [cur EXCEPT ![p] = None]
  /\ Raise(p, None)
  /\ UNCHANGED <<mount, killed, late, counts, server>>
----------------------------------------------------------------------------
(* swiproc: p is killed and, if it sleeps, taken off the Rendez. *)
Interrupt(p) ==
  /\ p \in Victims /\ pc[p] # "idle" /\ ~killed[p]
  /\ interrupts < MaxInterrupts
  /\ interrupts' = interrupts + 1
  /\ killed' = [killed EXCEPT ![p] = TRUE]
  /\ rpc' = [t \in Tags |-> [rpc[t] EXCEPT !.sleeper = IF @ = p THEN None ELSE @]]
  /\ UNCHANGED <<mount, rpcfree, tagmask, pc, orig, cur, late, err, todo, server>>

(* The server answers the requests in any order; it answers the flushes of *)
(* a request in their order and forgets the request; or it goes away.      *)
IsFlush(n) == owed[n].oldtag # None

ServerReplies(n) ==
  /\ ~IsFlush(n)
  /\ replies' = Append(replies, [tag |-> owed[n].tag, of |-> owed[n].call])
  /\ owed' = RemoveAt(owed, n)
  /\ UNCHANGED <<mount, headers, procs, counts, hungup>>

ServerFlushes(n) ==
  /\ IsFlush(n)
  /\ \A k \in 1..(n - 1) : owed[k].oldtag # owed[n].oldtag
  /\ replies' = Append(replies, [tag |-> owed[n].tag, of |-> Rflush])
  /\ owed' = RemoveFirstMatch(RemoveAt(owed, n), LAMBDA o : o.tag = owed[n].oldtag)
  /\ UNCHANGED <<mount, headers, procs, counts, hungup>>

ServerHangsUp ==
  /\ ~hungup
  /\ hungup' = TRUE /\ owed' = <<>>
  /\ UNCHANGED <<mount, headers, procs, counts, replies>>

ProcStep(p) ==
  \/ Write(p) \/ WriteFails(p) \/ WriteInterrupted(p)
  \/ TakeGate(p) \/ Sleep(p) \/ SleepReturns(p) \/ SleepInterrupted(p)
  \/ mntrpcread(p) \/ ReadInterrupted(p) \/ ReadFails(p)
  \/ mountmux(p) \/ MuxWakeup(p) \/ LeaveGate(p)
  \/ Handler(p) \/ mntflushalloc(p) \/ FlushTest(p) \/ mntqrm(p) \/ FlushFree(p) \/ Return(p)

ServerStep == \E n \in DOMAIN owed : ServerReplies(n) \/ ServerFlushes(n)
MustAnswer ==
  \E n \in DOMAIN owed : owed[n].call \notin Blocking /\ (ServerReplies(n) \/ ServerFlushes(n))

Next ==
  \/ \E p \in Procs : Call(p) \/ ProcStep(p) \/ Interrupt(p)
  \/ ServerStep \/ ServerHangsUp

Spec == Init /\ [][Next]_vars

(* Running processes go on, and the server answers what does not block.    *)
FairSpec == Spec /\ WF_vars(MustAnswer) /\ \A p \in Procs : WF_vars(ProcStep(p))
----------------------------------------------------------------------------
Labels == {"idle", "write", "gate", "sleep", "asleep", "read", "mux",
           "muxwake", "gated", "handler", "flush", "chain", "qrm", "free", "return"}
Header == [done : BOOLEAN, reply : [tag : Tags \cup {None}, of : Calls \cup {Rflush, None}],
           flushed : Tags \cup {None}, sleeper : Procs \cup {None},
           call : Calls \cup {None}, oldtag : Tags \cup {None}]

TypeOK ==
  /\ queue \in Seq(Tags) /\ rpcfree \in Seq(Tags) /\ tagmask \subseteq Tags
  /\ rip \in Procs \cup {None}
  /\ rpc \in [Tags -> Header]
  /\ \A p \in Procs : pc[p] = "idle" <=> cur[p] = None
  /\ pc \in [Procs -> Labels] /\ killed \in [Procs -> BOOLEAN]
  /\ orig \in [Procs -> Tags \cup {None}] /\ cur \in [Procs -> Tags \cup {None}]
  /\ late \in [Procs -> Tags \cup {None}] /\ err \in [Procs -> {None, "Eintr", "fail"}]
  /\ todo \in [Procs -> Seq(Calls)] /\ interrupts \in 0..MaxInterrupts /\ hungup \in BOOLEAN
  /\ \A n \in DOMAIN replies : replies[n] \in [tag : Tags, of : Calls \cup {Rflush}]

(* A call that returns without an error has the answer to its own request, *)
(* or it was flushed; tags are handed on from call to call, and the reply  *)
(* buffer of the reader passes every reply (mountmux, mountrpc).           *)
RightAnswer ==
  \A p \in Procs : pc[p] = "return" /\ err[p] # "fail" =>
    rpc[orig[p]].done /\ rpc[orig[p]].reply.of \in {rpc[orig[p]].call, Rflush}

(* A reply read from the connection is still waited for, by the rpc that   *)
(* asked: while the server may answer a tag, no other request has it.      *)
TagsNotReused ==
  ~hungup => \A n \in DOMAIN replies :
    /\ Contains(queue, replies[n].tag)
    /\ replies[n].of \in {rpc[replies[n].tag].call, Rflush}

(* One process at a time reads the connection and the reply in its hands   *)
(* is its own: m->rip is the only thing that keeps two apart (mountio).    *)
Reading(p) == pc[p] \in {"read", "mux", "muxwake", "gated"}
OneReader == \A p \in Procs : Reading(p) => rip = p

(* m->queue, mntalloc.rpcfree and the tag mask at every moment: none is on *)
(* a list twice; a free header keeps its tag; the queue is what is in use  *)
(* and has no answer.                                                      *)
InUse == tagmask \ ToSet(rpcfree)
ListsExact ==
  /\ IsInjective(queue) /\ IsInjective(rpcfree)
  /\ ToSet(rpcfree) \subseteq tagmask
  /\ ToSet(queue) = {t \in InUse : ~rpc[t].done}

(* A header in use is that of a call, or of a flush of it, chained as      *)
(* mntflushalloc did; no two calls share one; so each will be freed once,  *)
(* and with no call under way no tag is taken but by the free list.        *)
ChainsExact ==
  /\ \A t \in InUse : (\E p \in Procs : cur[p] = t) \/ (\E u \in InUse : rpc[u].flushed = t)
  /\ \A p, q \in Procs : cur[p] = cur[q] /\ cur[p] # None => p = q /\ cur[p] \in InUse
  /\ \A t, u \in InUse : rpc[t].flushed = rpc[u].flushed /\ rpc[t].flushed # None => t = u
  /\ (\A p \in Procs : pc[p] = "idle") => InUse = {} /\ rip = None

(* The headers of the calls are on the queue, on the free list or with the *)
(* one process that reads, and mountmux, mntqrm and mntfree lose none.     *)
HeadersInPlace == TypeOK /\ OneReader /\ ListsExact /\ ChainsExact

(* A request that has been answered keeps the answer, also when its call   *)
(* was interrupted at the same time and its flush is still under way.      *)
AnswerKept ==
  [][\A p \in Procs :
       pc[p] # "idle" /\ pc'[p] # "idle" /\ rpc[orig[p]].done /\ err[p] # "fail" =>
         rpc'[orig[p]].reply = rpc[orig[p]].reply]_vars

(* A process stranded at the gate: it sleeps, its rpc has no answer,       *)
(* nobody reads, and nobody is on the way to the gate.                     *)
Stranded ==
  LET Asleep == {p \in Procs : pc[p] = "asleep" /\ rpc[cur[p]].sleeper = p} IN
  /\ rip = None /\ Asleep # {}
  /\ \A p \in Procs : p \in Asleep \/ pc[p] = "idle"

(* While the server answers, every call that it can answer returns, and so *)
(* does one that is interrupted: nobody is stranded while the server is    *)
(* there.  When the connection fails all calls end, unless stranded.       *)
Answerable(p) ==
  /\ pc[p] # "idle"
  /\ rpc[orig[p]].call \notin Blocking \/ killed[p] \/ cur[p] # orig[p] \/ hungup
EveryCallReturns == <>[]((Stranded /\ hungup) \/ \A p \in Procs : ~Answerable(p))
============================================================================
