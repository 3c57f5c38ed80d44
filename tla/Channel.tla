------------------------------ MODULE Channel ------------------------------
(***************************************************************************)
(* The channels of the Lua kernel (fs/os/lib/kernel.lua) under the         *)
(* cooperative scheduler (fs/os/lib/schedulers/roundrobin.lua), with the   *)
(* report the scheduler sends on a task's sync channel when the task ends. *)
(*                                                                         *)
(* sendwait and recvwait are declared without `local` inside Channel, so   *)
(* each call of Channel replaces the two global functions: the blocking    *)
(* half of send and recv, on every channel, works on the queues of the     *)
(* channel made last (`latest`).  Only the buffer belongs to the channel   *)
(* the caller named.                                                       *)
(*                                                                         *)
(* A task runs alone until it yields, so an operation is one step.         *)
(***************************************************************************)
EXTENDS Integers, Sequences, FiniteSets

CONSTANTS
  Procs, Boot,  \* the tasks, and the one the kernel boots
  Channels,     \* the channels that may be made
  Size,         \* the buffer size each channel is made with
  MaxSends,     \* bound: how many values are ever sent
  None          \* nil

ASSUME ChannelAssumption ==
  /\ Boot \in Procs /\ MaxSends \in Nat
  /\ Size \in [Channels -> Nat]
  /\ None \notin Procs \cup Channels
  /\ None \notin [on : Channels, list : {"buff", "pending"} \X Channels, n : Nat]

VARIABLES
  created,   \* the channels made so far
  latest,    \* the channel whose sendwait and recvwait are the global ones
  senders, receivers, pending, buff,  \* the lists of each channel
  rdyq,      \* the scheduler's ready queue, with the tasks in a system call
  cur,       \* sched.curproc
  status,    \* per task: "unborn", "alive" or "dead"
  wait,      \* what a suspended task is in: op, the channel it named, and
             \* the channel whose lists it waits in
  sync,      \* ctxt.sync of each task
  sched,     \* "up", "stopped" (task 1 ended), "error" (the scheduler failed)
  nsent,     \* how many values have been sent
  got        \* history: what each completed recv named and returned

lists == <<senders, receivers, pending, buff>>
vars == <<created, latest, lists, rdyq, cur, status, wait, sync, sched, nsent, got>>

NoWait == [op |-> "none", on |-> None, at |-> None]

Init ==
  /\ created = {} /\ latest = None
  /\ senders = [c \in Channels |-> <<>>]
  /\ receivers = [c \in Channels |-> <<>>]
  /\ pending = [c \in Channels |-> <<>>]
  /\ buff = [c \in Channels |-> <<>>]
  /\ rdyq = <<Boot>> /\ cur = None
  /\ status = [p \in Procs |-> IF p = Boot THEN "alive" ELSE "unborn"]
  /\ wait = [p \in Procs |-> NoWait]
  /\ sync = [p \in Procs |-> None]
  /\ sched = "up"
  /\ nsent = 0 /\ got = <<>>

Busy == sched = "up" /\ cur # None
Put(f, c, v) == [f EXCEPT ![c] = Append(@, v)]
Pop(f, c) == [f EXCEPT ![c] = Tail(@)]
Ready(p) == rdyq' = Append(rdyq, p)
(* coroutine.yield() inside sendwait or recvwait. *)
Suspend(op, c) ==
  /\ wait' = [wait EXCEPT ![cur] = [op |-> op, on |-> c, at |-> latest]]
  /\ cur' = None
(* A value: the channel send named, the list it was put in, its number. *)
Value(c, list) == [on |-> c, list |-> list, n |-> nsent + 1]
Received(c, v, p) == got' = Append(got, [on |-> c, val |-> v, by |-> p])
----------------------------------------------------------------------------
(* Channel(size): a new channel, and new global sendwait and recvwait. *)
NewChannel(c) ==
  /\ Busy /\ c \notin created
  /\ created' = created \cup {c}
  /\ latest' = c
  /\ UNCHANGED <<lists, rdyq, cur, status, wait, sync, sched, nsent, got>>

(* send(v), while the buffer has room: no waiting receiver is looked for. *)
SendBuffered(c) ==
  /\ Busy /\ c \in created /\ nsent < MaxSends
  /\ Len(buff[c]) < Size[c]
  /\ buff' = Put(buff, c, Value(c, <<"buff", c>>))
  /\ nsent' = nsent + 1
  /\ UNCHANGED <<created, latest, senders, receivers, pending, rdyq, cur, status, wait,
                 sync, sched, got>>

(* sendwait(v) on the latest channel: meet a receiver, or wait for one. *)
SendWait(c) ==
  /\ Busy /\ c \in created /\ nsent < MaxSends
  /\ Len(buff[c]) >= Size[c]
  /\ pending' = Put(pending, latest, Value(c, <<"pending", latest>>))
  /\ nsent' = nsent + 1
  /\ \/ /\ receivers[latest] # <<>>
        /\ Ready(Head(receivers[latest]))
        /\ receivers' = Pop(receivers, latest)
        /\ UNCHANGED <<senders, cur, wait>>
     \/ /\ receivers[latest] = <<>>
        /\ senders' = Put(senders, latest, cur)
        /\ Suspend("send", c)
        /\ UNCHANGED <<receivers, rdyq>>
  /\ UNCHANGED <<created, latest, buff, status, sync, sched, got>>

send(c) == SendBuffered(c) \/ SendWait(c)

(* Mutant: the buffered value is returned and stays in the buffer. *)
RecvBuffered_Peeks(c) ==
  /\ Busy /\ c \in created
  /\ buff[c] # <<>>
  /\ Len(got) < MaxSends
  /\ Received(c, Head(buff[c]), cur)
  /\ UNCHANGED <<created, latest, lists, rdyq, cur, status, wait, sync, sched, nsent>>

(* recv(), while the buffer holds a value. *)
RecvBuffered(c) ==
  /\ Busy /\ c \in created
  /\ buff[c] # <<>>
  /\ buff' = Pop(buff, c)
  /\ Received(c, Head(buff[c]), cur)
  /\ UNCHANGED <<created, latest, senders, receivers, pending, rdyq, cur, status, wait,
                 sync, sched, nsent>>

(* Mutant: the receiver reads the pending value and leaves it. *)
RecvWait_Peeks(c) ==
  /\ Busy /\ c \in created
  /\ buff[c] = <<>>
  /\ \/ /\ senders[latest] # <<>>
        /\ Ready(Head(senders[latest]))
        /\ senders' = Pop(senders, latest)
        /\ Received(c, Head(pending[latest]), cur)
        /\ UNCHANGED <<receivers, cur, wait>>
     \/ /\ senders[latest] = <<>>
        /\ receivers' = Put(receivers, latest, cur)
        /\ Suspend("recv", c)
        /\ UNCHANGED <<senders, rdyq, got>>
  /\ UNCHANGED <<created, latest, pending, buff, status, sync, sched, nsent>>

(* recvwait() on the latest channel: release a sender, or wait for one. *)
RecvWait(c) ==
  /\ Busy /\ c \in created
  /\ buff[c] = <<>>
  /\ \/ /\ senders[latest] # <<>>
        /\ Ready(Head(senders[latest]))
        /\ senders' = Pop(senders, latest)
        /\ pending' = Pop(pending, latest)
        /\ Received(c, Head(pending[latest]), cur)
        /\ UNCHANGED <<receivers, cur, wait>>
     \/ /\ senders[latest] = <<>>
        /\ receivers' = Put(receivers, latest, cur)
        /\ Suspend("recv", c)
        /\ UNCHANGED <<senders, pending, rdyq, got>>
  /\ UNCHANGED <<created, latest, buff, status, sync, sched, nsent>>

recv(c) == RecvBuffered(c) \/ RecvWait(c)
----------------------------------------------------------------------------
(* rdyq holds the tasks that were made ready and those in a system call,   *)
(* which the scheduler resumes as their replies come, ahead of the others. *)
(* It looks for replies once a round; here one may come between any two.   *)
Calls(p) == wait[p].op = "none"
First(i) == Calls(rdyq[i]) \/ \A j \in 1..(i - 1) : Calls(rdyq[j])
Without(s, i) == [j \in 1..(Len(s) - 1) |-> s[IF j < i THEN j ELSE j + 1]]

(* Mutant: table.remove(pending) takes the newest value. *)
Resume_Newest(i) ==
  /\ sched = "up" /\ cur = None /\ i \in DOMAIN rdyq /\ First(i)
  /\ LET p == rdyq[i]
         w == wait[p] IN
     /\ cur' = p
     /\ wait' = [wait EXCEPT ![p] = NoWait]
     /\ IF w.op = "recv" /\ pending[w.at] # <<>>
        THEN LET values == pending[w.at] IN
             /\ pending' = [pending EXCEPT ![w.at] = SubSeq(@, 1, Len(@) - 1)]
             /\ Received(w.on, values[Len(values)], p)
        ELSE UNCHANGED <<pending, got>>
  /\ rdyq' = Without(rdyq, i)
  /\ UNCHANGED <<created, latest, senders, receivers, buff, status, sync, sched, nsent>>

(* The scheduler resumes a task: one whose system call is over, or the      *)
(* first that was made ready.  A task that waited in recvwait takes the     *)
(* oldest value of the list it waited at, or nil.                           *)
Resume(i) ==
  /\ sched = "up" /\ cur = None /\ i \in DOMAIN rdyq /\ First(i)
  /\ LET p == rdyq[i]
         w == wait[p] IN
     /\ cur' = p
     /\ wait' = [wait EXCEPT ![p] = NoWait]
     /\ IF w.op = "recv"
        THEN LET values == pending[w.at] IN
             /\ pending' = [pending EXCEPT ![w.at] = IF @ = <<>> THEN @ ELSE Tail(@)]
             /\ Received(w.on, IF values = <<>> THEN None ELSE Head(values), p)
        ELSE UNCHANGED <<pending, got>>
  /\ rdyq' = Without(rdyq, i)
  /\ UNCHANGED <<created, latest, senders, receivers, buff, status, sync, sched, nsent>>

(* The task makes a system call. *)
Yield ==
  /\ Busy
  /\ Ready(cur)
  /\ cur' = None
  /\ UNCHANGED <<created, latest, lists, status, wait, sync, sched, nsent, got>>

(* sys.spawn: the new task shares the caller's context and its sync channel, *)
(* or is an application, whose import gives it a sync channel of its own.    *)
spawn(p, c) ==
  /\ Busy /\ status[p] = "unborn"
  /\ c \in created \cup {sync[cur]}
  /\ status' = [status EXCEPT ![p] = "alive"]
  /\ sync' = [sync EXCEPT ![p] = c]
  /\ Ready(p)
  /\ UNCHANGED <<created, latest, lists, cur, wait, sched, nsent, got>>

(* A task ends.  The scheduler itself sends the report, outside any task:   *)
(* if sendwait has to wait, coroutine.yield fails and the scheduler with it.*)
Exit ==
  LET c == sync[cur] IN
  /\ Busy
  /\ c # None => nsent < MaxSends
  /\ status' = [status EXCEPT ![cur] = "dead"]
  /\ cur' = None
  /\ \/ /\ c = None
        /\ sched' = IF cur = Boot THEN "stopped" ELSE sched
        /\ UNCHANGED <<lists, rdyq, nsent>>
     \/ /\ c # None
        /\ nsent' = nsent + 1
        /\ IF Len(buff[c]) < Size[c]
           THEN /\ buff' = Put(buff, c, Value(c, <<"buff", c>>))
                /\ sched' = IF cur = Boot THEN "stopped" ELSE sched
                /\ UNCHANGED <<senders, receivers, pending, rdyq>>
           ELSE /\ pending' = Put(pending, latest, Value(c, <<"pending", latest>>))
                /\ UNCHANGED buff
                /\ IF receivers[latest] # <<>>
                   THEN /\ Ready(Head(receivers[latest]))
                        /\ receivers' = Pop(receivers, latest)
                        /\ sched' = IF cur = Boot THEN "stopped" ELSE sched
                        /\ UNCHANGED senders
                   ELSE /\ senders' = Put(senders, latest, cur)
                        /\ sched' = "error"
                        /\ UNCHANGED <<receivers, rdyq>>
  /\ UNCHANGED <<created, latest, wait, sync, got>>

Task == \/ Yield \/ Exit
        \/ \E c \in Channels : NewChannel(c) \/ send(c) \/ recv(c)
        \/ \E p \in Procs, c \in Channels \cup {None} : spawn(p, c)

Next == (\E i \in DOMAIN rdyq : Resume(i)) \/ Task

Spec == Init /\ [][Next]_vars
----------------------------------------------------------------------------
TypeOK ==
  /\ created \subseteq Channels /\ latest \in created \cup {None}
  /\ \A c \in Channels : {senders[c], receivers[c]} \subseteq Seq(Procs)
  /\ rdyq \in Seq(Procs) /\ cur \in Procs \cup {None}
  /\ status \in [Procs -> {"unborn", "alive", "dead"}]
  /\ sync \in [Procs -> Channels \cup {None}]
  /\ sched \in {"up", "stopped", "error"}
  /\ nsent \in 0..MaxSends

(* A sender and a receiver never wait for each other in the same lists. *)
NoneMissed == \A c \in Channels : senders[c] = <<>> \/ receivers[c] = <<>>

(***************************************************************************)
(* A receiver is woken only for a value, and nobody takes it away: the     *)
(* pending values are those of the waiting senders and one for each        *)
(* receiver that was woken and has not run, so recv never returns nil.     *)
(***************************************************************************)
WokenReceivers(c) == {p \in Procs : wait[p].op = "recv" /\ wait[p].at = c
                                      /\ \E i \in DOMAIN rdyq : rdyq[i] = p}
ValuesMatchTasks ==
  sched = "up" => \A c \in Channels :
    Len(pending[c]) = Len(senders[c]) + Cardinality(WokenReceivers(c))

(***************************************************************************)
(* The waiting lists and the pending values of sendwait and recvwait match *)
(* the tasks that wait: nobody waits for a partner that is there, and who  *)
(* was woken finds its value.                                              *)
(***************************************************************************)
ListsMatchTasks == TypeOK /\ NoneMissed /\ ValuesMatchTasks

(***************************************************************************)
(* Lists are first in, first out, also when the receiver that was woken    *)
(* for a value runs after another recv: values that waited in one list are *)
(* received in the order they were sent.                                   *)
(***************************************************************************)
InOrder ==
  \A i, j \in DOMAIN got :
    i < j /\ got[i].val # None /\ got[j].val # None /\ got[i].val.list = got[j].val.list
      => got[i].val.n < got[j].val.n

(***************************************************************************)
(* send hands every value to exactly one place: it is in the buffer or the *)
(* pending list of one channel, or one recv has returned it, whatever mix  *)
(* of buffered and waiting sends and receives the tasks make.              *)
(***************************************************************************)
Copies(f, n) ==
  Cardinality({at \in Channels \X (1..MaxSends) :
                 at[2] <= Len(f[at[1]]) /\ f[at[1]][at[2]].n = n})
EachValueOnce ==
  \A n \in 1..nsent :
    Cardinality({i \in DOMAIN got : got[i].val # None /\ got[i].val.n = n})
      + Copies(buff, n) + Copies(pending, n) = 1
============================================================================
