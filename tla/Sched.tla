------------------------------- MODULE Sched -------------------------------
(***************************************************************************)
(* The hosting process: the round-robin scheduler of Lua tasks             *)
(* (fs/os/lib/schedulers/roundrobin.lua) and the system call path under it *)
(* (styx/svcs/node9.c).  A task runs until it yields.  A system call puts  *)
(* the task's vproc on the request queue; the event loop's prepare handler *)
(* `dispatch` hands the requests to libuv's thread pool; a worker runs the *)
(* call as the vproc; worker_done, back in the event loop, puts the vproc  *)
(* on the reply queue, which the scheduler drains on its next sweep.       *)
(*                                                                         *)
(* The vproc has one queue node and one request buffer, so it may never be *)
(* in two of these places.  libuv is external and modelled by what node9.c *)
(* relies on: one pass of uv_run(UV_RUN_ONCE) runs due timers, the prepare *)
(* handler, polls (without blocking if the idle watcher is active), and    *)
(* runs due timers again.  A task's termination report to its sync channel *)
(* is the subject of the module Channel.                                   *)
(***************************************************************************)
EXTENDS Integers, Sequences, FiniteSets

CONSTANTS
  MaxPid,    \* bound: how many processes are ever made
  PoolSize,  \* threads in libuv's pool (UV_THREADPOOL_SIZE, 4 by default)
  MaxData,   \* bound: how many lines or packets wait to be read
  Calls      \* the kinds of system call the program of each task makes, by pid

Pids == 1..MaxPid
Kinds == {"call", "read", "spawn", "sleep"}

ASSUME SchedAssumption ==
  /\ MaxPid \in Nat \ {0} /\ PoolSize \in Nat \ {0} /\ MaxData \in Nat
  /\ Calls \in [Pids -> SUBSET Kinds]

VARIABLES
  procs,     \* the Lua process table: pids of live tasks
  vprocs,    \* pids in the kernel's hash of vprocs
  pidnum,    \* hp->pidnum, the last pid given out
  rdyq, runq,\* the scheduler's two queues
  phase,     \* where the hosting process is
  cur,       \* the task that runs (sched.curproc), 0 if none
  req,       \* the system call a task waits for, per pid
  child,     \* n->pid in new_vproc, and then sreq->spawn.ret
  made,      \* how far new_vproc is, per calling pid
  reqq, repq,\* hp->reqq and hp->repq
  workq,     \* libuv: requests waiting for a thread
  working,   \* libuv: vprocs a thread is working for
  doneq,     \* libuv: finished requests whose callback has not run
  timers,    \* vprocs whose ticker is running
  waiting,   \* waiting_procs, as svc_events last saved it
  idle,      \* the idle watcher is active
  data       \* unread input from the console or the network

vars == <<procs, vprocs, pidnum, rdyq, runq, phase, cur, req, child, made, reqq, repq,
          workq, working, doneq, timers, waiting, idle, data>>
kernel == <<vprocs, pidnum, child, made>>
pool == <<workq, working, doneq>>
loop == <<timers, waiting, idle>>

(***************************************************************************)
(* The process runs: the scheduler has not returned, nothing has panicked, *)
(* and no two vprocs have one pid.  A task is known here by its pid, so    *)
(* "shared pid" is where the model ends.                                   *)
(***************************************************************************)
Running == phase \notin {"stopped", "unknown caller", "dup pid", "shared pid"}

(* nodeinit.lua: task 1 is made, put in the table and made ready. *)
Init ==
  /\ procs = {1} /\ vprocs = {1} /\ pidnum = 1
  /\ rdyq = <<1>> /\ runq = <<>>
  /\ phase = "replies" /\ cur = 0
  /\ req = [p \in Pids |-> "none"]
  /\ child = [p \in Pids |-> 0]
  /\ made = [p \in Pids |-> "nothing"]
  /\ reqq = <<>> /\ repq = <<>>
  /\ workq = <<>> /\ working = {} /\ doneq = <<>>
  /\ timers = {} /\ waiting = 0 /\ idle = FALSE
  /\ data = 0
----------------------------------------------------------------------------
(* The scheduler's sweep: replies first, then the ready queue. *)

(* sysrep(), and resume of the task it names. *)
TakeReply ==
  /\ phase = "replies" /\ cur = 0 /\ repq # <<>>
  /\ repq' = Tail(repq)
  /\ IF Head(repq) \in procs
     THEN cur' = Head(repq) /\ UNCHANGED phase
     ELSE phase' = "unknown caller" /\ UNCHANGED cur
  /\ UNCHANGED <<procs, kernel, rdyq, runq, req, reqq, pool, loop, data>>

(* Swap the queues: the tasks that are ready now are run in this sweep. *)
NoMoreReplies ==
  /\ phase = "replies" /\ cur = 0 /\ repq = <<>>
  /\ phase' = "runq"
  /\ runq' = rdyq
  /\ rdyq' = <<>>
  /\ UNCHANGED <<procs, kernel, cur, req, reqq, repq, pool, loop, data>>

RunNext ==
  /\ phase = "runq" /\ cur = 0 /\ runq # <<>>
  /\ cur' = Head(runq)
  /\ runq' = Tail(runq)
  /\ UNCHANGED <<procs, kernel, rdyq, phase, req, reqq, repq, pool, loop, data>>

(* svc_events(#rdyq). *)
ServiceEvents ==
  /\ phase = "runq" /\ cur = 0 /\ runq = <<>>
  /\ phase' = "timers"
  /\ waiting' = Len(rdyq)
  /\ UNCHANGED <<procs, kernel, rdyq, runq, cur, req, reqq, repq, pool, timers, idle, data>>
----------------------------------------------------------------------------
(* What the running task does until it yields. *)

(* A call through sysreq: queue the vproc and yield. *)
sysreq(kind) ==
  /\ cur # 0 /\ req[cur] = "none"
  /\ kind \in Calls[cur] \ {"sleep"}
  /\ kind = "spawn" => pidnum + Cardinality({p \in Pids : req[p] = "spawn"}) < MaxPid
  /\ req' = [req EXCEPT ![cur] = kind]
  /\ reqq' = Append(reqq, cur)
  /\ cur' = 0
  /\ UNCHANGED <<procs, kernel, rdyq, runq, phase, repq, pool, loop, data>>

(* sys.sleep: start the vproc's own timer and yield. *)
sys_sleep ==
  /\ cur # 0 /\ req[cur] = "none"
  /\ "sleep" \in Calls[cur]
  /\ req' = [req EXCEPT ![cur] = "sleep"]
  /\ timers' = timers \cup {cur}
  /\ cur' = 0
  /\ UNCHANGED <<procs, kernel, rdyq, runq, phase, reqq, repq, pool, waiting, idle, data>>

(* A resumed task reads its result from the request buffer and goes on. *)
Collect ==
  /\ cur # 0 /\ req[cur] \notin {"none", "spawn"}
  /\ req' = [req EXCEPT ![cur] = "none"]
  /\ UNCHANGED <<procs, kernel, rdyq, runq, phase, cur, reqq, repq, pool, loop, data>>

(* Mutant: the new task is never made ready. *)
Spawned_NotReadied ==
  /\ cur # 0 /\ req[cur] = "spawn"
  /\ req' = [req EXCEPT ![cur] = "none"]
  /\ procs' = procs \cup {child[cur]}
  /\ child' = [child EXCEPT ![cur] = 0]
  /\ UNCHANGED <<vprocs, pidnum, made, rdyq, runq, phase, cur, reqq, repq, pool, loop, data>>

(* After spawn it first makes the Lua task of the new vproc and readies it. *)
Spawned ==
  /\ cur # 0 /\ req[cur] = "spawn"
  /\ req' = [req EXCEPT ![cur] = "none"]
  /\ procs' = procs \cup {child[cur]}
  /\ rdyq' = Append(rdyq, child[cur])
  /\ child' = [child EXCEPT ![cur] = 0]
  /\ UNCHANGED <<vprocs, pidnum, made, runq, phase, cur, reqq, repq, pool, loop, data>>

(* A task that yields a value is made ready again. *)
Yield ==
  /\ cur # 0 /\ req[cur] = "none"
  /\ rdyq' = Append(rdyq, cur)
  /\ cur' = 0
  /\ UNCHANGED <<procs, kernel, runq, phase, req, reqq, repq, pool, loop, data>>

(* A task ends or aborts; the scheduler stops when it was task 1. *)
Exit ==
  /\ cur # 0 /\ req[cur] = "none"
  /\ procs' = procs \ {cur}
  /\ phase' = IF cur = 1 THEN "stopped" ELSE phase
  /\ cur' = 0
  /\ UNCHANGED <<kernel, rdyq, runq, req, reqq, repq, pool, loop, data>>

Task == sys_sleep \/ Collect \/ Spawned \/ Yield \/ Exit \/ \E kind \in Kinds : sysreq(kind)

(* Mutant: the finaliser runs while the task still lives. *)
vproc_exit_Early(p) ==
  /\ phase \in {"replies", "runq"}
  /\ p \in vprocs
  /\ vprocs' = vprocs \ {p}
  /\ UNCHANGED <<procs, pidnum, rdyq, runq, phase, cur, req, child, made, reqq, repq,
                 pool, loop, data>>

(* The garbage collector finalises the vproc of a task that has ended     *)
(* (vproc_exit), whenever Lua code runs on the hosting thread.             *)
vproc_exit(p) ==
  /\ phase \in {"replies", "runq"}
  /\ p \in vprocs \ procs
  /\ \A q \in Pids : child[q] # p
  /\ vprocs' = vprocs \ {p}
  /\ UNCHANGED <<procs, pidnum, rdyq, runq, phase, cur, req, child, made, reqq, repq,
                 pool, loop, data>>
----------------------------------------------------------------------------
(* One pass of the event loop. *)

(* sys_sleep_expired: a due timer puts its vproc on the reply queue. *)
sys_sleep_expired(p) ==
  /\ phase \in {"timers", "timers again"}
  /\ p \in timers
  /\ timers' = timers \ {p}
  /\ repq' = Append(repq, p)
  /\ UNCHANGED <<procs, kernel, rdyq, runq, phase, cur, req, reqq, pool, waiting, idle, data>>

(* Mutants: dispatch does not look at the reply queue; dispatch empties the *)
(* request queue and hands over its first request only.                     *)
dispatch_IgnoresReplies ==
  /\ phase = "timers"
  /\ phase' = "poll"
  /\ reqq' = <<>>
  /\ workq' = workq \o reqq
  /\ idle' = (waiting > 0)
  /\ UNCHANGED <<procs, kernel, rdyq, runq, cur, req, repq, working, doneq, timers, waiting, data>>
dispatch_FirstOnly ==
  /\ phase = "timers"
  /\ phase' = "poll"
  /\ reqq' = <<>>
  /\ workq' = IF reqq = <<>> THEN workq ELSE Append(workq, Head(reqq))
  /\ idle' = (waiting > 0 \/ repq # <<>>)
  /\ UNCHANGED <<procs, kernel, rdyq, runq, cur, req, repq, working, doneq, timers, waiting, data>>

(* dispatch, the prepare handler. *)
dispatch ==
  /\ phase = "timers"
  /\ phase' = "poll"
  /\ reqq' = <<>>
  /\ workq' = workq \o reqq
  /\ idle' = (waiting > 0 \/ repq # <<>>)
  /\ UNCHANGED <<procs, kernel, rdyq, runq, cur, req, repq, working, doneq, timers, waiting, data>>

(* Poll runs worker_done for every finished request. *)
worker_done ==
  /\ phase = "poll" /\ doneq # <<>>
  /\ phase' = "timers again"
  /\ doneq' = <<>>
  /\ repq' = repq \o doneq
  /\ UNCHANGED <<procs, kernel, rdyq, runq, cur, req, reqq, workq, working, loop, data>>

(* Poll finds nothing and may not block. *)
PollIdle ==
  /\ phase = "poll" /\ idle /\ doneq = <<>>
  /\ phase' = "timers again"
  /\ UNCHANGED <<procs, kernel, rdyq, runq, cur, req, reqq, repq, pool, loop, data>>

(* Poll blocks until the first timer is due, and the timer runs. *)
PollTimeout(p) ==
  /\ phase = "poll" /\ ~idle /\ doneq = <<>>
  /\ p \in timers
  /\ phase' = "timers again"
  /\ timers' = timers \ {p}
  /\ repq' = Append(repq, p)
  /\ UNCHANGED <<procs, kernel, rdyq, runq, cur, req, reqq, pool, waiting, idle, data>>

EndOfPass ==
  /\ phase = "timers again"
  /\ phase' = "replies"
  /\ UNCHANGED <<procs, kernel, rdyq, runq, cur, req, reqq, repq, pool, loop, data>>

EventLoop == \/ dispatch \/ worker_done \/ PollIdle \/ EndOfPass
             \/ \E p \in Pids : sys_sleep_expired(p) \/ PollTimeout(p)
----------------------------------------------------------------------------
(* The thread pool: a worker takes the oldest request and runs it. *)
StartWork ==
  /\ Running /\ workq # <<>>
  /\ Cardinality(working) < PoolSize
  /\ working' = working \cup {Head(workq)}
  /\ workq' = Tail(workq)
  /\ UNCHANGED <<procs, kernel, rdyq, runq, phase, cur, req, reqq, repq, doneq, loop, data>>

(* new_vproc for the spawn of p: take the next pid, look whether the hash   *)
(* has it, link the vproc in.  make_vproc locks isched.l of `up`, and in a  *)
(* worker `up` is the calling vproc, not the hosting process: nothing keeps *)
(* two spawns apart, and ++pidnum is a read and a write.  Two spawns that   *)
(* read one pidnum get one pid: the second panics if it looks after the     *)
(* first has linked, and otherwise links its vproc in the first one's place. *)
SpawnReadPid(p) ==
  /\ p \in working /\ req[p] = "spawn" /\ made[p] = "nothing"
  /\ made' = [made EXCEPT ![p] = "pid"]
  /\ child' = [child EXCEPT ![p] = pidnum + 1]
  /\ UNCHANGED <<procs, vprocs, pidnum, rdyq, runq, phase, cur, req, reqq, repq, pool, loop, data>>

SpawnLook(p) ==
  /\ p \in working /\ made[p] = "pid"
  /\ pidnum' = child[p]
  /\ phase' = IF child[p] \in vprocs THEN "dup pid" ELSE phase
  /\ made' = [made EXCEPT ![p] = "looked"]
  /\ UNCHANGED <<procs, vprocs, child, rdyq, runq, cur, req, reqq, repq, pool, loop, data>>

SpawnLink(p) ==
  /\ p \in working /\ made[p] = "looked"
  /\ vprocs' = vprocs \cup {child[p]}
  /\ phase' = IF child[p] \in vprocs THEN "shared pid" ELSE phase
  /\ made' = [made EXCEPT ![p] = "vproc"]
  /\ UNCHANGED <<procs, pidnum, child, rdyq, runq, cur, req, reqq, repq, pool, loop, data>>

(* The Sys_ worker returns: that of a spawn when the vproc is made, a read  *)
(* of the console or of a connection, which keeps its thread until then,    *)
(* when there is input, and the others of their own accord.                 *)
FinishWork(p) ==
  /\ p \in working
  /\ working' = working \ {p}
  /\ doneq' = Append(doneq, p)
  /\ UNCHANGED <<procs, vprocs, pidnum, child, rdyq, runq, phase, cur, req, reqq, repq,
                 workq, loop>>

Sys_spawn(p) ==
  /\ FinishWork(p)
  /\ req[p] = "spawn" /\ made[p] = "vproc"
  /\ made' = [made EXCEPT ![p] = "nothing"]
  /\ UNCHANGED data

Sys_read(p) ==
  /\ FinishWork(p)
  /\ req[p] = "read" /\ data > 0
  /\ data' = data - 1
  /\ UNCHANGED made

Sys_call(p) ==
  /\ FinishWork(p)
  /\ req[p] = "call"
  /\ UNCHANGED <<made, data>>

Worker(p) ==
  /\ Running
  /\ \/ SpawnReadPid(p) \/ SpawnLook(p) \/ SpawnLink(p) \/ Sys_spawn(p)
     \/ Sys_read(p) \/ Sys_call(p)

(* The user types a line, a packet arrives; nothing says that it must. *)
Input ==
  /\ Running /\ data < MaxData
  /\ data' = data + 1
  /\ UNCHANGED <<procs, kernel, rdyq, runq, phase, cur, req, reqq, repq, pool, loop>>

Scheduler == TakeReply \/ NoMoreReplies \/ RunNext \/ ServiceEvents

Next == \/ Scheduler \/ Task \/ EventLoop
        \/ StartWork \/ Input \/ \E p \in Pids : Worker(p) \/ vproc_exit(p)

(***************************************************************************)
(* The hosting thread runs, every task yields some time (nothing preempts  *)
(* it), pool threads run, and time passes: a timer that is running fires.  *)
(***************************************************************************)
Fairness ==
  /\ WF_vars(Scheduler) /\ WF_vars(Task) /\ WF_vars(StartWork)
  /\ WF_vars(dispatch \/ worker_done \/ PollIdle \/ EndOfPass)
  /\ \A p \in Pids :
       /\ WF_vars(Worker(p))
       /\ WF_vars(PollTimeout(p)) /\ SF_vars(sys_sleep_expired(p))

Spec == Init /\ [][Next]_vars
FairSpec == Spec /\ Fairness
----------------------------------------------------------------------------
TypeOK ==
  /\ procs \subseteq Pids /\ vprocs \subseteq Pids /\ pidnum \in Pids
  /\ {rdyq, runq, reqq, repq, workq, doneq} \subseteq Seq(Pids)
  /\ phase \in {"replies", "runq", "timers", "poll", "timers again", "stopped",
               "unknown caller", "dup pid", "shared pid"}
  /\ cur \in Pids \cup {0}
  /\ req \in [Pids -> Kinds \cup {"none"}]
  /\ child \in [Pids -> Pids \cup {0}]
  /\ made \in [Pids -> {"nothing", "pid", "looked", "vproc"}]
  /\ working \subseteq Pids /\ timers \subseteq Pids
  /\ waiting \in 0..MaxPid /\ idle \in BOOLEAN /\ data \in 0..MaxData

(* How often a pid occurs in a queue, and in how many places its vproc's *)
(* single queue node and request buffer are in use.                       *)
Occurs(p, q) == Cardinality({i \in DOMAIN q : q[i] = p})
In(p, S) == IF p \in S THEN 1 ELSE 0
Places(p) == Occurs(p, reqq) + Occurs(p, workq) + In(p, working)
             + Occurs(p, doneq) + Occurs(p, repq) + In(p, timers)

(***************************************************************************)
(* "there is only sysreq call active at a time per process" (node9.c): the *)
(* vproc of a task that waits is in exactly one place, and that of a task  *)
(* that is ready or runs without a result to collect is in none.           *)
(***************************************************************************)
OneRequestPerProc ==
  \A p \in Pids : Places(p) = IF req[p] # "none" /\ cur # p THEN 1 ELSE 0

(***************************************************************************)
(* A live task is in exactly one of: ready, running, waiting for a reply;  *)
(* as long as no two spawns have given one pid to two tasks.               *)
(***************************************************************************)
EachTaskOnce ==
  Running => \A p \in Pids :
    Occurs(p, rdyq) + Occurs(p, runq) + Places(p) + (IF cur = p THEN 1 ELSE 0)
      = In(p, procs)

(***************************************************************************)
(* No task is lost or doubled on its way through the request queue, the    *)
(* pool, the timers, the reply queue and the two run queues, up to where   *)
(* the process stops or two tasks have one pid (node9.c:992).              *)
(***************************************************************************)
TasksInPlace == TypeOK /\ OneRequestPerProc /\ EachTaskOnce

(***************************************************************************)
(* "lock the kernel process data stuctures" (make_vproc), and              *)
(* panic("dup pid") (new_vproc): the lock keeps spawns apart, so that each *)
(* vproc gets a pid of its own.  False when two workers spawn at once.     *)
(***************************************************************************)
PidsUnique == phase \notin {"dup pid", "shared pid"}

(* The collector never frees a vproc that a queue, thread or timer holds. *)
NoFreedVprocInUse == \A p \in Pids : Places(p) > 0 => p \in vprocs

(***************************************************************************)
(* Wait mode (doc/node9.md): the loop blocks in poll only when no task is  *)
(* ready, no reply is waiting and every request has been dispatched.       *)
(***************************************************************************)
BlocksOnlyWhenNothingToRun ==
  phase = "poll" /\ ~idle => rdyq = <<>> /\ runq = <<>> /\ repq = <<>> /\ reqq = <<>>

(***************************************************************************)
(* A task that is ready runs, whatever the others do: none stays in the    *)
(* ready queues for ever.                                                  *)
(***************************************************************************)
ReadyTaskRuns ==
  \A p \in Pids : []<>(Occurs(p, rdyq) + Occurs(p, runq) = 0 \/ ~Running)

(***************************************************************************)
(* "A worker thread eventually services the system request" (doc/node9.md):*)
(* a system call that does not wait for input returns to its task, unless  *)
(* calls that do have taken every thread of the pool.                      *)
(***************************************************************************)
PoolBlocked == Cardinality({p \in working : req[p] = "read"}) = PoolSize
CallReturns ==
  \A p \in Pids : []<>(req[p] \in {"none", "read"} \/ PoolBlocked \/ ~Running)

(* Tasks go on: the ready ones run, and the calls of the others return. *)
EveryTaskGoesOn == ReadyTaskRuns /\ CallReturns
============================================================================
