----------------------------- MODULE FifoMutex -----------------------------
(***************************************************************************)
(* What a queueing lock promises: one owner at a time, and waiters served  *)
(* in the order in which they joined the queue.  A release gives the lock  *)
(* to the first waiter in the same step, so nobody can slip in between.    *)
(***************************************************************************)
EXTENDS Sequences

CONSTANT Procs

VARIABLES holders,  \* the owner, if there is one
          queue     \* the processes waiting, in order of arrival

Init == holders = {} /\ queue = <<>>

Acquire(p) == /\ holders = {}
              /\ holders' = {p}
              /\ UNCHANGED queue

Enqueue(p) == /\ holders # {}
              /\ p \notin holders
              /\ queue' = Append(queue, p)
              /\ UNCHANGED holders

Release(p) == /\ holders = {p}
              /\ \/ /\ queue # <<>>
                    /\ holders' = {Head(queue)}
                    /\ queue' = Tail(queue)
                 \/ /\ queue = <<>>
                    /\ holders' = {}
                    /\ UNCHANGED queue

Next == \E p \in Procs : Acquire(p) \/ Enqueue(p) \/ Release(p)

Spec == Init /\ [][Next]_<<holders, queue>>
============================================================================
