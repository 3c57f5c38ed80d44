------------------------------ MODULE MCSched ------------------------------
(* Programs for checking Sched: two tasks that spawn, and two that read. *)
EXTENDS Sched
Programs == <<{"spawn", "call"}, {"spawn", "sleep"}, {"read"}, {"read"}>>
============================================================================
