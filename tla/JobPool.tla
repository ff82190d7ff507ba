------------------------------- MODULE JobPool -------------------------------
(***************************************************************************)
(* What a thread pool promises, whatever its locks and condition           *)
(* variables: every job handed over while the pool is open is started in   *)
(* the order of acceptance, runs exactly once, and has finished before the *)
(* pool is gone.  Each stage of the schedulers relies on this and on       *)
(* nothing else about ThreadPool (include/thread/ThreadPool.h).            *)
(***************************************************************************)
EXTENDS Sequences

CONSTANT Jobs

VARIABLES
    status,   \* what became of each job
    order,    \* the accepted jobs that have not started, oldest first
    phase     \* "open", "closing", "destroyed"

poolVars == <<status, order, phase>>

JobStatus == {"new", "queued", "running", "done", "refused"}

PoolTypeOK ==
    /\ status \in [Jobs -> JobStatus]
    /\ order \in Seq(Jobs)
    /\ phase \in {"open", "closing", "destroyed"}

PoolInit ==
    /\ status = [j \in Jobs |-> "new"]
    /\ order = <<>>
    /\ phase = "open"

Accept(j) ==
    /\ phase = "open"
    /\ status[j] = "new"
    /\ status' = [status EXCEPT ![j] = "queued"]
    /\ order' = Append(order, j)
    /\ UNCHANGED phase

Refuse(j) ==
    /\ phase = "closing"
    /\ status[j] = "new"
    /\ status' = [status EXCEPT ![j] = "refused"]
    /\ UNCHANGED <<order, phase>>

Start(j) ==
    /\ phase # "destroyed"
    /\ order # <<>> /\ Head(order) = j
    /\ status[j] = "queued"
    /\ status' = [status EXCEPT ![j] = "running"]
    /\ order' = Tail(order)
    /\ UNCHANGED phase

Finish(j) ==
    /\ status[j] = "running"
    /\ status' = [status EXCEPT ![j] = "done"]
    /\ UNCHANGED <<order, phase>>

Close ==
    /\ phase = "open"
    /\ phase' = "closing"
    /\ UNCHANGED <<status, order>>

\* The pool goes away only once it owes nothing.
Destroy ==
    /\ phase = "closing"
    /\ \A j \in Jobs : status[j] \notin {"queued", "running"}
    /\ phase' = "destroyed"
    /\ UNCHANGED <<status, order>>

PoolNext ==
    \/ \E j \in Jobs : Accept(j) \/ Refuse(j) \/ Start(j) \/ Finish(j)
    \/ Close
    \/ Destroy

PoolSpec == PoolInit /\ [][PoolNext]_poolVars
==============================================================================
