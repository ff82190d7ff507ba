------------------------------ MODULE ThreadPool ------------------------------
(***************************************************************************)
(* include/thread/ThreadPool.h: a queue of jobs, a mutex, one condition    *)
(* variable and pool_size worker threads.                                  *)
(*                                                                         *)
(* Every critical section of the class is one step here: none of them      *)
(* blocks while it holds que_mutex_ except in condition_.wait, which gives *)
(* the mutex up.  What happens between two critical sections is not        *)
(* atomic: enqueue notifies after it has unlocked, the destructor sets the *)
(* flag, then notifies, then joins, and a woken worker has to win the      *)
(* mutex again before it looks at the queue.                               *)
(***************************************************************************)
EXTENDS Naturals, Sequences, FiniteSets

CONSTANTS
    Workers,   \* the threads of workers_
    Clients,   \* the threads that call enqueue
    Jobs,      \* the closures handed over, each at most once
    NoJob      \* an empty JobHandler

ASSUME WorkersAssumption == IsFiniteSet(Workers) /\ Workers # {}  \* pool_size >= 1
ASSUME ClientsAssumption == IsFiniteSet(Clients)
ASSUME NoJobAssumption == NoJob \notin Jobs

VARIABLES
    que,        \* que_
    isRunning,  \* is_running
    waitSet,    \* the workers asleep in condition_.wait
    wpc,        \* where each worker is: "lock" before the mutex, "run", "exited"
    job,        \* the worker's local variable job
    cpc,        \* where each client is: "idle", or "notify" between unlock and notify
    dpc,        \* where ~ThreadPool is: "none", "notify", "join", "done"
    finished,   \* history: the jobs that have run to the end
    refused     \* history: the jobs enqueue threw for

vars == <<que, isRunning, waitSet, wpc, job, cpc, dpc, finished, refused>>

------------------------------------------------------------------------------
Queued == {que[i] : i \in DOMAIN que}
Busy == {w \in Workers : wpc[w] = "run"}
Running == {job[w] : w \in Busy}

\* The jobs enqueue has been called for.
Offered == Queued \union Running \union finished \union refused

Init ==
    /\ que = <<>>
    /\ isRunning = TRUE
    /\ waitSet = {}
    /\ wpc = [w \in Workers |-> "lock"]
    /\ job = [w \in Workers |-> NoJob]
    /\ cpc = [c \in Clients |-> "idle"]
    /\ dpc = "none"
    /\ finished = {}
    /\ refused = {}

\* (mutant) notify_one is saved when the queue was not empty.
EnqueuePushNotifiesFirstOnly(c, j) ==
    /\ cpc[c] = "idle" /\ dpc # "done" /\ j \notin Offered
    /\ isRunning
    /\ que' = Append(que, j)
    /\ cpc' = IF que = <<>> THEN [cpc EXCEPT ![c] = "notify"] ELSE cpc
    /\ UNCHANGED <<isRunning, waitSet, wpc, job, dpc, finished, refused>>

\* enqueue up to the unlock, the pool running: the job is pushed.  A call
\* after the destructor has returned is outside the object's lifetime.
EnqueuePush(c, j) ==
    /\ cpc[c] = "idle" /\ dpc # "done" /\ j \notin Offered
    /\ isRunning
    /\ que' = Append(que, j)
    /\ cpc' = [cpc EXCEPT ![c] = "notify"]
    /\ UNCHANGED <<isRunning, waitSet, wpc, job, dpc, finished, refused>>

\* enqueue on a pool being destroyed throws before it pushes or notifies.
EnqueueRefused(c, j) ==
    /\ cpc[c] = "idle" /\ dpc # "done" /\ j \notin Offered
    /\ ~isRunning
    /\ refused' = refused \union {j}
    /\ UNCHANGED <<que, isRunning, waitSet, wpc, job, cpc, dpc, finished>>

\* condition_.notify_one() after the unlock: some sleeper, if there is one.
NotifyOne(c) ==
    /\ cpc[c] = "notify"
    /\ \/ \E w \in waitSet : waitSet' = waitSet \ {w}
       \/ waitSet = {} /\ UNCHANGED waitSet
    /\ cpc' = [cpc EXCEPT ![c] = "idle"]
    /\ UNCHANGED <<que, isRunning, wpc, job, dpc, finished, refused>>

\* (mutant) wait without a predicate.
SleepUnconditionally(w) ==
    /\ wpc[w] = "lock" /\ w \notin waitSet
    /\ isRunning
    /\ waitSet' = waitSet \union {w}
    /\ UNCHANGED <<que, isRunning, wpc, job, cpc, dpc, finished, refused>>

\* (mutant) the predicate looks at the queue only.
SleepIgnoringStop(w) ==
    /\ wpc[w] = "lock" /\ w \notin waitSet
    /\ que = <<>>
    /\ waitSet' = waitSet \union {w}
    /\ UNCHANGED <<que, isRunning, wpc, job, cpc, dpc, finished, refused>>

\* The worker has the mutex, and its predicate fails: it goes to sleep.
Sleep(w) ==
    /\ wpc[w] = "lock" /\ w \notin waitSet
    /\ isRunning /\ que = <<>>
    /\ waitSet' = waitSet \union {w}
    /\ UNCHANGED <<que, isRunning, wpc, job, cpc, dpc, finished, refused>>

\* (mutant) the queue is popped and its front never moved into job.
TakeWithoutMove(w) ==
    /\ wpc[w] = "lock" /\ w \notin waitSet
    /\ que # <<>>
    /\ que' = Tail(que)
    /\ wpc' = [wpc EXCEPT ![w] = "run"]
    /\ UNCHANGED <<isRunning, waitSet, job, cpc, dpc, finished, refused>>

\* The worker has the mutex and the queue is not empty: it takes the oldest
\* job, stopped or not.  Its previous closure dies here, and not earlier.
Take(w) ==
    /\ wpc[w] = "lock" /\ w \notin waitSet
    /\ que # <<>>
    /\ job' = [job EXCEPT ![w] = Head(que)]
    /\ que' = Tail(que)
    /\ wpc' = [wpc EXCEPT ![w] = "run"]
    /\ UNCHANGED <<isRunning, waitSet, cpc, dpc, finished, refused>>

\* (mutant) a stopped worker leaves without draining the queue.
ExitWithoutDraining(w) ==
    /\ wpc[w] = "lock" /\ w \notin waitSet
    /\ ~isRunning
    /\ wpc' = [wpc EXCEPT ![w] = "exited"]
    /\ job' = [job EXCEPT ![w] = NoJob]
    /\ UNCHANGED <<que, isRunning, waitSet, cpc, dpc, finished, refused>>

\* The worker has the mutex, the pool is stopped and drained: it leaves.
Exit(w) ==
    /\ wpc[w] = "lock" /\ w \notin waitSet
    /\ ~isRunning /\ que = <<>>
    /\ wpc' = [wpc EXCEPT ![w] = "exited"]
    /\ job' = [job EXCEPT ![w] = NoJob]
    /\ UNCHANGED <<que, isRunning, waitSet, cpc, dpc, finished, refused>>

\* job() returns; a packaged_task keeps what its callable throws.
Run(w) ==
    /\ wpc[w] = "run"
    /\ finished' = finished \union {job[w]}
    /\ wpc' = [wpc EXCEPT ![w] = "lock"]
    /\ UNCHANGED <<que, isRunning, waitSet, job, cpc, dpc, refused>>

\* condition_.wait may return without a notification.
SpuriousWakeup(w) ==
    /\ w \in waitSet
    /\ waitSet' = waitSet \ {w}
    /\ UNCHANGED <<que, isRunning, wpc, job, cpc, dpc, finished, refused>>

\* ~ThreadPool, its critical section.
DtorStop ==
    /\ dpc = "none"
    /\ isRunning' = FALSE
    /\ dpc' = "notify"
    /\ UNCHANGED <<que, waitSet, wpc, job, cpc, finished, refused>>

\* (mutant) the destructor wakes one worker only.
DtorNotifyOne ==
    /\ dpc = "notify"
    /\ \/ \E w \in waitSet : waitSet' = waitSet \ {w}
       \/ waitSet = {} /\ UNCHANGED waitSet
    /\ dpc' = "join"
    /\ UNCHANGED <<que, isRunning, wpc, job, cpc, finished, refused>>

DtorNotifyAll ==
    /\ dpc = "notify"
    /\ waitSet' = {}
    /\ dpc' = "join"
    /\ UNCHANGED <<que, isRunning, wpc, job, cpc, finished, refused>>

DtorJoin ==
    /\ dpc = "join"
    /\ \A w \in Workers : wpc[w] = "exited"
    /\ dpc' = "done"
    /\ UNCHANGED <<que, isRunning, waitSet, wpc, job, cpc, finished, refused>>

Worker(w) == Sleep(w) \/ Take(w) \/ Exit(w) \/ Run(w)
Dtor == DtorNotifyAll \/ DtorJoin

Next ==
    \/ \E c \in Clients, j \in Jobs : EnqueuePush(c, j) \/ EnqueueRefused(c, j)
    \/ \E c \in Clients : NotifyOne(c)
    \/ \E w \in Workers : Worker(w) \/ SpuriousWakeup(w)
    \/ DtorStop
    \/ Dtor

Spec == Init /\ [][Next]_vars

\* The scheduler runs every thread that can run and the mutex starves nobody;
\* a client that has unlocked reaches its notify.  Nobody has to call enqueue
\* or the destructor, and no spurious wakeup has to happen.
Fairness ==
    /\ \A w \in Workers : WF_vars(Worker(w))
    /\ \A c \in Clients : WF_vars(NotifyOne(c))
    /\ WF_vars(Dtor)

FairSpec == Spec /\ Fairness

------------------------------------------------------------------------------
TypeOK ==
    /\ que \in Seq(Jobs)
    /\ isRunning \in BOOLEAN
    /\ waitSet \in SUBSET Workers
    /\ wpc \in [Workers -> {"lock", "run", "exited"}]
    /\ job \in [Workers -> Jobs \union {NoJob}]
    /\ cpc \in [Clients -> {"idle", "notify"}]
    /\ dpc \in {"none", "notify", "join", "done"}
    /\ finished \in SUBSET Jobs
    /\ refused \in SUBSET Jobs

\* Workers that will look at the queue without being notified again.
Awake == {w \in Workers : wpc[w] = "lock"} \ waitSet
Notifying == {c \in Clients : cpc[c] = "notify"}

\* No worker sleeps on while a job waits for it: as long as anyone is asleep,
\* each queued job is matched by a worker on its way to the queue or by a
\* client that still owes its notify_one.  (enqueue notifies outside the lock;
\* a notification lost or saved here leaves the pool running on fewer threads.)
WakeupsCoverBacklog ==
    waitSet # {} => Len(que) <= Cardinality(Awake) + Cardinality(Notifying)

\* Once the destructor is past notify_all nobody sleeps, or join never returns.
NobodySleepsThroughShutdown ==
    ~isRunning /\ dpc # "notify" => waitSet = {}

\* What has become of a job, as JobPool sees it.
StatusOf(j) ==
    IF j \in Queued THEN "queued"
    ELSE IF j \in Running THEN "running"
    ELSE IF j \in finished THEN "done"
    ELSE IF j \in refused THEN "refused"
    ELSE "new"

Phase ==
    IF dpc = "done" THEN "destroyed" ELSE IF isRunning THEN "open" ELSE "closing"

Promise == INSTANCE JobPool WITH
    status <- [j \in Jobs |-> StatusOf(j)], order <- que, phase <- Phase

\* The pool is a JobPool: first in, first started, exactly once, and nothing
\* accepted is left behind when the destructor returns.
ImplementsJobPool == Promise!PoolSpec

\* An accepted job runs, whatever the order of notifications and shutdown.
AcceptedJobRuns == \A j \in Jobs : j \in Queued ~> j \in finished

\* A destructor that has been entered returns.
DestructorReturns == dpc # "none" ~> dpc = "done"
==============================================================================
