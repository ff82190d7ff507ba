-------------------------- MODULE ThreadPool_proofs --------------------------
(***************************************************************************)
(* Theorems about ThreadPool for any number of workers, clients and jobs.  *)
(*                                                                         *)
(* The inductive invariant is Inv.  JobsApart says that a job is in one    *)
(* place at a time: it is what makes the status of a job, which JobPool    *)
(* keeps in a variable, a function of the pool's state.  LifeCycle ties    *)
(* the workers' counters to the destructor's.  WakeupsCoverBacklog counts  *)
(* wakeups against queued jobs and is inductive on its own once the types  *)
(* are known.                                                              *)
(***************************************************************************)
EXTENDS ThreadPool, QueueLemmas

JobsApart ==
    /\ \A i, k \in DOMAIN que : que[i] = que[k] => i = k
    /\ \A w, v \in Busy : job[w] = job[v] => w = v
    /\ \A w \in Busy : job[w] \in Jobs
    /\ Queued \intersect (Running \union finished \union refused) = {}
    /\ Running \intersect (finished \union refused) = {}
    /\ finished \intersect refused = {}

LifeCycle ==
    /\ dpc = "none" <=> isRunning
    /\ \A w \in waitSet : wpc[w] = "lock"
    /\ \A w \in Workers : wpc[w] = "exited" => ~isRunning /\ que = <<>>
    /\ dpc = "done" => \A w \in Workers : wpc[w] = "exited"

Inv == TypeOK /\ JobsApart /\ LifeCycle

------------------------------------------------------------------------------
(* The invariant. *)

\* No job has been offered, and the workers have just been started.
LEMMA InitInv == Init => Inv
<1> SUFFICES ASSUME Init PROVE Inv
    OBVIOUS
<1>1. TypeOK
    BY EmptySeq DEF Init, TypeOK
<1>2. JobsApart
    BY DEF Init, JobsApart, Busy, Running, Queued
<1>3. LifeCycle
    BY DEF Init, LifeCycle
<1> QED BY <1>1, <1>2, <1>3 DEF Inv

\* enqueue puts a job nobody has seen at the end of the queue.
LEMMA EnqueuePushInv ==
    ASSUME Inv, NEW c \in Clients, NEW j \in Jobs, EnqueuePush(c, j)
    PROVE  Inv'
<1> USE DEF Inv
<1>1. /\ Append(que, j) \in Seq(Jobs)
      /\ Append(que, j) # <<>>
      /\ DOMAIN Append(que, j) = 1 .. Len(que) + 1
      /\ DOMAIN que = 1 .. Len(que)
      /\ Len(que) \in Nat
      /\ \A i \in 1 .. Len(que) : Append(que, j)[i] = que[i]
      /\ Append(que, j)[Len(que) + 1] = j
      /\ {Append(que, j)[i] : i \in DOMAIN Append(que, j)} = Queued \union {j}
    BY AppendElements, LenProperties DEF TypeOK, Queued
<1>2. Queued' = Queued \union {j}
    BY <1>1 DEF EnqueuePush, Queued
<1>3. Busy' = Busy /\ Running' = Running
    BY DEF EnqueuePush, Busy, Running
<1>4. j \notin Queued \union Running \union finished \union refused
    BY DEF EnqueuePush, Offered
<1>5. TypeOK'
    BY <1>1 DEF EnqueuePush, TypeOK
<1>6. JobsApart'
  <2>1. \A i, k \in DOMAIN que' : que'[i] = que'[k] => i = k
    <3>1. \A i \in 1 .. Len(que) : que[i] # j
        BY <1>1, <1>4 DEF Queued
    <3> QED BY <1>1, <3>1 DEF EnqueuePush, JobsApart
  <2>2. \A w, v \in Busy' : job'[w] = job'[v] => w = v
    BY <1>3 DEF EnqueuePush, JobsApart
  <2>3. \A w \in Busy' : job'[w] \in Jobs
    BY <1>3 DEF EnqueuePush, JobsApart
  <2>4. /\ Queued' \intersect (Running' \union finished' \union refused') = {}
        /\ Running' \intersect (finished' \union refused') = {}
        /\ finished' \intersect refused' = {}
    BY <1>2, <1>3, <1>4 DEF EnqueuePush, JobsApart
  <2> QED BY <2>1, <2>2, <2>3, <2>4 DEF JobsApart
<1>7. LifeCycle'
    BY DEF EnqueuePush, LifeCycle
<1> QED BY <1>5, <1>6, <1>7

\* A worker takes the oldest job; it was nowhere else.
LEMMA TakeInv ==
    ASSUME Inv, NEW w \in Workers, Take(w)
    PROVE  Inv'
<1> USE DEF Inv
<1>1. /\ Head(que) \in Jobs
      /\ Head(que) = que[1]
      /\ Tail(que) \in Seq(Jobs)
      /\ Len(que) \in Nat \ {0}
      /\ DOMAIN que = 1 .. Len(que)
      /\ DOMAIN Tail(que) = 1 .. Len(que) - 1
      /\ \A i \in 1 .. Len(que) - 1 : Tail(que)[i] = que[i + 1]
      /\ Queued = {Tail(que)[i] : i \in DOMAIN Tail(que)} \union {Head(que)}
    BY TailElements DEF Take, TypeOK, Queued
<1>2. Queued = Queued' \union {Head(que)}
    BY <1>1 DEF Take, Queued
<1>3. Head(que) \notin Queued'
  <2>1. \A i \in 1 .. Len(que) - 1 : Tail(que)[i] # Head(que)
    BY <1>1 DEF JobsApart
  <2> QED BY <1>1, <2>1 DEF Take, Queued
<1>4. Busy' = Busy \union {w} /\ w \notin Busy
    BY DEF Take, Busy, TypeOK
<1>5. \A v \in Busy' : job'[v] = IF v = w THEN Head(que) ELSE job[v]
    BY DEF Take, TypeOK, Busy
<1>6. Running' = Running \union {Head(que)}
    BY <1>4, <1>5 DEF Running
<1>7. TypeOK'
    BY <1>1 DEF Take, TypeOK
<1>8. JobsApart'
  <2>1. \A i, k \in DOMAIN que' : que'[i] = que'[k] => i = k
    BY <1>1 DEF Take, JobsApart
  <2>2. Head(que) \notin Running \union finished \union refused
    BY <1>2 DEF JobsApart
  <2>3. \A u, v \in Busy' : job'[u] = job'[v] => u = v
    BY <1>4, <1>5, <2>2 DEF JobsApart, Running
  <2>4. \A v \in Busy' : job'[v] \in Jobs
    BY <1>1, <1>4, <1>5 DEF JobsApart
  <2>5. /\ Queued' \intersect (Running' \union finished' \union refused') = {}
        /\ Running' \intersect (finished' \union refused') = {}
        /\ finished' \intersect refused' = {}
    BY <1>2, <1>3, <1>6, <2>2 DEF Take, JobsApart
  <2> QED BY <2>1, <2>3, <2>4, <2>5 DEF JobsApart
<1>9. LifeCycle'
    BY DEF Take, LifeCycle, TypeOK
<1> QED BY <1>7, <1>8, <1>9

\* A job that returns leaves Running for finished.
LEMMA RunInv ==
    ASSUME Inv, NEW w \in Workers, Run(w)
    PROVE  Inv'
<1> USE DEF Inv
<1>1. Busy' = Busy \ {w} /\ w \in Busy
    BY DEF Run, Busy, TypeOK
<1>2. Running = Running' \union {job[w]} /\ job[w] \notin Running'
    BY <1>1 DEF Run, Running, JobsApart
<1>3. Queued' = Queued
    BY DEF Run, Queued
<1>4. TypeOK'
    BY <1>1 DEF Run, TypeOK, JobsApart
<1>5. JobsApart'
  <2>1. /\ \A i, k \in DOMAIN que' : que'[i] = que'[k] => i = k
        /\ \A u, v \in Busy' : job'[u] = job'[v] => u = v
        /\ \A v \in Busy' : job'[v] \in Jobs
    BY <1>1 DEF Run, JobsApart
  <2>2. /\ Queued' \intersect (Running' \union finished' \union refused') = {}
        /\ Running' \intersect (finished' \union refused') = {}
        /\ finished' \intersect refused' = {}
    BY <1>2, <1>3 DEF Run, JobsApart
  <2> QED BY <2>1, <2>2 DEF JobsApart
<1>6. LifeCycle'
    BY DEF Run, LifeCycle, TypeOK
<1> QED BY <1>4, <1>5, <1>6

\* A stopped pool refuses a job, which is then in no other place.
LEMMA RefusedInv ==
    ASSUME Inv, NEW c \in Clients, NEW j \in Jobs, EnqueueRefused(c, j)
    PROVE  Inv'
<1> USE DEF Inv
<1>1. TypeOK'
    BY DEF EnqueueRefused, TypeOK
<1>2. Queued' = Queued /\ Busy' = Busy /\ Running' = Running
    BY DEF EnqueueRefused, Queued, Busy, Running
<1>3. JobsApart'
    BY <1>2 DEF EnqueueRefused, JobsApart, Offered
<1>4. LifeCycle'
    BY DEF EnqueueRefused, LifeCycle
<1> QED BY <1>1, <1>3, <1>4

\* The steps that move no job.
LEMMA ControlInv ==
    ASSUME Inv,
           \/ UNCHANGED vars
           \/ \E c \in Clients : NotifyOne(c)
           \/ \E w \in Workers : Sleep(w) \/ Exit(w) \/ SpuriousWakeup(w)
           \/ DtorStop
           \/ Dtor
    PROVE  Inv'
<1> USE DEF Inv
<1>1. UNCHANGED <<que, finished, refused>>
    BY DEF vars, NotifyOne, Sleep, Exit, SpuriousWakeup, DtorStop, Dtor, DtorNotifyAll, DtorJoin
<1>2. Busy' = Busy /\ \A w \in Busy : job'[w] = job[w]
    BY DEF vars, NotifyOne, Sleep, Exit, SpuriousWakeup, DtorStop, Dtor, DtorNotifyAll, DtorJoin,
           Busy, TypeOK
<1>3. Queued' = Queued /\ Running' = Running
    BY <1>1, <1>2 DEF Queued, Running
<1>4. JobsApart'
    BY <1>1, <1>2, <1>3 DEF JobsApart
<1>5. TypeOK'
    BY DEF vars, NotifyOne, Sleep, Exit, SpuriousWakeup, DtorStop, Dtor, DtorNotifyAll, DtorJoin,
           TypeOK
<1>6. LifeCycle'
  <2>1. CASE UNCHANGED vars
    BY <2>1 DEF vars, LifeCycle
  <2>2. CASE \E c \in Clients : NotifyOne(c)
    BY <2>2 DEF NotifyOne, LifeCycle
  <2>3. CASE \E w \in Workers : Sleep(w) \/ Exit(w) \/ SpuriousWakeup(w)
    BY <2>3 DEF Sleep, Exit, SpuriousWakeup, LifeCycle, TypeOK
  <2>4. CASE DtorStop
    BY <2>4 DEF DtorStop, LifeCycle, TypeOK
  <2>5. CASE Dtor
    BY <2>5 DEF Dtor, DtorNotifyAll, DtorJoin, LifeCycle, TypeOK
  <2> QED BY <2>1, <2>2, <2>3, <2>4, <2>5
<1> QED BY <1>4, <1>5, <1>6

\* Every step keeps the invariant.
LEMMA StepInv == Inv /\ [Next]_vars => Inv'
<1> SUFFICES ASSUME Inv, [Next]_vars PROVE Inv'
    OBVIOUS
<1>1. ASSUME NEW c \in Clients, NEW j \in Jobs, EnqueuePush(c, j) PROVE Inv'
    BY <1>1, EnqueuePushInv
<1>2. ASSUME NEW c \in Clients, NEW j \in Jobs, EnqueueRefused(c, j) PROVE Inv'
    BY <1>2, RefusedInv
<1>3. ASSUME NEW w \in Workers, Take(w) PROVE Inv'
    BY <1>3, TakeInv
<1>4. ASSUME NEW w \in Workers, Run(w) PROVE Inv'
    BY <1>4, RunInv
<1>5. CASE \/ UNCHANGED vars
           \/ \E c \in Clients : NotifyOne(c)
           \/ \E w \in Workers : Sleep(w) \/ Exit(w) \/ SpuriousWakeup(w)
           \/ DtorStop
           \/ Dtor
    BY <1>5, ControlInv
<1> QED BY <1>1, <1>2, <1>3, <1>4, <1>5 DEF Next, Worker

\* The pool's inductive invariant.
THEOREM Invariant == Spec => []Inv
<1> QED BY InitInv, StepInv, PTL DEF Spec

\* Every reachable state of the pool is well typed.  (What runs has been
\* taken from the queue: a worker never calls an empty JobHandler.)
THEOREM TypeCorrect == Spec => []TypeOK
<1>1. Inv => TypeOK
    BY DEF Inv
<1> QED BY <1>1, Invariant, PTL

\* After the destructor's notify_all no worker is asleep, nor can fall asleep.
THEOREM ShutdownWakesEverybody == Spec => []NobodySleepsThroughShutdown
<1>1. Init => NobodySleepsThroughShutdown
    BY DEF Init, NobodySleepsThroughShutdown
<1>2. Inv /\ NobodySleepsThroughShutdown /\ [Next]_vars => NobodySleepsThroughShutdown'
    BY DEF Inv, TypeOK, LifeCycle, NobodySleepsThroughShutdown, Next, vars, Worker, EnqueuePush,
           EnqueueRefused, NotifyOne, Sleep, Take, Exit, Run, SpuriousWakeup, DtorStop, Dtor,
           DtorNotifyAll, DtorJoin
<1> QED BY <1>1, <1>2, Invariant, PTL DEF Spec

------------------------------------------------------------------------------
(* Wakeups against backlog. *)

\* The sets whose sizes are counted are finite.
LEMMA Counted ==
    ASSUME TypeOK
    PROVE  /\ IsFiniteSet(Awake) /\ Cardinality(Awake) \in Nat
           /\ IsFiniteSet(Notifying) /\ Cardinality(Notifying) \in Nat
           /\ Len(que) \in Nat
<1>1. Awake \in SUBSET Workers /\ Notifying \in SUBSET Clients
    BY DEF Awake, Notifying
<1>2. IsFiniteSet(Awake) /\ IsFiniteSet(Notifying)
    BY <1>1, FS_Subset, WorkersAssumption, ClientsAssumption
<1>3. Len(que) \in Nat
    BY LenProperties DEF TypeOK
<1> QED BY <1>2, <1>3, FS_CardinalityType

\* Every step keeps the wakeups that cover the backlog.
LEMMA BacklogStep == Inv /\ WakeupsCoverBacklog /\ [Next]_vars => WakeupsCoverBacklog'
<1> SUFFICES ASSUME Inv, WakeupsCoverBacklog, [Next]_vars, waitSet' # {}
             PROVE  Len(que') <= Cardinality(Awake') + Cardinality(Notifying')
    BY DEF WakeupsCoverBacklog
<1> USE Counted DEF Inv
\* A push owes a notify.
<1>1. ASSUME NEW c \in Clients, NEW j \in Jobs, EnqueuePush(c, j)
      PROVE  Len(que') <= Cardinality(Awake') + Cardinality(Notifying')
  <2>1. Awake' = Awake /\ waitSet' = waitSet
    BY <1>1 DEF EnqueuePush, Awake
  <2>2. Notifying' = Notifying \union {c} /\ c \notin Notifying
    BY <1>1 DEF EnqueuePush, Notifying, TypeOK
  <2>3. Cardinality(Notifying') = Cardinality(Notifying) + 1
    BY <2>2, FS_AddElement
  <2>4. Len(que') = Len(que) + 1
    BY <1>1, AppendElements DEF EnqueuePush, TypeOK
  <2> QED BY <2>1, <2>3, <2>4 DEF WakeupsCoverBacklog
\* A notify that finds a sleeper turns the debt into a worker on its way.
<1>2. ASSUME NEW c \in Clients, NotifyOne(c)
      PROVE  Len(que') <= Cardinality(Awake') + Cardinality(Notifying')
  <2>1. waitSet # {} /\ que' = que
    BY <1>2 DEF NotifyOne
  <2>2. PICK w \in waitSet : waitSet' = waitSet \ {w}
    BY <1>2, <2>1 DEF NotifyOne
  <2>3. Awake' = Awake \union {w} /\ w \notin Awake
    BY <1>2, <2>2 DEF NotifyOne, Awake, LifeCycle, TypeOK
  <2>4. Notifying' = Notifying \ {c} /\ c \in Notifying
    BY <1>2 DEF NotifyOne, Notifying, TypeOK
  <2>5. Cardinality(Awake') = Cardinality(Awake) + 1
    BY <2>3, FS_AddElement
  <2>6. Cardinality(Notifying') = Cardinality(Notifying) - 1
    BY <2>4, FS_RemoveElement
  <2> QED BY <2>1, <2>5, <2>6 DEF WakeupsCoverBacklog
\* A worker that takes a job uses up itself and the job.
<1>3. ASSUME NEW w \in Workers, Take(w)
      PROVE  Len(que') <= Cardinality(Awake') + Cardinality(Notifying')
  <2>1. Awake' = Awake \ {w} /\ w \in Awake /\ waitSet' = waitSet
    BY <1>3 DEF Take, Awake, TypeOK
  <2>2. Cardinality(Awake') = Cardinality(Awake) - 1
    BY <2>1, FS_RemoveElement
  <2>3. Notifying' = Notifying
    BY <1>3 DEF Take, Notifying
  <2>4. Len(que') = Len(que) - 1
    BY <1>3, TailElements DEF Take, TypeOK
  <2> QED BY <2>1, <2>2, <2>3, <2>4 DEF WakeupsCoverBacklog
\* A worker sleeps or leaves on an empty queue only.
<1>4. ASSUME NEW w \in Workers, Sleep(w) \/ Exit(w)
      PROVE  Len(que') <= Cardinality(Awake') + Cardinality(Notifying')
  <2>1. Len(que') = 0
    BY <1>4 DEF Sleep, Exit
  <2>2. Awake' \in SUBSET Workers /\ Notifying' \in SUBSET Clients
    BY DEF Awake, Notifying
  <2>3. IsFiniteSet(Awake') /\ IsFiniteSet(Notifying')
    BY <2>2, FS_Subset, WorkersAssumption, ClientsAssumption
  <2>4. Cardinality(Awake') \in Nat /\ Cardinality(Notifying') \in Nat
    BY <2>3, FS_CardinalityType
  <2> QED BY <2>1, <2>4
\* A worker that wakes or comes back from a job is one more on its way.
<1>5. ASSUME NEW w \in Workers, Run(w) \/ SpuriousWakeup(w)
      PROVE  Len(que') <= Cardinality(Awake') + Cardinality(Notifying')
  <2>1. waitSet # {} /\ que' = que /\ Notifying' = Notifying
    BY <1>5 DEF Run, SpuriousWakeup, Notifying
  <2>2. Awake' = Awake \union {w}
    BY <1>5 DEF Run, SpuriousWakeup, Awake, LifeCycle, TypeOK
  <2>3. Cardinality(Awake') = IF w \in Awake THEN Cardinality(Awake) ELSE Cardinality(Awake) + 1
    BY <2>2, FS_AddElement
  <2> QED BY <2>1, <2>3 DEF WakeupsCoverBacklog
<1>6. CASE (\E c \in Clients, j \in Jobs : EnqueueRefused(c, j)) \/ DtorStop \/ DtorJoin \/ UNCHANGED vars
  <2>1. Awake' = Awake /\ Notifying' = Notifying /\ que' = que /\ waitSet' = waitSet
    BY <1>6 DEF EnqueueRefused, DtorStop, DtorJoin, vars, Awake, Notifying
  <2> QED BY <2>1 DEF WakeupsCoverBacklog
<1>7. CASE DtorNotifyAll
    BY <1>7 DEF DtorNotifyAll
<1> QED BY <1>1, <1>2, <1>3, <1>4, <1>5, <1>6, <1>7 DEF Next, Worker, Dtor

\* No worker is left asleep while a queued job has nobody coming for it, for
\* any number of workers and clients.
THEOREM NoIdleWorkerWithBacklog == Spec => []WakeupsCoverBacklog
<1>1. Init => WakeupsCoverBacklog
    BY DEF Init, WakeupsCoverBacklog
<1> QED BY <1>1, BacklogStep, Invariant, PTL DEF Spec

------------------------------------------------------------------------------
(* The pool implements JobPool. *)

Status == [j \in Jobs |-> StatusOf(j)]

\* The status of a job, read from the places it can be in.
LEMMA StatusValues ==
    ASSUME Inv, NEW j
    PROVE  /\ j \in Queued => StatusOf(j) = "queued"
           /\ j \in Running => StatusOf(j) = "running"
           /\ j \in finished => StatusOf(j) = "done"
           /\ j \in refused => StatusOf(j) = "refused"
           /\ j \notin Offered => StatusOf(j) = "new"
    BY DEF Inv, JobsApart, StatusOf, Offered

\* A new ThreadPool is a new JobPool.
LEMMA InitRefines == Init => Promise!PoolInit
<1> SUFFICES ASSUME Init PROVE Promise!PoolInit
    OBVIOUS
<1>1. Queued = {} /\ Running = {} /\ finished = {} /\ refused = {}
    BY DEF Init, Queued, Running, Busy
<1>2. \A j \in Jobs : StatusOf(j) = "new"
    BY <1>1 DEF StatusOf
<1>3. que = <<>> /\ Phase = "open"
    BY DEF Init, Phase
<1> QED BY <1>2, <1>3 DEF Promise!PoolInit

\* A push is an Accept.
LEMMA PushRefines ==
    ASSUME Inv, NEW c \in Clients, NEW j \in Jobs, EnqueuePush(c, j)
    PROVE  Promise!Accept(j)
<1>1. /\ que' = Append(que, j)
      /\ Queued' = Queued \union {j}
      /\ Running' = Running /\ finished' = finished /\ refused' = refused
    BY AppendElements DEF EnqueuePush, Queued, Running, Busy, Inv, TypeOK
<1>2. j \notin Offered
    BY DEF EnqueuePush
<1>3. Phase = "open" /\ Phase' = "open"
    BY DEF EnqueuePush, Phase
<1>4. StatusOf(j) = "new"
    BY <1>2, StatusValues
<1>5. \A k : StatusOf(k)' = IF k = j THEN "queued" ELSE StatusOf(k)
    BY <1>1, <1>2 DEF StatusOf, Offered
<1> QED BY <1>1, <1>3, <1>4, <1>5 DEF Promise!Accept

\* An enqueue that throws is a Refuse.
LEMMA RefusedRefines ==
    ASSUME Inv, NEW c \in Clients, NEW j \in Jobs, EnqueueRefused(c, j)
    PROVE  Promise!Refuse(j)
<1>1. /\ que' = que
      /\ Queued' = Queued
      /\ Running' = Running /\ finished' = finished /\ refused' = refused \union {j}
    BY DEF EnqueueRefused, Queued, Running, Busy
<1>2. j \notin Offered
    BY DEF EnqueueRefused
<1>3. Phase = "closing" /\ Phase' = "closing"
    BY DEF EnqueueRefused, Phase
<1>4. StatusOf(j) = "new"
    BY <1>2, StatusValues
<1>5. \A k : StatusOf(k)' = IF k = j THEN "refused" ELSE StatusOf(k)
    BY <1>1, <1>2 DEF StatusOf, Offered
<1> QED BY <1>1, <1>3, <1>4, <1>5 DEF Promise!Refuse

\* A take starts the oldest job.
LEMMA TakeRefines ==
    ASSUME Inv, NEW w \in Workers, Take(w)
    PROVE  Promise!Start(Head(que)) /\ Head(que) \in Jobs
<1> DEFINE j == Head(que)
<1>0. /\ Head(que) \in Jobs /\ Head(que) = que[1]
      /\ DOMAIN que = 1 .. Len(que) /\ Len(que) \in Nat \ {0}
      /\ DOMAIN Tail(que) = 1 .. Len(que) - 1
      /\ \A i \in 1 .. Len(que) - 1 : Tail(que)[i] = que[i + 1]
      /\ Queued = {Tail(que)[i] : i \in DOMAIN Tail(que)} \union {Head(que)}
    BY TailElements DEF Take, Inv, TypeOK, Queued
<1>1. /\ j \in Jobs /\ j = que[1] /\ que # <<>> /\ que' = Tail(que)
      /\ DOMAIN que = 1 .. Len(que) /\ Len(que) \in Nat \ {0}
      /\ DOMAIN Tail(que) = 1 .. Len(que) - 1
      /\ \A i \in 1 .. Len(que) - 1 : Tail(que)[i] = que[i + 1]
      /\ Queued = Queued' \union {j}
    BY <1>0, ZenonT(30) DEF Take, Queued
<1>2. j \notin Queued'
    BY <1>1 DEF Queued, Inv, JobsApart
<1>3. Busy' = Busy \union {w} /\ \A v \in Busy' : job'[v] = IF v = w THEN j ELSE job[v]
    BY DEF Take, Inv, TypeOK, Busy
<1>4. Running' = Running \union {j} /\ finished' = finished /\ refused' = refused
    BY <1>3 DEF Take, Running, Busy, Inv, TypeOK
<1>5. Phase # "destroyed" /\ Phase' = Phase
    BY DEF Take, Phase, Inv, LifeCycle
<1>6. StatusOf(j) = "queued"
    BY <1>1 DEF StatusOf
<1>7. \A k : StatusOf(k)' = IF k = j THEN "running" ELSE StatusOf(k)
    BY <1>1, <1>2, <1>4 DEF StatusOf
<1> HIDE DEF j
<1>8. Promise!Start(j)
    BY <1>1, <1>5, <1>6, <1>7 DEF Promise!Start, j
<1> QED BY <1>1, <1>8 DEF j

\* A job that returns finishes.
LEMMA RunRefines ==
    ASSUME Inv, NEW w \in Workers, Run(w)
    PROVE  Promise!Finish(job[w]) /\ job[w] \in Jobs
<1> DEFINE j == job[w]
<1>1. Busy' = Busy \ {w} /\ w \in Busy /\ job' = job /\ que' = que
    BY DEF Run, Busy, Inv, TypeOK
<1>2. /\ Running = Running' \union {j} /\ j \notin Running'
      /\ Queued' = Queued /\ finished' = finished \union {j} /\ refused' = refused
    BY <1>1 DEF Run, Running, Queued, Inv, JobsApart
<1>3. j \in Jobs /\ j \in Running
    BY <1>1 DEF Running, Inv, JobsApart
<1>4. Phase' = Phase
    BY DEF Run, Phase
<1>5. StatusOf(j) = "running"
    BY <1>3, StatusValues
<1>6. j \notin Queued /\ j \notin refused
    BY <1>3 DEF Inv, JobsApart
<1>7. \A k : StatusOf(k)' = IF k = j THEN "done" ELSE StatusOf(k)
    BY <1>2, <1>6 DEF StatusOf
<1> HIDE DEF j
<1>8. Promise!Finish(j)
    BY <1>1, <1>3, <1>4, <1>5, <1>7 DEF Promise!Finish
<1> QED BY <1>3, <1>8 DEF j

\* The other steps move no job: they are a Close, a Destroy or a stutter.
LEMMA ControlRefines ==
    ASSUME Inv,
           \/ UNCHANGED vars
           \/ \E c \in Clients : NotifyOne(c)
           \/ \E w \in Workers : Sleep(w) \/ Exit(w) \/ SpuriousWakeup(w)
           \/ DtorStop
           \/ Dtor
    PROVE  \/ Promise!Close
           \/ Promise!Destroy
           \/ Status' = Status /\ que' = que /\ Phase' = Phase
<1>1. UNCHANGED <<que, finished, refused>>
    BY DEF vars, NotifyOne, Sleep, Exit, SpuriousWakeup, DtorStop, Dtor, DtorNotifyAll, DtorJoin
<1>2. Busy' = Busy /\ \A w \in Busy : job'[w] = job[w]
    BY DEF vars, NotifyOne, Sleep, Exit, SpuriousWakeup, DtorStop, Dtor, DtorNotifyAll, DtorJoin,
           Busy, Inv, TypeOK
<1>3. Queued' = Queued /\ Running' = Running
    BY <1>1, <1>2 DEF Queued, Running
<1>4. \A k : StatusOf(k)' = StatusOf(k)
    BY <1>1, <1>3 DEF StatusOf
<1>5. Status' = Status
    BY <1>4 DEF Status
<1>6. CASE DtorStop
  <2>1. Phase = "open" /\ Phase' = "closing"
    BY <1>6 DEF DtorStop, Phase, Inv, LifeCycle
  <2> QED BY <1>1, <1>4, <2>1 DEF Promise!Close
<1>7. CASE DtorJoin
  <2>1. Phase = "closing" /\ Phase' = "destroyed"
    BY <1>7 DEF DtorJoin, Phase, Inv, LifeCycle
  <2>2. que = <<>> /\ Busy = {}
    BY <1>7, WorkersAssumption DEF DtorJoin, Busy, Inv, LifeCycle
  <2>3. Queued = {} /\ Running = {}
    BY <2>2 DEF Queued, Running
  <2>4. \A j \in Jobs : StatusOf(j) \notin {"queued", "running"}
    BY <2>3 DEF StatusOf
  <2> QED BY <1>1, <1>4, <2>1, <2>4 DEF Promise!Destroy
<1>8. CASE ~DtorStop /\ ~DtorJoin
  <2>1. Phase' = Phase
    BY <1>8 DEF vars, NotifyOne, Sleep, Exit, SpuriousWakeup, Dtor, DtorNotifyAll, Phase
  <2> QED BY <1>1, <1>5, <2>1
<1> QED BY <1>6, <1>7, <1>8

\* Every step of a ThreadPool is a step of the JobPool or a stutter.
LEMMA StepRefines == Inv /\ [Next]_vars => [Promise!PoolNext]_(Promise!poolVars)
<1> SUFFICES ASSUME Inv, [Next]_vars PROVE [Promise!PoolNext]_(Promise!poolVars)
    OBVIOUS
<1> USE DEF Promise!PoolNext
<1>1. CASE \E c \in Clients, j \in Jobs : EnqueuePush(c, j)
    BY <1>1, PushRefines
<1>2. CASE \E c \in Clients, j \in Jobs : EnqueueRefused(c, j)
    BY <1>2, RefusedRefines
<1>3. CASE \E w \in Workers : Take(w)
    BY <1>3, TakeRefines
<1>4. CASE \E w \in Workers : Run(w)
    BY <1>4, RunRefines
<1>5. CASE \/ UNCHANGED vars
           \/ \E c \in Clients : NotifyOne(c)
           \/ \E w \in Workers : Sleep(w) \/ Exit(w) \/ SpuriousWakeup(w)
           \/ DtorStop
           \/ Dtor
    BY <1>5, ControlRefines DEF Promise!poolVars, Status
<1> QED BY <1>1, <1>2, <1>3, <1>4, <1>5 DEF Next, Worker

\* A ThreadPool with at least one worker is a JobPool: jobs start in the order
\* of acceptance, each runs once, and the destructor returns only when nothing
\* accepted is left.
THEOREM Refinement == Spec => ImplementsJobPool
<1> QED BY InitRefines, StepRefines, Invariant, PTL DEF Spec, ImplementsJobPool, Promise!PoolSpec
==============================================================================
