----------------------------- MODULE SyncScheduler -----------------------------
(***************************************************************************)
(* include/scheduler/SyncScheduler.h over one backend: a queue of packaged *)
(* tasks and one worker, that takes each task through preprocess, infer    *)
(* and postprocess (scheduler/executor/SyncExecutor.h repeats the loop).   *)
(* submit pushes and notifies under the mutex the worker waits with, and   *)
(* the wait has a predicate: no wakeup is lost, so that waiting is a       *)
(* guard.  What a stage throws is stored by the packaged task.             *)
(*                                                                         *)
(* A buffer holds the request whose data was written to it last.  A YOLO   *)
(* runner preprocesses into the buffer it acquires, a NAFNet runner into   *)
(* the staging tensor first; in a CPU build both use that one tensor.      *)
(***************************************************************************)
EXTENDS OrtSessionWrapper

CONSTANTS
    Requests    \* calls of submit

VARIABLES
    runner,     \* "yolo" or "nafnet"
    life,       \* "none", "alive", "joined"
    isClose,    \* is_close_
    tasks,      \* tasks_
    outcome,    \* the future of each request
    answer,     \* the request whose data that future's value was computed from
    wpc, job,   \* the worker, and its task
    lent, out,  \* the worker's input and output buffer
    holds       \* what the buffers hold

work == <<wpc, job, lent, out, holds>>
syncVars == <<runner, life, isClose, tasks, outcome, answer, work>>

\* (mutant) two threads share the loop.
TwoWorkers == {1, 2}

\* worker_ is one thread.
Workers == {1}

Buffers ==
    {Staging} \union {InputSlices[i] : i \in DOMAIN InputSlices}
        \union {OutputSlices[i] : i \in DOMAIN OutputSlices}
        \union {<<"ort", w>> : w \in Workers}   \* the values Run makes, on the CPU

ASSUME NoneAssumption == None \notin Requests /\ None \notin Buffers

SyncInit ==
    /\ life = "none"
    /\ isClose = FALSE
    /\ tasks = <<>>
    /\ outcome = [r \in Requests |-> "none"]
    /\ answer = [r \in Requests |-> None]
    /\ wpc = [w \in Workers |-> "idle"]
    /\ job = [w \in Workers |-> None]
    /\ lent = [w \in Workers |-> None]
    /\ out = [w \in Workers |-> None]
    /\ holds = [b \in Buffers |-> None]

Goto(w, place) == wpc' = [wpc EXCEPT ![w] = place]

Settle(r, result) == outcome' = [outcome EXCEPT ![r] = result]

\* The packaged task stores what a stage threw; its buffers stay where they are.
TaskThrows(w) ==
    /\ Settle(job[w], "exception")
    /\ Goto(w, "idle")
    /\ job' = [job EXCEPT ![w] = None]
    /\ lent' = [lent EXCEPT ![w] = None]
    /\ out' = [out EXCEPT ![w] = None]
    /\ UNCHANGED <<runner, life, isClose, tasks, answer, holds>>

------------------------------------------------------------------------------
StartScheduler ==
    /\ life = "none"
    /\ phase = "ready"
    /\ life' = "alive"
    /\ UNCHANGED <<runner, isClose, tasks, outcome, answer, work, backendVars>>

\* After close submit throws, without a trace.
Submit(r) ==
    /\ life = "alive"
    /\ ~isClose
    /\ outcome[r] = "none"
    /\ Settle(r, "pending")
    /\ tasks' = Append(tasks, r)
    /\ UNCHANGED <<runner, life, isClose, answer, work, backendVars>>

\* By hand or by the destructor; a second call changes nothing.
Shutdown ==
    /\ life = "alive"
    /\ ~isClose
    /\ isClose' = TRUE
    /\ UNCHANGED <<runner, life, tasks, outcome, answer, work, backendVars>>

\* The thread is joined, and the destructor drops the queue.
Join ==
    /\ life = "alive"
    /\ isClose
    /\ \A w \in Workers : wpc[w] = "exited"
    /\ life' = "joined"
    /\ tasks' = <<>>
    /\ outcome' = [r \in Requests |-> IF outcome[r] = "pending" THEN "broken" ELSE outcome[r]]
    /\ UNCHANGED <<runner, isClose, answer, work, backendVars>>

Take(w) ==
    /\ wpc[w] = "idle"
    /\ life = "alive"
    /\ tasks # <<>>
    /\ job' = [job EXCEPT ![w] = Head(tasks)]
    /\ tasks' = Tail(tasks)
    /\ Goto(w, "preparing")
    /\ UNCHANGED <<runner, life, isClose, outcome, answer, lent, out, holds, backendVars>>

\* (mutant) the loop ends on is_close_, as BatchScheduler's does.
ExitOnceClosed(w) ==
    /\ wpc[w] = "idle"
    /\ isClose
    /\ Goto(w, "exited")
    /\ UNCHANGED <<runner, life, isClose, tasks, outcome, answer, job, lent, out, holds, backendVars>>

Exit(w) ==
    /\ wpc[w] = "idle"
    /\ isClose
    /\ tasks = <<>>
    /\ Goto(w, "exited")
    /\ UNCHANGED <<runner, life, isClose, tasks, outcome, answer, job, lent, out, holds, backendVars>>

------------------------------------------------------------------------------
\* OpenCV throws, before preprocess has a buffer; YOLO with CUDA calls none of it.
PreThrow(w) ==
    /\ wpc[w] = "preparing"
    /\ build = "cpu" \/ runner = "nafnet"
    /\ TaskThrows(w)
    /\ UNCHANGED backendVars

\* preprocess writes into the acquired buffer; in a CPU build into the staging
\* tensor, which is what GetTensorBuffer and tensorBuffer both return there.
PreExecute(w) ==
    /\ wpc[w] = "preparing"
    /\ build = "cpu" \/ (runner = "yolo" /\ pool # <<>>)
    /\ LET b == IF build = "cpu" THEN Staging ELSE Head(pool)
       IN  /\ lent' = [lent EXCEPT ![w] = b]
           /\ holds' = [holds EXCEPT ![b] = job[w]]
    /\ pool' = IF build = "cpu" THEN pool ELSE Tail(pool)
    /\ Goto(w, "prepared")
    /\ UNCHANGED <<runner, life, isClose, tasks, outcome, answer, job, out>>
    /\ UNCHANGED <<given, disk, phase, ctor, gpu, shapes, inputTensors, outputTensors, outPool, turns,
                   runThrown>>

\* NAFNet with CUDA: normalise into the staging tensor ...
Stage(w) ==
    /\ wpc[w] = "preparing"
    /\ build = "cuda" /\ runner = "nafnet"
    /\ holds' = [holds EXCEPT ![Staging] = job[w]]
    /\ Goto(w, "staged")
    /\ UNCHANGED <<runner, life, isClose, tasks, outcome, answer, job, lent, out, backendVars>>

\* ... then acquire a buffer and copy to the device.
Upload(w) ==
    /\ wpc[w] = "staged"
    /\ pool # <<>>
    /\ lent' = [lent EXCEPT ![w] = Head(pool)]
    /\ holds' = [holds EXCEPT ![Head(pool)] = holds[Staging]]
    /\ pool' = Tail(pool)
    /\ Goto(w, "prepared")
    /\ UNCHANGED <<runner, life, isClose, tasks, outcome, answer, job, out>>
    /\ UNCHANGED <<given, disk, phase, ctor, gpu, shapes, inputTensors, outputTensors, outPool, turns,
                   runThrown>>

\* infer finds the input's tensor, or throws "not found" with the buffer lost; on
\* a GPU it waits for an output buffer.
InferAcquire(w) ==
    /\ wpc[w] = "prepared"
    /\ IF lent[w] \notin inputTensors
       THEN TaskThrows(w) /\ UNCHANGED outPool
       ELSE /\ IF gpu
               THEN /\ outPool # <<>>
                    /\ out' = [out EXCEPT ![w] = Head(outPool)]
                    /\ outPool' = Tail(outPool)
               ELSE out' = [out EXCEPT ![w] = <<"ort", w>>] /\ UNCHANGED outPool
            /\ Goto(w, "running")
            /\ UNCHANGED <<runner, life, isClose, tasks, outcome, answer, job, lent, holds>>
    /\ UNCHANGED <<given, disk, phase, ctor, gpu, shapes, inputTensors, outputTensors, pool, turns,
                   runThrown>>

\* (mutant) the caller releases the input buffer too, as the interface's release
\* invites to.
InferRunReleasesTwice(w) ==
    /\ wpc[w] = "running"
    /\ holds' = [holds EXCEPT ![out[w]] = holds[lent[w]]]
    /\ pool' = IF build = "cuda" THEN pool \o <<lent[w], lent[w]>> ELSE pool
    /\ lent' = [lent EXCEPT ![w] = None]
    /\ Goto(w, "posting")
    /\ UNCHANGED <<runner, life, isClose, tasks, outcome, answer, job, out>>
    /\ UNCHANGED <<given, disk, phase, ctor, gpu, shapes, inputTensors, outputTensors, outPool, turns,
                   runThrown>>

\* Run, then the input buffer goes back.
InferRun(w) ==
    /\ wpc[w] = "running"
    /\ holds' = [holds EXCEPT ![out[w]] = holds[lent[w]]]
    /\ pool' = IF build = "cuda" THEN Append(pool, lent[w]) ELSE pool
    /\ lent' = [lent EXCEPT ![w] = None]
    /\ Goto(w, "posting")
    /\ UNCHANGED <<runner, life, isClose, tasks, outcome, answer, job, out>>
    /\ UNCHANGED <<given, disk, phase, ctor, gpu, shapes, inputTensors, outputTensors, outPool, turns,
                   runThrown>>

\* Run throws: in a CUDA build both buffers are lost.
InferThrow(w) ==
    /\ wpc[w] = "running"
    /\ runThrown < MaxRunThrows
    /\ runThrown' = runThrown + 1
    /\ TaskThrows(w)
    /\ UNCHANGED <<given, disk, phase, ctor, gpu, shapes, tensors, turns>>

\* postprocess copies model_out's tensor with its call_back: the output buffer
\* goes back with the copy and again with model_out.
ReleaseOutputs(w) == outPool' = IF gpu THEN outPool \o <<out[w], out[w]>> ELSE outPool

\* (mutant) the call_back of infer is forgotten.
PostExecuteKeepsOutput(w) ==
    /\ wpc[w] = "posting"
    /\ Settle(job[w], "value")
    /\ answer' = [answer EXCEPT ![job[w]] = holds[out[w]]]
    /\ job' = [job EXCEPT ![w] = None]
    /\ out' = [out EXCEPT ![w] = None]
    /\ Goto(w, "idle")
    /\ UNCHANGED <<runner, life, isClose, tasks, lent, holds, backendVars>>

PostExecute(w) ==
    /\ wpc[w] = "posting"
    /\ Settle(job[w], "value")
    /\ answer' = [answer EXCEPT ![job[w]] = holds[out[w]]]
    /\ ReleaseOutputs(w)
    /\ job' = [job EXCEPT ![w] = None]
    /\ out' = [out EXCEPT ![w] = None]
    /\ Goto(w, "idle")
    /\ UNCHANGED <<runner, life, isClose, tasks, lent, holds>>
    /\ UNCHANGED <<given, disk, phase, ctor, gpu, shapes, inputTensors, outputTensors, pool, turns,
                   runThrown>>

\* YOLO's postprocess throws on an output it cannot decode.
PostThrow(w) ==
    /\ wpc[w] = "posting"
    /\ runner = "yolo"
    /\ ReleaseOutputs(w)
    /\ TaskThrows(w)
    /\ UNCHANGED <<given, disk, phase, ctor, gpu, shapes, inputTensors, outputTensors, pool, turns,
                   runThrown>>

Work(w) ==
    \/ Take(w) \/ Exit(w)
    \/ PreThrow(w) \/ PreExecute(w) \/ Stage(w) \/ Upload(w)
    \/ InferAcquire(w) \/ InferRun(w) \/ InferThrow(w)
    \/ PostExecute(w) \/ PostThrow(w)

\* An owner that submits what it likes, and stops the scheduler when it likes.
SyncNext ==
    \/ StartScheduler \/ Shutdown \/ Join
    \/ \E r \in Requests : Submit(r)
    \/ \E w \in Workers : Work(w)

------------------------------------------------------------------------------
SyncTypeOK ==
    /\ BackendTypeOK
    /\ wpc \in [Workers -> {"idle", "preparing", "staged", "prepared", "running", "posting", "exited"}]
    /\ \A w \in Workers :
        /\ (job[w] = None) = (wpc[w] \in {"idle", "exited"})
        /\ (lent[w] # None) = (wpc[w] \in {"prepared", "running"})
        /\ (out[w] # None) = (wpc[w] \in {"running", "posting"})

\* A backend whose constructor returned can serve: some Run has accepted its input
\* shape and shown the output shape; every buffer the pools can hand out has its
\* tensor; and every input buffer is in the pool, with the worker, or lost to a
\* Run that threw, so that neither initialisation nor warm-up keeps one
\* (OrtSessionWrapper.h 352-360, InferenceBackend.cpp warm_up).
ReadyBackendServes ==
    phase = "ready" =>
        /\ Accepts(raw, inputShape) /\ outputShape = "known"
        /\ gpu = (build = "cuda")
        /\ ~gpu => Staging \in inputTensors
        /\ \A i \in DOMAIN pool : pool[i] \in inputTensors
        /\ \A i \in DOMAIN outPool : outPool[i] \in outputTensors
        /\ gpu => Len(pool) + Cardinality({w \in Workers : lent[w] # None}) + runThrown = BufferSize

\* Every future's value was computed from its own request's data, although all
\* requests pass through one staging tensor (NAFNet.cpp:49, and every runner in a
\* CPU build) and each output buffer is released twice.
EachGetsItsOwn == \A r \in Requests : outcome[r] = "value" => answer[r] = r

\* The scheduler is an InferenceScheduler, and one that breaks no promise: what
\* was submitted before shutdown is worked off (SyncScheduler.h:49-55, :102).
Service == INSTANCE InferenceScheduler WITH open <- ~isClose
ImplementsScheduler ==
    /\ Service!SchedulerInit
    /\ [][Service!SchedulerNext /\ \A r \in Requests : outcome'[r] # "broken"]_(Service!schedulerVars)
==============================================================================
