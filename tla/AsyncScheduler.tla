---------------------------- MODULE AsyncScheduler ----------------------------
(***************************************************************************)
(* include/scheduler/AsyncScheduler.h in a CUDA build: three thread pools, *)
(* pre, infer and post, of buffer_size_ workers each; a request's closure  *)
(* is handed from one to the next.  A stage pool is a JobPool (theorem     *)
(* Refinement of ThreadPool_proofs), plus the one thing JobPool leaves     *)
(* out: an idle worker's local variable job keeps the last closure, with   *)
(* everything it captured, until the worker takes its next job or exits.   *)
(* Workers are alike: a pool is its queue, the requests its workers are    *)
(* busy with, and the requests whose closures its idle workers keep.       *)
(*                                                                         *)
(* What the closures carry is OrtSessionWrapper's: an input buffer of      *)
(* pool_, taken by preprocess and released in infer after Run; an output   *)
(* buffer of gpu_output_buffer_, taken in infer and released by the        *)
(* call_back in the destructor of the TensorBuffer that wraps it.          *)
(*                                                                         *)
(* One step per handler: a stage's work and the buffer call that may block *)
(* it are one step, and handing over is another.                           *)
(*                                                                         *)
(* The class has neither a destructor nor a shutdown of its own: its owner *)
(* may destroy it at any time.  The stages die first, while closures that  *)
(* call them are queued or running; stray remembers that one was called.   *)
(* Such a call is undefined: the model goes on as with the memory still    *)
(* intact, and a crash is a behaviour cut short.  The runner itself is its *)
(* owner's.                                                                *)
(***************************************************************************)
EXTENDS Naturals, Sequences, FiniteSets, SequencesExt

CONSTANTS
    Requests,       \* calls of submit
    None,           \* no request, no buffer
    BufferSize,     \* buffer_size
    InferThrows,    \* how often Run may throw (bound)
    PreMayThrow,    \* the runner's preprocess may throw
    PostMayThrow,   \* the runner's postprocess may throw
    PostCopies      \* it copies model_out's tensor (YoloDetector, NAFNet; not ResNet)

ASSUME SizeAssumption == BufferSize \in Nat \ {0}
ASSUME NoneAssumption == None \notin Requests
ASSUME BoundAssumption == InferThrows \in Nat

\* (mutant) as many output buffers as input buffers.
OutputBuffersAsInputs == 1 .. BufferSize

\* output_tensor_init: twice as many output buffers as input buffers.
OutputBuffers == 1 .. 2 * BufferSize

VARIABLES
    outcome,    \* the promise p of each request
    preQ, preparing, prepared, preKept,         \* pre_executor_
    inferQ, acquiring, running, inferred, inferKept,    \* infer_executor_
    postQ, posting, postKept,                   \* post_executor_
    inFree,     \* how many buffers pool_ has
    outFree,    \* the queue of gpu_output_buffer_
    output,     \* the output buffer of each request, from Acquire to its call_back
    thrown,     \* how often Run has thrown
    postThrew,  \* the requests whose postprocess threw
    refused,    \* how many infer_executor_ refused, each with an input buffer
    waited,     \* the owner destroyed it when no future was pending (history)
    stray,      \* a closure has called a destroyed stage (history)
    life        \* "alive"; then the members being destroyed; then "gone"

pre == <<preQ, preparing, prepared, preKept>>
infer == <<inferQ, acquiring, running, inferred, inferKept>>
post == <<postQ, posting, postKept>>
closing == <<refused, waited, stray, life>>
vars == <<outcome, pre, infer, post, inFree, outFree, output, thrown, postThrew, closing>>

------------------------------------------------------------------------------
Elements(q) == {q[i] : i \in DOMAIN q}

\* The requests some closure still holds the promise of.
Referenced ==
    UNION {Elements(preQ), preparing, prepared, preKept,
           Elements(inferQ), acquiring, running, inferred, inferKept,
           Elements(postQ), posting, postKept}

\* The promises once the closures outside kept are destroyed.
Abandon(kept) ==
    [r \in Requests |-> IF outcome[r] = "pending" /\ r \notin kept THEN "broken" ELSE outcome[r]]

Settle(r, result) == outcome' = [outcome EXCEPT ![r] = result]

\* The worker that takes a job has kept nothing, or its last closure dies here:
\* the requests whose closure dies.
Idle(busy, kept) ==
    {{r} : r \in kept}
        \union (IF Cardinality(busy) + Cardinality(kept) < BufferSize THEN {{}} ELSE {})

\* call_back for the output buffers of these requests (the order is that of the
\* workers' exits, which nothing here depends on).
ReleaseOutputs(rs) ==
    /\ outFree' = outFree \o SetToSeq({output[r] : r \in rs} \ {None})
    /\ output' = [r \in Requests |-> IF r \in rs THEN None ELSE output[r]]

Init ==
    /\ outcome = [r \in Requests |-> "none"]
    /\ preQ = <<>> /\ preparing = {} /\ prepared = {} /\ preKept = {}
    /\ inferQ = <<>> /\ acquiring = {} /\ running = {} /\ inferred = {} /\ inferKept = {}
    /\ postQ = <<>> /\ posting = {} /\ postKept = {}
    /\ inFree = BufferSize
    /\ outFree = SetToSeq(OutputBuffers)
    /\ output = [r \in Requests |-> None]
    /\ thrown = 0
    /\ postThrew = {}
    /\ refused = 0 /\ waited = FALSE /\ stray = FALSE
    /\ life = "alive"

\* submit: a promise, and the first closure.
Submit(r) ==
    /\ life = "alive"
    /\ outcome[r] = "none"
    /\ Settle(r, "pending")
    /\ preQ' = Append(preQ, r)
    /\ UNCHANGED <<preparing, prepared, preKept, infer, post, inFree, outFree, output, thrown,
                   postThrew, closing>>

------------------------------------------------------------------------------
\* The first thing a closure does is to call its stage, destroyed or not.
CallsStage ==
    /\ stray' = (stray \/ life # "alive")
    /\ UNCHANGED <<refused, waited, life>>

PreTake ==
    /\ preQ # <<>>
    /\ \E dying \in Idle(preparing \union prepared, preKept) : preKept' = preKept \ dying
    /\ preparing' = preparing \union {Head(preQ)}
    /\ preQ' = Tail(preQ)
    /\ CallsStage
    /\ UNCHANGED <<prepared, infer, post, inFree, outFree, output, thrown, postThrew>>
    /\ outcome' = Abandon(Referenced')

\* (mutant) the handler sets the exception and falls through to the hand-over.
PreThrowFallsThrough(r) ==
    /\ PreMayThrow
    /\ r \in preparing
    /\ Settle(r, "exception")
    /\ preparing' = preparing \ {r} /\ prepared' = prepared \union {r}
    /\ UNCHANGED <<preQ, preKept, infer, post, inFree, outFree, output, thrown, postThrew, closing>>

\* preprocess throws before it has a buffer (a cv::Exception from resizing).
PreThrow(r) ==
    /\ PreMayThrow
    /\ r \in preparing
    /\ Settle(r, "exception")
    /\ preparing' = preparing \ {r} /\ preKept' = preKept \union {r}
    /\ UNCHANGED <<preQ, prepared, infer, post, inFree, outFree, output, thrown, postThrew, closing>>

\* preprocess waits for an input buffer (GetTensorBuffer) and fills it.
PreExecute(r) ==
    /\ r \in preparing
    /\ inFree > 0
    /\ inFree' = inFree - 1
    /\ preparing' = preparing \ {r} /\ prepared' = prepared \union {r}
    /\ UNCHANGED <<outcome, preQ, preKept, infer, post, outFree, output, thrown, postThrew, closing>>

\* infer_executor_.enqueue, which throws once that pool is being destroyed: the
\* exception goes to the promise, and nobody releases the input buffer.
PreHandOver(r) ==
    /\ r \in prepared
    /\ IF life \in {"alive", "stages", "postPool"}
       THEN inferQ' = Append(inferQ, r) /\ UNCHANGED <<outcome, refused>>
       ELSE Settle(r, "exception") /\ refused' = refused + 1 /\ UNCHANGED inferQ
    /\ prepared' = prepared \ {r} /\ preKept' = preKept \union {r}
    /\ UNCHANGED <<preQ, preparing, acquiring, running, inferred, inferKept, post,
                   inFree, outFree, output, thrown, postThrew, waited,
                   stray, life>>

------------------------------------------------------------------------------
InferTake ==
    /\ inferQ # <<>>
    /\ \E dying \in Idle(acquiring \union running \union inferred, inferKept) :
        inferKept' = inferKept \ dying
    /\ acquiring' = acquiring \union {Head(inferQ)}
    /\ inferQ' = Tail(inferQ)
    /\ CallsStage
    /\ UNCHANGED <<pre, running, inferred, post, inFree, outFree, output, thrown, postThrew>>
    /\ outcome' = Abandon(Referenced')

\* infer waits for an output buffer (gpu_output_buffer_->Acquire).
InferAcquire(r) ==
    /\ r \in acquiring
    /\ outFree # <<>>
    /\ output' = [output EXCEPT ![r] = Head(outFree)]
    /\ outFree' = Tail(outFree)
    /\ acquiring' = acquiring \ {r} /\ running' = running \union {r}
    /\ UNCHANGED <<outcome, pre, inferQ, inferred, inferKept, post, inFree, thrown, postThrew,
                   closing>>

\* Run throws: the promise hears of it.  Both buffers are lost, because the
\* calls that release them come after Run.
InferThrow(r) ==
    /\ r \in running
    /\ thrown < InferThrows
    /\ thrown' = thrown + 1
    /\ Settle(r, "exception")
    /\ output' = [output EXCEPT ![r] = None]
    /\ running' = running \ {r} /\ inferKept' = inferKept \union {r}
    /\ UNCHANGED <<pre, inferQ, acquiring, inferred, post, inFree, outFree, postThrew, closing>>

\* (mutant) the output buffer is released together with the input buffer.
InferRunReleasesOutput(r) ==
    /\ r \in running
    /\ inFree' = inFree + 1
    /\ outFree' = Append(outFree, output[r])
    /\ running' = running \ {r} /\ inferred' = inferred \union {r}
    /\ UNCHANGED <<outcome, pre, inferQ, acquiring, inferKept, post, output, thrown, postThrew,
                   closing>>

\* (mutant) infer forgets to release the input buffer.
InferRunKeepsInput(r) ==
    /\ r \in running
    /\ running' = running \ {r} /\ inferred' = inferred \union {r}
    /\ UNCHANGED <<outcome, pre, inferQ, acquiring, inferKept, post, inFree, outFree, output,
                   thrown, postThrew, closing>>

\* (mutant) infer releases the input buffer, and its caller does so again.
InferRunReleasesTwice(r) ==
    /\ r \in running
    /\ inFree' = inFree + 2
    /\ running' = running \ {r} /\ inferred' = inferred \union {r}
    /\ UNCHANGED <<outcome, pre, inferQ, acquiring, inferKept, post, outFree, output, thrown,
                   postThrew, closing>>

\* Run returns: the input buffer goes back to its pool.
InferRun(r) ==
    /\ r \in running
    /\ inFree' = inFree + 1
    /\ running' = running \ {r} /\ inferred' = inferred \union {r}
    /\ UNCHANGED <<outcome, pre, inferQ, acquiring, inferKept, post, outFree, output, thrown,
                   postThrew, closing>>

\* post_executor_.enqueue, which throws once that pool is being destroyed: the
\* closure dies with the output buffer, the exception goes to the promise.
InferHandOver(r) ==
    /\ r \in inferred
    /\ IF life \in {"alive", "stages"}
       THEN postQ' = Append(postQ, r) /\ UNCHANGED <<outcome, outFree, output>>
       ELSE Settle(r, "exception") /\ ReleaseOutputs({r}) /\ UNCHANGED postQ
    /\ inferred' = inferred \ {r} /\ inferKept' = inferKept \union {r}
    /\ UNCHANGED <<pre, inferQ, acquiring, running, posting, postKept, inFree, thrown, postThrew,
                   closing>>

------------------------------------------------------------------------------
\* The closure that dies takes the last request's model_out with it: call_back
\* releases that output buffer here, not when postprocess returned.
PostTake ==
    /\ postQ # <<>>
    /\ \E dying \in Idle(posting, postKept) :
        /\ postKept' = postKept \ dying
        /\ ReleaseOutputs(dying)
    /\ posting' = posting \union {Head(postQ)}
    /\ postQ' = Tail(postQ)
    /\ CallsStage
    /\ UNCHANGED <<pre, infer, inFree, thrown, postThrew>>
    /\ outcome' = Abandon(Referenced')

\* postprocess ends, by return or by throw: a copy of the tensor it made has a
\* copy of call_back, and runs it.
PostReturns(r) ==
    /\ r \in posting
    /\ posting' = posting \ {r} /\ postKept' = postKept \union {r}
    /\ outFree' = IF PostCopies THEN Append(outFree, output[r]) ELSE outFree
    /\ UNCHANGED <<pre, infer, postQ, inFree, output, thrown, closing>>

\* p->set_value(post_stage_->execute(model_out)[0])
PostExecute(r) ==
    /\ PostReturns(r)
    /\ Settle(r, "value")
    /\ UNCHANGED postThrew

\* The last closure has no try: what postprocess throws ends in the future
\* that enqueue returned and nobody kept.
PostThrow(r) ==
    /\ PostMayThrow
    /\ PostReturns(r)
    /\ postThrew' = postThrew \union {r}
    /\ UNCHANGED outcome

------------------------------------------------------------------------------
\* The destructor: the stages go first.  Of the closures whose workers have them
\* in hand, some may not have called their stage yet.
Destroy ==
    /\ life = "alive" /\ life' = "stages"
    /\ waited' = (\A r \in Requests : outcome[r] # "pending")
    /\ stray' \in {FALSE, preparing \union acquiring \union posting # {}}
    /\ UNCHANGED <<outcome, pre, infer, post, inFree, outFree, output, thrown, postThrew, refused>>

\* ~ThreadPool of post_executor_ begins: from here on enqueue throws.
PostPoolStops ==
    /\ life = "stages" /\ life' = "postPool"
    /\ UNCHANGED <<outcome, pre, infer, post, inFree, outFree, output, thrown, postThrew, refused,
                   waited, stray>>

\* A stage pool's destructor returns: its queue is empty, its workers have
\* exited, and the closures they kept are gone.  The next pool's begins.
PostPoolJoined ==
    /\ life = "postPool"
    /\ postQ = <<>> /\ posting = {}
    /\ postKept' = {}
    /\ ReleaseOutputs(postKept)
    /\ life' = "inferPool"
    /\ UNCHANGED <<pre, infer, postQ, posting, inFree, thrown, postThrew, refused, waited, stray>>
    /\ outcome' = Abandon(Referenced')

InferPoolJoined ==
    /\ life = "inferPool"
    /\ inferQ = <<>> /\ acquiring = {} /\ running = {} /\ inferred = {}
    /\ inferKept' = {}
    /\ life' = "prePool"
    /\ UNCHANGED <<pre, inferQ, acquiring, running, inferred, post, inFree, outFree, output,
                   thrown, postThrew, refused, waited, stray>>
    /\ outcome' = Abandon(Referenced')

PrePoolJoined ==
    /\ life = "prePool"
    /\ preQ = <<>> /\ preparing = {} /\ prepared = {}
    /\ preKept' = {}
    /\ life' = "gone"
    /\ UNCHANGED <<preQ, preparing, prepared, infer, post, inFree, outFree, output, thrown,
                   postThrew, refused, waited, stray>>
    /\ outcome' = Abandon(Referenced')

Joins == PostPoolStops \/ PostPoolJoined \/ InferPoolJoined \/ PrePoolJoined

PreStage(r) == PreExecute(r) \/ PreHandOver(r)
InferStage(r) == InferAcquire(r) \/ InferRun(r) \/ InferHandOver(r)
Throws(r) == PreThrow(r) \/ InferThrow(r) \/ PostThrow(r)

Next ==
    \/ PreTake \/ InferTake \/ PostTake
    \/ \E r \in Requests :
        Submit(r) \/ PreStage(r) \/ InferStage(r) \/ PostExecute(r) \/ Throws(r)
    \/ Destroy
    \/ Joins

Spec == Init /\ [][Next]_vars

\* Threads run and stages return.  Nobody has to submit or to destroy, and
\* nothing has to throw: a worker that waits for a buffer waits.
Fairness ==
    /\ WF_vars(PreTake) /\ WF_vars(InferTake) /\ WF_vars(PostTake)
    /\ \A r \in Requests :
        WF_vars(PreStage(r)) /\ WF_vars(InferStage(r)) /\ WF_vars(PostExecute(r))
    /\ WF_vars(Joins)

FairSpec == Spec /\ Fairness

------------------------------------------------------------------------------
TypeOK ==
    /\ outcome \in [Requests -> {"none", "pending", "value", "exception", "broken"}]
    /\ \A q \in {preQ, inferQ, postQ} : q \in Seq(Requests)
    /\ \A pool \in {preparing \union prepared \union preKept,
                    acquiring \union running \union inferred \union inferKept,
                    posting \union postKept} :
        pool \subseteq Requests /\ Cardinality(pool) <= BufferSize
    /\ inFree \in 0 .. BufferSize
    /\ outFree \in Seq(OutputBuffers)
    /\ output \in [Requests -> OutputBuffers \union {None}]
    /\ thrown \in 0 .. InferThrows
    /\ postThrew \subseteq Requests
    /\ refused \in 0 .. BufferSize /\ waited \in BOOLEAN /\ stray \in BOOLEAN
    /\ life \in {"alive", "stages", "postPool", "inferPool", "prePool", "gone"}

\* Requests whose output buffer infer still writes or postprocess still reads.
OutputInUse == running \union inferred \union Elements(postQ) \union posting

\* No two requests share an output buffer, and no buffer in use is on offer:
\* otherwise Run overwrites a result that postprocess has yet to read.
OutputBufferExclusive ==
    /\ \A r, s \in OutputInUse : output[r] = output[s] => r = s
    /\ \A r \in OutputInUse : output[r] \notin Elements(outFree)

\* The pool never has more buffers than it was made with ("the output buffers are
\* twice the input buffers").
FreeOutputsWithinCapacity == Len(outFree) <= Cardinality(OutputBuffers)

\* Each input buffer is free, with one request between preprocess and Run, or
\* lost: to a Run that threw, or to an infer pool that no longer took the request.
InputBuffersAccountedFor ==
    inFree + thrown + refused + Cardinality(prepared) + Len(inferQ)
        + Cardinality(acquiring) + Cardinality(running)
    = BufferSize

\* Nothing in the class waits for the closures, which the pools' destructors run
\* after the stages are gone; but a request whose future is ready has none left: an
\* owner that waits for all its futures never has a destroyed stage called.
NoStageCalledAfterDestroy == waited => ~stray

\* (comment on shutdown: "graceful stop, the tasks exit")  Whenever the scheduler is
\* destroyed, its tasks exit: none of them calls a stage that is gone.
TasksOutlivedByStages == ~stray

Service == INSTANCE InferenceScheduler WITH open <- life = "alive"

\* Every future becomes ready at most once, and never in two ways.
ImplementsScheduler == Service!SchedulerSpec

\* No submitted request waits for ever in front of a stage: its future becomes
\* ready, or its postprocess has thrown.  With up to buffer_size - 1 Runs that
\* threw (each costs an input and an output buffer), and with every idle post worker
\* keeping an output buffer, this rests on the second half of the output buffers.
\* It ends where the infer pool, once it is being destroyed, refuses requests that
\* have an input buffer.
SubmittedReachesPost ==
    \A r \in Requests :
        outcome[r] = "pending" ~> (outcome[r] # "pending" \/ r \in postThrew \/ refused > 0)

\* (comment on the handlers: "any exception is passed to all the promises concerned")
\* Whatever a stage throws, the future of a submitted request becomes ready.
SubmittedSettles == \A r \in Requests : outcome[r] = "pending" ~> outcome[r] # "pending"
==============================================================================
