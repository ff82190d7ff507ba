---------------------------- MODULE BatchScheduler ----------------------------
(***************************************************************************)
(* include/scheduler/BatchScheduler.h: submit queues an image and its      *)
(* promise; the thread worker_ cuts the queue into batches, when batch_    *)
(* images wait or when 5 ms have passed; each batch owns one input buffer, *)
(* one preprocessing task per row, and one inference task that waits for   *)
(* them, runs the model and hands the batch to postprocessing.             *)
(*                                                                         *)
(* The stage pools are JobPools of BufferSize workers, and an idle worker  *)
(* keeps its last closure, as in AsyncScheduler; workers are alike, so a   *)
(* pool is its queue, the jobs being run and the closures kept.  inputs_   *)
(* and promises_ are pushed and popped together under mutex_ and are one   *)
(* queue here.                                                             *)
(*                                                                         *)
(* The runner is one with a preprocess for rows (YoloDetector, NAFNet).    *)
(* The postprocess of both starts with a copy of model_out's tensor, so a  *)
(* batch releases its output buffer when postprocess ends and once more    *)
(* when its closure dies: the queue of output buffers may then offer one   *)
(* buffer twice.  An image is named by its request, what Run computes for  *)
(* a batch by the batch.                                                   *)
(***************************************************************************)
EXTENDS Naturals, Sequences, FiniteSets, SequencesExt, FiniteSetsExt

CONSTANTS
    NumRequests,    \* calls of submit (bound)
    BatchSize,      \* batch_
    BufferSize,     \* buffer_size_
    MaxFailures     \* how many stages may throw before their buffer is released (bound)

ASSUME BatchAssumption == BatchSize \in Nat \ {0} /\ BufferSize \in Nat \ {0}
ASSUME BoundAssumption == NumRequests \in Nat /\ MaxFailures \in Nat

\* Requests are numbered in the order of their submission.
Requests == 1 .. NumRequests
InputBuffers == 1 .. BufferSize
OutputBuffers == 1 .. 2 * BufferSize
Rows == 1 .. BatchSize
None == 0

VARIABLES
    outcome,    \* the promise of each request
    inputs,     \* inputs_ and promises_
    batches,    \* the batches formed so far: [reqs |-> the requests, buf |-> their buffer]
    workerPc,   \* worker_: "wait" in wait_for; "acquire" with mutex_ held; "exited"
    preQ, preRunning,       \* pre_executor_: a task is named by its request
    preFuture,              \* what the future of a preprocessing task holds
    inferQ, waiting, running, inferKept,    \* infer_executor_: a task is named by its batch;
                            \* it waits for the futures, then for Run; then its closure is kept
    postQ, posting, postKept,   \* post_executor_, likewise
    inFree,     \* the queue of pool_
    content,    \* the image in each row of each input buffer
    strayed,    \* a task has used its row_buf after the TensorBuffer was freed (history)
    outFree,    \* the queue of gpu_output_buffer_
    output,     \* the output buffer of each batch
    taken,      \* how many output buffers have been acquired (history)
    writer,     \* the batch whose Run last wrote each output buffer
    result,     \* the images Run saw, row by row, for each batch
    source,     \* the batch whose output postprocess read, for each batch
    failures,   \* how many stages have thrown
    life        \* "alive"; "closing"; then the member being destroyed; then "gone"

queue == <<inputs, batches, workerPc>>
pre == <<preQ, preRunning, preFuture>>
infer == <<inferQ, waiting, running, inferKept>>
post == <<postQ, posting, postKept>>
inBufs == <<inFree, content, strayed>>
outBufs == <<outFree, output, taken, writer, result, source>>
vars == <<outcome, queue, pre, infer, post, inBufs, outBufs, failures, life>>

------------------------------------------------------------------------------
Elements(q) == {q[i] : i \in DOMAIN q}

Members(k) == Elements(batches[k].reqs)
BatchOf(r) == CHOOSE k \in DOMAIN batches : r \in Members(k)
RowOf(r) == CHOOSE i \in DOMAIN batches[BatchOf(r)].reqs : batches[BatchOf(r)].reqs[i] = r

SettleAll(rs, how) == outcome' = [r \in Requests |-> IF r \in rs THEN how ELSE outcome[r]]

Init ==
    /\ outcome = [r \in Requests |-> "none"]
    /\ inputs = <<>> /\ batches = <<>> /\ workerPc = "wait"
    /\ preQ = <<>> /\ preRunning = {}
    /\ preFuture = [r \in Requests |-> "empty"]
    /\ inferQ = <<>> /\ waiting = {} /\ running = {} /\ inferKept = {}
    /\ postQ = <<>> /\ posting = {} /\ postKept = {}
    /\ inFree = SetToSeq(InputBuffers)
    /\ content = [b \in InputBuffers |-> [i \in Rows |-> None]]
    /\ strayed = FALSE
    /\ outFree = [o \in OutputBuffers |-> o] /\ output = <<>> /\ taken = 0
    /\ writer = [o \in OutputBuffers |-> None]
    /\ result = <<>> /\ source = <<>>
    /\ failures = 0
    /\ life = "alive"

\* (mutant) submit does not look at is_close_.
SubmitUnchecked ==
    /\ life # "gone" /\ workerPc # "acquire"
    /\ \E r \in Requests :
        /\ outcome[r] = "none"
        /\ \A s \in 1 .. r - 1 : outcome[s] # "none"
        /\ outcome' = [outcome EXCEPT ![r] = "pending"]
        /\ inputs' = Append(inputs, r)
    /\ UNCHANGED <<batches, workerPc, pre, infer, post, inBufs, outBufs,
                   failures, life>>

\* submit; it waits for mutex_, which worker_ keeps while it waits for a buffer.
\* (Once is_close_ is set it throws, and leaves no future.)
Submit ==
    /\ life = "alive" /\ workerPc # "acquire"
    /\ \E r \in Requests :
        /\ outcome[r] = "none"
        /\ \A s \in 1 .. r - 1 : outcome[s] # "none"
        /\ outcome' = [outcome EXCEPT ![r] = "pending"]
        /\ inputs' = Append(inputs, r)
    /\ UNCHANGED <<batches, workerPc, pre, infer, post, inBufs, outBufs,
                   failures, life>>

------------------------------------------------------------------------------
(* worker_                                                                 *)

isClose == life # "alive"
BatchReady == Len(inputs) >= BatchSize

\* (mutant) the time-out is forgotten.
WakeOnFullBatchOnly ==
    /\ workerPc = "wait"
    /\ BatchReady
    /\ workerPc' = "acquire"
    /\ UNCHANGED <<outcome, inputs, batches, pre, infer, post, inBufs, outBufs, failures, life>>

\* wait_for returns with a full batch, or by time-out with some images (a wait
\* that ends because is_close_ is set is not a time-out).
Wake ==
    /\ workerPc = "wait"
    /\ BatchReady \/ (inputs # <<>> /\ ~isClose)
    /\ workerPc' = "acquire"
    /\ UNCHANGED <<outcome, inputs, batches, pre, infer, post, inBufs, outBufs, failures, life>>

\* (mutant) the thread does not look at is_close_ when there is nothing to infer.
WorkerExitNever ==
    /\ FALSE
    /\ UNCHANGED vars

\* Nothing to infer, and closed.  What is left in inputs_ stays there.
WorkerExit ==
    /\ workerPc = "wait" /\ isClose /\ ~BatchReady
    /\ workerPc' = "exited"
    /\ UNCHANGED <<outcome, inputs, batches, pre, infer, post, inBufs, outBufs, failures, life>>

\* (mutant) one batch per turn: the loop's condition is gone.
FormOneBatch ==
    LET size == Min({BatchSize, Len(inputs)})
        reqs == SubSeq(inputs, 1, size)
        rest == SubSeq(inputs, size + 1, Len(inputs))
    IN  /\ workerPc = "acquire"
        /\ inFree # <<>>
        /\ inFree' = Tail(inFree)
        /\ inputs' = rest
        /\ batches' = Append(batches, [reqs |-> reqs, buf |-> Head(inFree)])
        /\ output' = Append(output, None)
        /\ result' = Append(result, <<>>) /\ source' = Append(source, None)
        /\ preQ' = preQ \o reqs
        /\ inferQ' = Append(inferQ, Len(batches) + 1)
        /\ workerPc' = IF isClose THEN "exited" ELSE "wait"
        /\ UNCHANGED <<outcome, preRunning, preFuture, waiting, running, inferKept, post,
                       content, strayed, outFree, taken, writer, failures, life>>

\* getTensorBuffer waits for an input buffer, then a batch leaves the queue.
\* The loop goes on while a full batch is left; after it is_close_ ends the thread.
FormBatch ==
    LET size == Min({BatchSize, Len(inputs)})
        reqs == SubSeq(inputs, 1, size)
        rest == SubSeq(inputs, size + 1, Len(inputs))
    IN  /\ workerPc = "acquire"
        /\ inFree # <<>>
        /\ inFree' = Tail(inFree)
        /\ inputs' = rest
        /\ batches' = Append(batches, [reqs |-> reqs, buf |-> Head(inFree)])
        /\ output' = Append(output, None)
        /\ result' = Append(result, <<>>) /\ source' = Append(source, None)
        /\ preQ' = preQ \o reqs
        /\ inferQ' = Append(inferQ, Len(batches) + 1)
        /\ workerPc' = IF Len(rest) >= BatchSize THEN "acquire"
                       ELSE IF isClose THEN "exited" ELSE "wait"
        /\ UNCHANGED <<outcome, preRunning, preFuture, waiting, running, inferKept, post,
                       content, strayed, outFree, taken, writer, failures, life>>

------------------------------------------------------------------------------
(* The stages                                                              *)

PreTake ==
    /\ preQ # <<>> /\ Cardinality(preRunning) < BufferSize
    /\ preRunning' = preRunning \union {Head(preQ)}
    /\ preQ' = Tail(preQ)
    /\ UNCHANGED <<outcome, queue, preFuture, infer, post, inBufs, outBufs,
                   failures, life>>

\* tenbufPtr's TensorBuffer: its owner is the batch's inference closure.
TensorBufferAlive(k) == k \in Elements(inferQ) \union waiting \union running \union inferKept

\* pre_stage_->execute(img, *row_buf, i).  If another row's exception has ended that
\* closure and a later job has replaced it, row_buf dangles: the write goes where the
\* freed memory says, which another batch's TensorBuffer may have been allocated in.
\* (If it crashes instead, that is a behaviour cut short.)
PreExecute(r) ==
    /\ r \in preRunning
    /\ \E b \in InputBuffers :
        /\ TensorBufferAlive(BatchOf(r)) => b = batches[BatchOf(r)].buf
        /\ content' = [content EXCEPT ![b][RowOf(r)] = r]
    /\ strayed' = (strayed \/ ~TensorBufferAlive(BatchOf(r)))
    /\ preFuture' = [preFuture EXCEPT ![r] = "done"]
    /\ preRunning' = preRunning \ {r}
    /\ UNCHANGED <<outcome, queue, preQ, infer, post, inFree, outBufs, failures, life>>

\* It throws: the future holds the exception.
PreThrow(r) ==
    /\ r \in preRunning
    /\ failures < MaxFailures
    /\ failures' = failures + 1
    /\ preFuture' = [preFuture EXCEPT ![r] = "exception"]
    /\ preRunning' = preRunning \ {r}
    /\ UNCHANGED <<outcome, queue, preQ, infer, post, inBufs, outBufs, life>>

\* A worker that has kept nothing, or one whose last closure dies here: an element
\* of kept, or none.  (In infer_executor_ tenbufPtr dies with the closure.)
Idle(busy, kept) ==
    {{k} : k \in kept}
        \union (IF Cardinality(busy) + Cardinality(kept) < BufferSize THEN {{}} ELSE {})

InferTake ==
    /\ inferQ # <<>>
    /\ \E dying \in Idle(waiting \union running, inferKept) : inferKept' = inferKept \ dying
    /\ waiting' = waiting \union {Head(inferQ)}
    /\ inferQ' = Tail(inferQ)
    /\ UNCHANGED <<outcome, queue, pre, running, post, inBufs, outBufs,
                   failures, life>>

\* (mutant) only the first future is waited for.
FirstPreprocessed(k) == preFuture[batches[k].reqs[1]] = "done"

\* for (auto& fut : pre_futures) fut.get();
Preprocessed(k) == \A r \in Members(k) : preFuture[r] = "done"

\* get rethrows for the first row that failed, once the rows before it are done.
InferPreFailed(k) ==
    LET reqs == batches[k].reqs IN
    /\ k \in waiting
    /\ \E i \in DOMAIN reqs :
        /\ preFuture[reqs[i]] = "exception"
        /\ \A j \in 1 .. i - 1 : preFuture[reqs[j]] = "done"
    /\ SettleAll(Members(k), "exception")
    /\ waiting' = waiting \ {k} /\ inferKept' = inferKept \union {k}
    /\ UNCHANGED <<queue, pre, inferQ, running, post, inBufs, outBufs,
                   failures, life>>

TakeOutput(k) ==
    /\ outFree # <<>>
    /\ output' = [output EXCEPT ![k] = Head(outFree)]
    /\ outFree' = Tail(outFree)
    /\ taken' = taken + 1

\* (mutant) infer gives the input buffer back before Run.
InferAcquireReleasesInput(k) ==
    /\ k \in waiting /\ Preprocessed(k)
    /\ TakeOutput(k)
    /\ inFree' = Append(inFree, batches[k].buf)
    /\ waiting' = waiting \ {k} /\ running' = running \union {k}
    /\ UNCHANGED <<outcome, queue, pre, inferQ, inferKept, post, content, strayed, writer,
                   result, source, failures, life>>

\* infer waits for an output buffer.
InferAcquire(k) ==
    /\ k \in waiting /\ Preprocessed(k)
    /\ TakeOutput(k)
    /\ waiting' = waiting \ {k} /\ running' = running \union {k}
    /\ UNCHANGED <<outcome, queue, pre, inferQ, inferKept, post, inBufs, writer, result,
                   source, failures, life>>

\* Run throws: every promise of the batch hears of it; both buffers are lost.
InferThrow(k) ==
    /\ k \in running
    /\ failures < MaxFailures
    /\ failures' = failures + 1
    /\ SettleAll(Members(k), "exception")
    /\ running' = running \ {k} /\ inferKept' = inferKept \union {k}
    /\ UNCHANGED <<queue, pre, inferQ, waiting, post, inBufs, outBufs, life>>

\* call_back of these batches' model_out (in the order of the workers' exits, which
\* matters to nobody: what Run writes after that is not postprocessed).
ReleaseOutputs(ks) ==
    LET dying == SetToSeq(ks)
    IN  outFree' = outFree \o [i \in DOMAIN dying |-> output[dying[i]]]

\* (mutant) infer releases the input buffer, and its caller does so again.
InferRunReleasesTwice(k) ==
    /\ k \in running
    /\ inFree' = inFree \o <<batches[k].buf, batches[k].buf>>
    /\ result' = [result EXCEPT ![k] = content[batches[k].buf]]
    /\ writer' = [writer EXCEPT ![output[k]] = k]
    /\ postQ' = Append(postQ, k)
    /\ running' = running \ {k} /\ inferKept' = inferKept \union {k}
    /\ UNCHANGED <<outcome, queue, pre, inferQ, waiting, posting, postKept, content, strayed,
                   outFree, output, taken, source, failures, life>>

\* Run returns: the input buffer goes back, the batch goes to post_executor_.
\* Once that pool is stopped enqueue throws, with prms already moved into the
\* closure it refused: the promises break, and the handler's loop finds none.
InferRun(k) ==
    /\ k \in running
    /\ inFree' = Append(inFree, batches[k].buf)
    /\ result' = [result EXCEPT ![k] = content[batches[k].buf]]
    /\ writer' = [writer EXCEPT ![output[k]] = k]
    /\ IF life \in {"alive", "closing"}
       THEN postQ' = Append(postQ, k) /\ UNCHANGED <<outcome, outFree>>
       ELSE /\ SettleAll(Members(k), "broken")
            /\ ReleaseOutputs({k})
            /\ UNCHANGED postQ
    /\ running' = running \ {k} /\ inferKept' = inferKept \union {k}
    /\ UNCHANGED <<queue, pre, inferQ, waiting, posting, postKept, content, strayed, output,
                   taken, source, failures, life>>

\* A closure that dies here releases its output buffer, with its model_out.
PostTake ==
    /\ postQ # <<>>
    /\ \E dying \in Idle(posting, postKept) :
        /\ postKept' = postKept \ dying
        /\ ReleaseOutputs(dying)
    /\ posting' = posting \union {Head(postQ)}
    /\ postQ' = Tail(postQ)
    /\ UNCHANGED <<outcome, queue, pre, infer, inBufs, output, taken, writer, result, source,
                   failures, life>>

\* postprocess ends, by return or by throw, and the copy of the tensor it made runs
\* its copy of call_back.
PostReturns(k, how) ==
    /\ k \in posting
    /\ SettleAll(Members(k), how)
    /\ outFree' = Append(outFree, output[k])
    /\ posting' = posting \ {k} /\ postKept' = postKept \union {k}
    /\ UNCHANGED <<queue, pre, infer, postQ, inBufs, output, taken, writer,
                   result, life>>

\* prms[i]->set_value(outputs[i]) for each row
PostExecute(k) ==
    /\ PostReturns(k, "value")
    /\ source' = [source EXCEPT ![k] = writer[output[k]]]
    /\ UNCHANGED failures

\* postprocess throws: set_exception for each row.
PostThrow(k) ==
    /\ failures < MaxFailures
    /\ failures' = failures + 1
    /\ PostReturns(k, "exception")
    /\ UNCHANGED source

------------------------------------------------------------------------------
(* The destructor                                                          *)

\* is_close_ = true, under mutex_, and notify_all.
Close ==
    /\ life = "alive" /\ workerPc # "acquire"
    /\ life' = "closing"
    /\ UNCHANGED <<outcome, queue, pre, infer, post, inBufs, outBufs, failures>>

\* worker_.join(), and the members go, the last declared first: each pool drains.
WorkerJoined ==
    /\ life = "closing" /\ workerPc = "exited"
    /\ life' = "postPool"
    /\ UNCHANGED <<outcome, queue, pre, infer, post, inBufs, outBufs, failures>>

\* (mutant) the pool's destructor waits for the jobs that run and drops the others.
PostPoolDropped ==
    /\ life = "postPool"
    /\ posting = {}
    /\ ReleaseOutputs(Elements(postQ) \union postKept)
    /\ postQ' = <<>>
    /\ postKept' = {}
    /\ life' = "inferPool"
    /\ UNCHANGED <<outcome, queue, pre, infer, posting, inBufs, output, taken, writer,
                   result, source, failures>>

\* post_executor_ drains; a closure kept by a worker dies with it.
PostPoolJoined ==
    /\ life = "postPool"
    /\ postQ = <<>> /\ posting = {}
    /\ ReleaseOutputs(postKept)
    /\ postKept' = {}
    /\ life' = "inferPool"
    /\ UNCHANGED <<outcome, queue, pre, infer, postQ, posting, inBufs, output, taken, writer,
                   result, source, failures>>

InferPoolJoined ==
    /\ life = "inferPool"
    /\ inferQ = <<>> /\ waiting = {} /\ running = {}
    /\ inferKept' = {}
    /\ life' = "prePool"
    /\ UNCHANGED <<outcome, queue, pre, inferQ, waiting, running, post, inBufs, outBufs, failures>>

\* The last pool; then promises_, with the promises nobody will keep.
PrePoolJoined ==
    /\ life = "prePool"
    /\ preQ = <<>> /\ preRunning = {}
    /\ SettleAll(Elements(inputs), "broken")
    /\ life' = "gone"
    /\ UNCHANGED <<queue, pre, infer, post, inBufs, outBufs, failures>>

BatchWorker == Wake \/ FormBatch \/ WorkerExit
PreStage == PreTake \/ \E r \in Requests : PreExecute(r)
Batch(k) == InferPreFailed(k) \/ InferAcquire(k) \/ InferRun(k) \/ PostExecute(k)
Throws(k) == InferThrow(k) \/ PostThrow(k)
Joins == WorkerJoined \/ PostPoolJoined \/ InferPoolJoined \/ PrePoolJoined

Next ==
    \/ Submit
    \/ BatchWorker
    \/ PreStage \/ InferTake \/ PostTake
    \/ \E r \in Requests : PreThrow(r)
    \/ \E k \in DOMAIN batches : Batch(k) \/ Throws(k)
    \/ Close
    \/ Joins

Spec == Init /\ [][Next]_vars

\* Threads run, wait_for times out, stages return.  Nobody has to submit or to close.
\* (Each task runs once, so that it is enough that some one of those that can goes on.)
Fairness ==
    /\ WF_vars(BatchWorker)
    /\ WF_vars(PreStage)
    /\ WF_vars(InferTake \/ PostTake \/ \E k \in DOMAIN batches : Batch(k))
    /\ WF_vars(Joins)

FairSpec == Spec /\ Fairness

------------------------------------------------------------------------------
TypeOK ==
    /\ outcome \in [Requests -> {"none", "pending", "value", "exception", "broken"}]
    /\ inputs \in Seq(Requests) /\ preQ \in Seq(Requests)
    /\ batches \in Seq([reqs : Seq(Requests), buf : InputBuffers])
    /\ Len(output) = Len(batches) /\ Len(result) = Len(batches)
    /\ workerPc \in {"wait", "acquire", "exited"}
    /\ preRunning \subseteq Requests
    /\ preFuture \in [Requests -> {"empty", "done", "exception"}]
    /\ \A q \in {inferQ, postQ} : q \in Seq(DOMAIN batches)
    /\ \A jobs \in {waiting, running, inferKept, posting, postKept} : jobs \subseteq DOMAIN batches
    /\ \A pool \in {waiting \union running \union inferKept, posting \union postKept} :
        Cardinality(pool) <= BufferSize
    /\ inFree \in Seq(InputBuffers) /\ Len(inFree) <= BufferSize
    /\ content \in [InputBuffers -> [Rows -> Requests \union {None}]]
    /\ strayed \in BOOLEAN
    /\ outFree \in Seq(OutputBuffers)
    /\ output \in Seq(OutputBuffers \union {None})
    /\ taken \in Nat
    /\ writer \in [OutputBuffers -> DOMAIN batches \union {None}]
    /\ source \in Seq(DOMAIN batches \union {None}) /\ Len(source) = Len(batches)
    /\ failures \in 0 .. MaxFailures
    /\ life \in {"alive", "closing", "postPool", "inferPool", "prePool", "gone"}

\* (comment: "4. set the results safely")  A future's value is computed from the image it
\* was submitted with: no other batch wrote the row of its input buffer before Run, or its
\* output buffer before postprocess had read it.
EachGetsItsOwn ==
    \A r \in Requests :
        outcome[r] = "value" =>
            /\ result[BatchOf(r)][RowOf(r)] = r
            /\ source[BatchOf(r)] = BatchOf(r)

\* So it is as long as the queue of output buffers has not come round to a buffer it
\* was given twice, and no task has written through a row_buf whose batch was gone.
EachGetsItsOwnAtFirst ==
    taken <= Cardinality(OutputBuffers) /\ ~strayed => EachGetsItsOwn

\* A preprocessing task has only a raw pointer, row_buf, to the TensorBuffer its
\* batch's inference closure owns: while a task is pending that closure exists,
\* unless another row of the batch has thrown (then nothing waits for this one).
RowBufferOutlivesPreprocess ==
    \A r \in Elements(preQ) \union preRunning :
        \/ \E s \in Members(BatchOf(r)) : preFuture[s] = "exception"
        \/ TensorBufferAlive(BatchOf(r))

\* What closing leaves in the queue is less than a batch, and when the destructor
\* has returned every future is ready, though the post pool goes before the infer
\* pool that feeds it.
CloseSettlesAll ==
    /\ workerPc = "exited" => Len(inputs) < BatchSize
    /\ life = "gone" => \A r \in Requests : outcome[r] # "pending"

\* (comment on the exit test: "if there is nothing to infer and it has stopped, leave")
NothingToInferAtExit == workerPc = "exited" => inputs = <<>>

Service == INSTANCE InferenceScheduler WITH open <- ~isClose

\* Every future becomes ready at most once, and never in two ways.
ImplementsScheduler == Service!SchedulerSpec

\* With fewer failures than buffers all submitted requests are settled, a partial
\* batch by the time-out: mutex_ is never kept for ever.  (There are finitely many
\* requests, and so a time when none is pending.)
SubmittedSettles ==
    (\E r \in Requests : outcome[r] = "pending") ~> (\A r \in Requests : outcome[r] # "pending")

\* The destructor returns, whatever is queued or running when it starts.
DestructorReturns == (life = "closing") ~> (life = "gone")
==============================================================================
