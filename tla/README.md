# A verification of onnxruntime-inference in TLA+

This directory models the inference library: its thread pool, its pools and
queues, the three schedulers built on them, the construction of a backend with
its failures, the runners' buffers, coordinates and filter kernel, and the
benchmark tool that puts one of each together. TLC checks the models on small
instances; TLAPS proves every invariant that a run checks, and the three
refinements, for every value of the constants. Paths below are relative to the
repository's root unless they name a module.

Contents: [the system](#the-system) · [plan](#plan) ·
[modules and code](#modules-and-code) · [runs](#runs) ·
[fairness](#fairness) · [proofs](#proofs) ·
[where code and comments disagree](#where-code-and-comments-disagree) ·
[not modelled](#not-modelled) · [how to run](#how-to-run)

## The system

A client gives an image to a scheduler and gets a `std::future`. The scheduler
takes the image through three stages of a runner (`preprocess`, the backend's
`infer`, `postprocess`). With CUDA, every stage works in buffers of fixed pools:
a buffer that is not given back, or given back twice, decides whether the
pipeline goes on.

```
 client --submit--> AsyncScheduler / BatchScheduler / SyncScheduler
                      |  pre_executor_, infer_executor_, post_executor_: ThreadPool
                      v
        PreStage ----> InferStage ----> PostStage        (runner calls)
           |               |                |
  YoloDetector /    OrtSessionWrapper   YoloDetector / NAFNet / ResNet
  NAFNet / ResNet     pool_ (input)      filter, count and host buffers
  image buffers       gpu_output_buffer_
```

| Component | State | Operations | Correct if |
|---|---|---|---|
| `ThreadPool` (`include/thread`) | `que_`, `mutex_`, `condition_`, `is_running`, the workers | `enqueue`, the worker loop, the destructor | every accepted job runs once, in order, before the destructor returns; nobody sleeps beside a job |
| `InferTensorBufferPool` (`include/device`) | one device block, the queue `buffer_` of its slices, `is_closed_` | `Acquire` (blocks), `Release`, `close` | a slice has one holder; nobody sleeps beside a free slice; after `close` nothing is handed out |
| `InferenceScheduler` (`include/scheduler`) | none (interface) | `submit`, `shutdown` | a future becomes ready once |
| `AsyncScheduler` | three `ThreadPool`s, the stages | `submit`, which nests three closures; destruction in member order, at any time | each result comes from its own buffers; every future becomes ready; no closure outlives its stage |
| `BatchScheduler` | `inputs_`, `promises_`, `is_close_`, thread `worker_`, three pools | `submit`, `run`, the destructor | each request gets the result of its own row; no batch blocks the others for ever |
| `SyncScheduler`, `SyncExecutor` | one queue, one thread | `submit`, `shutdown` | first in, first out; shutdown drains |
| `Stage.h`, `TensorBuffer.h` | `call_back` of a `TensorBuffer` | `execute`; `~TensorBuffer` runs `call_back` | an output buffer is released once |
| `OrtSessionWrapper` (`include/backend`) | session, `pool_`, `gpu_output_buffer_`, tables of tensors | `infer`, the two registration loops | each lent slice has its tensor; the input buffer goes back after `Run` |
| `InferenceBackend`, `ModelRunner` | shapes, one staging tensor | `init`, `warm_up`, `GetTensorBuffer` | shapes known before the first request |
| `YoloDetector` (`src/runner/detect`, `src/device`) | four buffer pools, `cuStreams_`, `filter_streams_` | `preprocess`, `postprocess` | buffers exclusive and given back; a frame is decoded from its own detections |
| `gpu_filter.cu`, `gpu_preprocess.cu`, `preprocess/utils` | a counter per image; none | filter and compact, letterbox, padding | the GPU finds what the CPU finds, where the CPU finds it |
| `NAFNet`/`Restorer`, `ResNet`/`Classifier` | staging tensor; none | `preprocess`, `postprocess` | images do not mix, crops undo paddings |
| `ObjectPool`, `BufferPool`, `ThreadSafeQueue`, `SPSCQueue` | a queue with a lock, or two atomics | acquire/release, push/pop, close | nothing lost or doubled, waiters leave on close |
| benchmark tool (`benchmark`) | configuration, clients, counters | load, construct, warm up, clients, teardown | a good start serves everybody and ends with exit code 0 |
| examples, logger, timers, drawing, `CudaStreamPool` | | client loops | not part of the inference path |

What makes it hard: `notify_one` after the unlock; pools that block with a lock
held by the caller (`BatchScheduler::run` waits for a buffer with `mutex_`
held); workers whose local variable keeps the last closure, and with it output
buffers and promises; exceptions between an acquire and its release; destruction
in member order while closures are still queued; the 5 ms time-out against the
image that completes a batch and against the destructor; a constructor that may
throw in each of its phases, or be killed while it writes a file that later
starts trust; kernels whose blocks start in any order. The list `hazards` in
`PROJECT.json` names each at its line, with the properties that watch it.

## Plan

Bottom-up, so that each layer can take the one below it as its abstract
specification:

1. `JobPool` (what a thread pool promises) and `ThreadPool` (how), the
   refinement model-checked and proved. *Done.*
2. `InferTensorBufferPool`, model-checked and proved. *Done.*
3. `InferenceScheduler` (what a scheduler promises), `AsyncScheduler` and
   `BatchScheduler` (how), with the stage pools as `JobPool`s and the buffers as
   queues of buffers. *Done.*
4. `YoloDetector`: its own pools, used by the stage workers. *Done for the CUDA
   path.*
5. `OrtSessionWrapper`, the construction of a backend; `SyncScheduler`, the third
   implementation of `InferenceScheduler`, over a constructed backend in both
   builds; `Benchmark`, which composes both. *Done.*
6. `SPSCQueue`, `ThreadSafeQueue`, `LendingPool`. *Done.*
7. `GpuFilter` and `ImageGeometry`: what the runners compute. *Done.*
8. Proofs about `AsyncScheduler`, `BatchScheduler`, `YoloDetector` and the queues,
   in that order of worth. *Done.*
9. Proofs about `OrtSessionWrapper`, `SyncScheduler` and `Benchmark` together, whose
   invariant follows a backend from its configuration to its last request; about
   `LendingPool`, `GpuFilter` and `ImageGeometry`; and that the runs which put
   models side by side are instances of what is proved. *Done.*

Modules that are proved about declare no `RECURSIVE` operator; constants carry
their assumptions where they are declared; there is one action per critical
section or per handler.

## Modules and code

`PROJECT.json` maps every definition to its lines. A definition whose comment
begins with "(mutant)" is not part of the model: it is a plausible slip in the
definition below it, and the property it is paired with in `PROJECT.json`
detects it.

**JobPool** — the promise of `ThreadPool`: a job is accepted or refused, accepted
jobs start in order, each runs once, the pool is destroyed when all have run.

**ThreadPool** — `que`, `isRunning` are the members; `waitSet` the threads asleep
on `condition_`; `wpc`, `job` the workers' program counters and their local
variable; `cpc` the clients; `dpc` the destructor. A critical section is one
step. `EnqueuePush` and `NotifyOne` are two, because `enqueue` unlocks first;
`DtorStop`, `DtorNotifyAll` and `DtorJoin` are three. `SpuriousWakeup` is what
the standard allows of `wait`.

**InferTensorBufferPool** — addresses are numbers, so that `owns` (bounds and
`%`) is the code's arithmetic. `RegisterNext` is one turn of the loop in
`OrtSessionWrapper::input_tensor_init`/`output_tensor_init` that acquires and
releases `capacity()` times to make one tensor per slice.

**InferenceScheduler** — a future is none, pending, or ready in one of three ways
(value, exception, broken), and once ready never changes.

**AsyncScheduler** — a stage pool is a `JobPool` seen from outside: a queue, the
requests workers are busy with (one set per point of the closure), and the set
`preKept`/`inferKept`/`postKept` of requests whose finished closure an idle
worker still holds in its variable `job` (`ThreadPool.h:40`). Workers are alike,
so they need no names. `PostReturns` distinguishes runners that copy
`model_out`'s tensor (YOLO, NAFNet) from those that do not. `Destroy` may come at
any time, as the class has no destructor that waits. The members go in reverse
order: stages first (`Destroy`), then the post, infer and pre pools
(`PostPoolStops` and the three joins). What the pools still run in between is in the
model: a closure that calls a stage that is gone leaves `stray` behind (the call is
undefined; the model goes on as if the memory were intact, and a crash is a behaviour
cut short), and an enqueue on a pool that has been stopped throws into the promise,
which for the infer pool costs the input buffer (`refused`). `waited` remembers
whether a future was pending when the destructor began.

**BatchScheduler** — `inputs_`/`promises_` are one queue; `worker_` has three
places: waiting, waiting for a buffer with `mutex_` held (no `submit`, no close
can run then), and exited. `Wake` is the end of `wait_for`, by the predicate or
by the time-out; `FormBatch` cuts off one batch; `WorkerExit` is the test of
`is_close_` after the loop. Buffers have contents row by row, so that
`EachGetsItsOwn` means something. An enqueue on a pool that is being destroyed
throws, because its `is_running` is false. The runners with a preprocess for rows,
YOLO and NAFNet, both copy `model_out`'s tensor, so a batch releases its output
buffer twice, when postprocess ends (`PostReturns`) and when its closure dies
(`ReleaseOutputs`); `outFree` is the queue as it then is, and `writer` and `source`
follow whose output each postprocess reads. A row's task writes through the raw
pointer `row_buf`: when an exception of another row has ended the batch and its
closure has died (`TensorBufferAlive`), the pointer dangles, and the write goes to
any batch's buffer (`strayed`).

**YoloDetector** — `pc` of a frame goes through the calls that block and the exits
that skip a release. The stage pools bound the number of frames in each half.
A kernel or copy with its synchronisation is one step.

**OrtSessionWrapper** — a backend's constructor, phase by phase (`phase` is where
it is, `ctor` its local variables), with what it reads of the YAML node, of the
model (`raw`, the declared input shape) and of the disk. `RegisterProviders`
drops the providers that throw, `ChooseModel` prefers an optimized file whatever
its origin, `CreateSession` and `SessionSaved` are two steps, as a process can be
killed while ONNX Runtime writes. A warm-up turn acquires a buffer, looks up its
tensor, runs, releases. Shapes are tuples, so that `ParseInputMeta` and what
`Run` accepts are the code's conditions. `"failed"` is an exception out of the
constructor, `"crashed"` the assertion (or null node) of `primary()`.

**SyncScheduler** — extends it with the queue, the one worker and the stages. A
buffer holds the request whose data was written to it last, an `answer` is the
request a future's value was computed from. `Workers` is an operator, because
that `worker_` is one thread is what keeps the shared staging tensor right.

**Benchmark** — the tool's main thread from the command line to the exit code,
its client threads and the clock that ends them. It may be killed while ONNX Runtime
saves the optimized model (`KilledWhileSaving`) and is then started again on the disk
it left; killed anywhere else it leaves the disk as it was, and the next start is one
of the initial states. The modes `async`, `batch` and `all` take no step past the
command line: what they run differs in the scheduler.

**SPSCQueue** — `head` and `tail` are totals, the code's indices their remainders.
An acquire load returns any value between the last one seen and the current one;
a slot being filled is blank, and a slot that changes while it is copied yields a
blank frame, so that an early reuse shows.

**ThreadSafeQueue**, **LendingPool** — critical sections and notifications as
separate steps. `LendingPool` is `ObjectPool` and `BufferPool`, which differ in
what a deleter does after the destructor's flag; a throw in a deleter and a use
of the destroyed pool are states of their own (`ended`). `ObjectPool`'s destructor
drains its queue without the lock, in three steps a turn (`DtorTest`,
`DtorCallback`, `DtorPop`), between which a caller that is awake in `Acquire` can
take: the object of the callback (`clash`), or the last one, after which `front` or
`pop` is undefined.

**GpuFilter** — a program counter per CUDA thread; blocks do not wait for each
other; `atomicAdd` is a step, the write to the slot another. `Candidates` is the
selection loop of the CPU build, the reference. A prediction is the scores of its
classes. The kernel starts its search below 0 and at no class, the CPU at 0 and at
the first one: that they agree needs scores that are not negative (they are
probabilities) and at least one class, which `KernelAssumption` states. Boxes have no
coordinates here: the CPU's dropping of those that clamping leaves empty
(`YoloDetector.cpp:430`) is in `ImageGeometry`.

**ImageGeometry** — coordinates only. Scales are exact fractions where the code
has floats; rounding, truncation, alignment and clamping are the code's. Of NAFNet
there are both ways in: the one for a single image, which sets `letterbox_params`,
and the one for a row of a batch, which does not (`NafRowPreprocess`).

`MC*` modules extend a model and say why the instance is large enough; the
constants are in the `.cfg` files. Three of them put independent models side by
side: a variable `aspect`, chosen at the start, says which one moves in a
behaviour, the others keep one initial state. The number of states is the sum,
not the product, and every property speaks of the one that moves.

## Runs

| Run | Instance | Question and answer |
|---|---|---|
| `threadpool` | 2 workers, 2 clients, 3 jobs | `ThreadPool` implements `JobPool`; no job waits beside a sleeping worker, although the notification comes after the unlock; the destructor returns and drains. Two clients can both be between push and notify. |
| `buffer_pool` | `slices`: 2 slices, 4 callers. `video`: 6 frames, queues made for 1, 2, 3. `channel`: 2 producers, 2 consumers, capacity 1, 2 or none. `objects`: 2 objects, 4 callers | one holder per slice, wakeups match releases, `close` at any time; frames whole and in order; no object with two borrowers, and none destroyed while lent except in a turn of the unlocked drain that a caller came into; nobody asleep beside an element, a place or an object, or through a close or a destructor. Four callers: two asleep, two releasing at once. Six frames go around the ring of four. |
| `async_scheduler` | 3 requests, 2 buffers (4 outputs), 1 `Run` may throw, pre and post may throw, destruction at any time | exclusive output buffers, input buffers accounted for, no destroyed stage called if the owner had waited for its futures, every request reaches postprocessing or a pool that is being destroyed refuses one. The third request needs an output buffer while two idle post workers keep one each and a failed `Run` has lost one: the reason for the factor two in `output_tensor_init`. |
| `batch_scheduler` | 4 requests, batch 2, 2 buffers (4 outputs), 1 failure | own results until a buffer is lent twice or a `row_buf` has dangled, row pointers valid while somebody waits for their row, full batches survive the destructor, nobody's future is pending once it has returned; every future becomes ready, and the destructor returns. Two batches in flight, a third waiting with the lock held, partial batches by time-out. |
| `yolo_buffers` | `buffers`: 3 frames, 2 buffers of each kind, 1 image buffer and 1 filter pair may be lost. `kernel`: 3 predictions of 2 classes with scores 0 to 2, 2 blocks of 2 threads, 2 slots. `geometry`: sides from 1 to 1280, square, wide and tall canvases | buffers exclusive, decoding from one's own detections, every frame ends while one buffer of each pool is left; a kernel that counted nothing before its reset finds the CPU's candidates; boxes and crops land where their pixels came from. The buffers that calls keep are those of the early returns and no others; of a NAFNet row in a batch nothing comes back. |
| `benchmark_sync` | `benchmark`: one good start and 14 that are off in a respect or two, both builds, both runners, 2 clients, 2 buffers, 5 requests, up to 3 warm-up turns, 1 crash, 1 `Run` that throws. `owner`: submits without waiting, shuts down at any time | a ready backend has all its input buffers but those a throwing `Run` cost, with their tensors; each request gets its own result; `SyncScheduler` implements `InferenceScheduler`; the tool ends, with exit code 0 if nothing went wrong. |
| `async_post_throw`, `async_destroy`, `batch_close`, `batch_post_copies`, `yolo_streams`, `gpu_filter` | as small as shows it | each refutes one statement of a comment or document: see [below](#where-code-and-comments-disagree). |

Bounds. Requests, jobs and frames are one or two more than the workers or
buffers, so that somebody has to wait; more of them only repeat the situation,
as they are interchangeable. `InferThrows`, `MaxFailures`, `MaxImagesLost` and
`MaxFiltersLost` are one less than the number of buffers: each failure loses a
buffer for good (that is the code, not the model), and with none left the
pipeline stops, which the liveness properties would report. The runs state that
limit openly instead of hiding it. In `benchmark_sync` three warm-up turns are
more than the two input buffers, and five requests more than the four output
buffers, so that a turn or a request that kept one would stop the tool.
`ImageGeometry`'s sides include those whose scaled size is odd, below 32 (aligned
to nothing) and larger than the canvas; `Marks` are the canvas coordinates of a
box's edges. `MaxSize` bounds the unbounded `ThreadSafeQueue`; `MaxIterations`,
`MaxCrashes` and `MaxRunThrows` bound the benchmark. Deadlock is checked for `buffer_pool`, whose
callers may always call again (a video or a lending pool that is over says so),
and for `gpu_filter`; the other systems stop when all requests are done.

## Fairness

Weak fairness only, of threads: a worker that can take a step takes one; a stage
that is called returns; `wait_for` times out. In `InferTensorBufferPool` a caller
gives back what it holds. Never assumed: that a client submits, that the owner
destroys the scheduler, that anything throws, that a particular waiter is the one
notified, or that a lock is granted in order. In `AsyncScheduler` the fairness of a
stage is per request, because each is a thread of its own while it runs. In
`BatchScheduler` less is enough: some one of the infer and post tasks that can go on
does, as there are finitely many of them and each ends. In `benchmark_sync` the main thread, each
client and the scheduler's worker go on, and the clock comes to the end of the
measurement (`duration`); a crash or a throw never has to happen.

Properties that need it: `AcceptedJobRuns`, `DestructorReturns`,
`CloseEmptiesPool`, `SubmittedReachesPost`, `SubmittedSettles` (which
`async_post_throw` refutes for `AsyncScheduler`), `EveryFrameOfRunnerEnds`, `ToolEnds`.

## Proofs

`QueueLemmas` has what a `std::queue` does to its elements; the proof modules of
the schedulers, the runners and the tool use it.

**ThreadPool_proofs**, for any finite sets of workers (at least one) and clients
and any jobs. The inductive invariant `Inv` is `TypeOK` with `JobsApart` (a job is
in one place: queued, with one worker, finished or refused) and `LifeCycle` (the
worker counters against the destructor's). `JobsApart` is needed because the
refinement maps a job's status to where it is; without it `Take` could start a
job twice. From it: `TypeCorrect`, `ShutdownWakesEverybody`
(`NobodySleepsThroughShutdown`), `NoIdleWorkerWithBacklog`
(`WakeupsCoverBacklog`: a count of wakeups against jobs, with the cardinality
theorems of `FiniteSetTheorems`) and `Refinement` (`ImplementsJobPool`: every step
is a `JobPool` step or a stutter). `Refinement` is what lets the schedulers use a
queue and sets where the code has a `ThreadPool`.

**InferTensorBufferPool_proofs**, for any number and size of slices, any base
address and any finite set of callers. `Inv` is `TypeOK`, `OneHolderPerSlice`,
`Control` (a caller holds a slice exactly at one place in its code: otherwise a
second `Release` would be possible) and `Registration` (the slices that have their
tensor are the ones at the end of the queue, the loop counter says how many:
this is what first in, first out buys). From it: `TypeCorrect`, `OneHolder`,
`EverySliceHasItsTensor`, `ReleaseAccepts` (with the arithmetic lemmas
`MultiplesApart` and `SlicesAreOwned`), `NoCallerAsleepBesideFreeSlice` and
`ClosedPoolLendsNothing`. The wakeup count holds on an open pool only: after
`close` has set its flag, a woken caller leaves without the slice it was woken
for, and the `notify_all` still to come covers the others.

**AsyncScheduler_proofs**, for any finite set of requests, any `buffer_size` above
0 and any bound on failures. `Inv` says that a request is in one place of the
pipeline (`Apart`), that what is on its way is pending (`Promises`), that no pool
has more closures alive than workers (`Staff`) and that nothing is on its way in a
scheduler whose owner had waited for its futures (`Stopped`). `Apart` and `Promises` need each other: a stage settles the
promise of a request that is nowhere else. From it: `TypeCorrect`,
`InputBuffers` (`InputBuffersAccountedFor`), `StagesOutlivePools`
(`NoStageCalledAfterDestroy`: the owner may destroy it at any time, and the stages die
first, which the run `async_destroy` shows to go wrong; the theorem is that pending
futures are all it takes: an owner that has waited for every one leaves no closure
that would call a stage) and `Refinement`
(`ImplementsScheduler`). `BuffersExclusive` and `OutputsWithinCapacity` take the
assumption `~PostCopies`: the runner makes no copy of the output tensor. With a
copying runner they are false: `batch_post_copies` shows what comes of it in
`BatchScheduler`, and it is the same `call_back` here.
`EveryPromiseAccountedFor` delimits what `async_post_throw` finds: a pending future is
a request's on its way or one's whose postprocess threw, a broken one the latter's.

**BatchScheduler_proofs**, for any finite set of requests, any batch size and
`buffer_size`. `Inv` follows a request from the queue into one batch (`Batches`)
and a batch through one place of the pipeline (`Apart`). Its centre is `Buffers`:
an input buffer is its batch's until `Run` has returned, and for good if `Run`
never did. Without the last part the proof fails where the code is delicate: one
row's preprocessing throws, the batch is given up, and the other rows are still
being written. While the given-up batch's closure exists they write to a buffer that
never comes back; once it is gone they write anywhere, so `Data` (which row has whose
image) is claimed only while no `row_buf` has dangled. A second invariant, `Outputs`,
is about the output buffers: each is released twice and its queue outgrows the pool,
but the releases line up behind the buffers that have not been lent yet, so that for
`2 * BufferSize` acquisitions every batch has one of its own. From the two:
`TypeCorrect`, `OwnResults` (`EachGetsItsOwnAtFirst`: these are the only two ways to
another request's result; `batch_post_copies` shows the first),
`RowBuffersLive` (`RowBufferOutlivesPreprocess`) and `Refinement`
(`ImplementsScheduler`). `CloseSettles` (`CloseSettlesAll`) is about the end: a pending
promise is in the queue or in a batch on its way (`Awaited`), and a pool that has
been joined has nothing left (`Drained`), so that after the destructor each future
has a value, an exception or a broken promise, an exception after the promises were
moved included. `NothingLeftOfSingles` delimits what the run `batch_close` finds: with
batches of one the thread leaves no image behind.

**Handover_proofs**, about the other three models of `MCInferTensorBufferPool`.
*SPSCQueue*, for any capacities and any number of frames: `VideoInv` says that the
other side's index, however old the value an acquire load returns, keeps `tail_`
less than a round ahead, so that a store never reaches a slot still to be read
(`IndicesApart`: totals less than a round apart have different remainders). From it
`FramesInOrder` (`VideoInOrder`). *ThreadSafeQueue*, for any finite disjoint sets of
producers and consumers and any capacity, bounded or not: `TypeOK` and
`NobodyWaitsBesideWork` are inductive together, an element matched by an awake
consumer or a notification owed, a free place by an awake producer or one owed.
From it `EverybodyIsWoken` (`ChannelWakesEverybody`). *LendingPool*, for any finite set
of objects and any finite set of callers, with both deleters: `LendingInv` is
`TypeOK`, `OneBorrowerPerObject` (an object is on offer, with one borrower or
destroyed, and the pool loses none; two of these at once only for the object of a
callback that has run before its `pop`, which is what the unlocked drain allows) and a
count of wakeups against objects on
offer, as in `InferTensorBufferPool`. From it `BorrowersAreServed`
(`LendingServesEverybody`).

**YoloRunner_proofs**, about the three models of `MCYoloRunner`.
*YoloDetector*, for any frames, batch size and `buffer_size`: `Lending` says of each of
the four pools that the free list and the calls' handles are all different; `Places`
ties the handles to where a call is, early returns included, and `Data` follows the
detections of a frame. From it: `TypeCorrect`, `Exclusive` (`BuffersExclusive`) and
`OwnDetections` (`DecodesItsOwn`: the device buffers are given back before the host
copy is read). `StreamTableComplete` assumes `BufferSize <= BatchSize`, the case in
which the table is complete from the start; the run `yolo_streams` shows the other.
`EarlyReturnsLeak` counts what the early returns of postprocess cost: the calls that
have ended and still hold device buffers are as many as have returned early, so that
without one nothing is held after the return. `BuffersExclusive` includes the count.
*GpuFilter*, for any grid, classes, scores, thresholds and `max_det`: `KernelInv` says
that, unless something was counted too early, the `Claimants` (the threads that have
been through `atomicAdd`) are none before the reset, that after it the counter is
their number, that no two of them have one slot, and that a finished one's slot
holds its detection. At the end the claimants are the candidates, and their claims
are the numbers below the counter: a claimant per kept slot. That the kernel's
search and the CPU's find the same class is a lemma about `Best`. From it
`KernelMatchesCpu` (`FilterMatchesCpu`) and, if one block covers all predictions,
`OneBlockCompacts`: its own barrier then orders the reset before every count.
*ImageGeometry*, for pictures and canvases of any size and edges anywhere:
`GeometryInv` keeps what the letterbox, the padding and the crop have computed, and
that the preprocess for a NAFNet row of a batch has computed nothing that lasts. The
rest is arithmetic, all fractions multiplied out: the letterbox's margins differ by
at most one from those the decoding subtracts, a rounded side by at most a half
from the exact one, and the products of the two errors with the scale stay within
the tolerance that `LetterboxInverts` states. Where the GPU shares out the margin
anew (`gpu_preprocess.cu:26`) the canvas pixel of difference is the tolerance. From
it `PixelsAreBack` (`PixelsComeBack`).

**Benchmark_proofs**, about `OrtSessionWrapper`, `SyncScheduler` and `Benchmark` in one
invariant, from any command line, any configuration, any declared input shape, any
files on the disk and any number of crashes and throws; for any `buffer_size`,
requests and clients. They are proved together because they hang together: the
scheduler works on what the constructor left, and the constructor runs again after
a crash. `Construction` and `Pools` follow the constructor phase by phase; the point
is the warm-up, which shows that shape and device fit (a turn that does not throw
was accepted by `Run`) and gives back what it took. `Queue` ties the futures to the
queue and the worker's task, `Data` says whose data is in which buffer at each place
of the worker's loop, the shared staging tensor included; that its content is the
worker's request's is where one worker is needed. `Tool` keeps main and the
constructor together. From it: `TypeCorrect` (`TypeOK`), `BackendServes`
(`ReadyBackendServes`), `OwnResults` (`EachGetsItsOwn`) and `Refinement`
(`ImplementsScheduler`: each step is one of `InferenceScheduler` or a stutter, and a
future once ready stays so).

The last three modules end in a `RunIsInstance`: the behaviours of the run are
behaviours of the specifications the theorems speak of, each model with its own
variables. So the theorems cover what the runs check, aspect by aspect.

Assumptions. Each theorem rests on the named `ASSUME`s of the modules it extends, and
TLC evaluates them on the runs. They say that sets of threads and objects are
finite, that there is at least one worker, slot of a batch, buffer, prediction and
class, that no picture is empty, that a null is no object, and that the bounds of
the models are numbers. `VideoAssumption` includes that the constructor's rounding
gives at least 1: `RoundUp` searches the powers of two, of which the prover knows
nothing, so this fact stays with TLC, on the capacities of the run. Five
theorems add an assumption of their own, the case in which what a violation run
refutes does hold: `BuffersExclusive` and `OutputsWithinCapacity` `~PostCopies`,
`StreamTableComplete` `BufferSize <= BatchSize`, `NothingLeftOfSingles` `BatchSize = 1`,
`OneBlockCompacts` `Predictions <= ThreadsPerBlock`.

Only model-checked: the liveness properties (`AcceptedJobRuns`, `DestructorReturns`,
`CloseEmptiesPool`, `SubmittedReachesPost`, `SubmittedSettles`,
`EveryFrameOfRunnerEnds`, `ToolEnds`), because they need fairness and `ENABLED`, which
this prover does not handle; and the counterexamples of the violation runs. The prover has no
induction over data either, so nothing is proved about recursive definitions; the
models have none.

## Where code and comments disagree

Each of these is a run that ends in a counterexample.

- `async_post_throw`: comments in `AsyncScheduler.h` promise that any exception
  reaches the promise; the post closure has no handler. The future stays pending
  while the worker keeps its closure.
- `async_destroy`: "graceful stop, the tasks exit"; the stages are destroyed before the
  pools, whose queued closures then call them. The destructor does not wait.
- `batch_post_copies`: "set the results safely"; an output buffer released twice is
  lent to two batches, and one gets the other's results.
- `batch_close`: "leave if there is nothing to infer and it has stopped"; a partial
  batch at the time of closing is dropped.
- `yolo_streams`: the image pool has `buffer_size` buffers for the asynchronous
  scheduler, but only `batch` of them get a stream; the rest are inserted into the
  `unordered_map` by concurrent calls. The shipped `config/async_yolo_config.yaml`
  has batch 1 and four buffers.
- `gpu_filter`: the counter is reset by the first block, and the barrier after it
  is one block's own; a block that runs earlier counts onto what the last call
  left, and loses it. `FilterMatchesCpu` in `yolo_buffers` says that this is all
  that can go wrong in the kernel.

Met while modelling, part of the models where they have a place in them, and
without a run of their own:

- `InferTensorBufferPool.h:19` says that buffers have to be released by hand; the early
  returns of postprocess (`YoloDetector.cpp:273`, `:288`, `:302`) do not release theirs.
  An image without detections takes one; after `buffer_size` of them every later call
  waits in `Acquire` (`FilterReturnsEarly`, `CopyFails`; counted by `BuffersExclusive` and proved to be the
  whole of the leak).
- `NAFNet.cpp:95`: the preprocess for a row leaves what `pad_to_size` returns in a tensor
  of its own. The batch's `letterbox_params` (`TensorBuffer.h:30`) stay 0, and the
  restored image is cropped to nothing (`NafRowPreprocess`, `CropsUndoPadding`).
- `std::move` of a `const` tensor copies `call_back` under `AsyncScheduler` too: its output
  pool comes to hold more entries than buffers (`OrtSessionWrapper.h:476` has twice the
  input buffers), where `OutputsWithinCapacity` needs `~PostCopies`.
- `README.md:42` and `benchmark/benchmark_validation_checklist.md:36` draw the infer
  stage of `AsyncScheduler` as a single-threaded FIFO; it has `buffer_size` threads, and
  requests overtake one another. The model lets them, in any order.
- Where no closure of a destroyed `AsyncScheduler` calls a stage too late, its threads
  need not end either: a request that the stopped infer pool refuses keeps its input
  buffer, for which a preprocess behind it waits for ever, and the join with it
  (`refused`; the last disjunct of `SubmittedReachesPost` allows for it).
- `BatchScheduler.h:138` passes an exception to all promises, which
  `BatchScheduler.h:112` has moved away if it is `enqueue` that throws. They end
  broken.
- `README.md:20` promises TensorRT, then CUDA, then CPU. In a CUDA build whose
  providers were all refused, `pool_` lends device buffers that have no tensor
  (`OrtSessionWrapper.h:454`): the first warm-up turn throws (`WarmUpThrows`).
- `config/model_config.yaml:11` says that without `execution_providers` the CPU is
  used; `OrtSessionWrapper.h:147` reads the missing key as a list and throws. The
  default optimization level `ORT_ENABLE_BASE` (`:97`) is not in the table.
- `InferenceBackend.h:140` wants `warm_up` called whatever the count; with 0, its
  default, `primary()` dereferences the end of an empty map
  (`InferenceBackend.cpp:96`).
- `OrtSessionWrapper.cpp:86` speaks of dynamic dimensions; the configured size
  replaces static ones too, which `Run` then refuses.
- `benchmark_runner.h:204` calls a copy of the YAML node deep; it is shallow, so
  the overrides of one mode are still there for the next. The override of
  `execution_providers` (`:212`) puts a scalar where a list is read, and throws.
  `--mode` is required, although `benchmark/main.cpp` documents a configuration
  file as enough.
- `benchmark_runner.h:278`: what a client's future throws leaves its thread
  function, and the process.
- A NAFNet with `bgr_to_rgb: true` (`config/Restorer.yaml:28`) turns its channels
  around twice on the way in (`NAFNet.cpp:54`, `:59`) and once on the way out.
- `gpu_preprocess.cu:26` takes two equal margins, so that an odd padding leaves the
  drawn area one pixel larger than the resized image; its last line repeats.
- `ResNet.cc:15` rounds its scale to a whole number: a shorter side above 512
  gives 0, and `resize` throws.
- `video_infer.cpp:22`: frames pushed between display's failed `pop` and its look
  at `is_running` are not shown.

## Not modelled

- ONNX Runtime itself: `Session::Run` is external; it accepts the shapes the model
  declares and may throw. Session options that are only handed on.
- Pixel values, interpolation, normalisation, argmax; non-maximum suppression,
  which is OpenCV's. `ResNet`'s CPU build, whose preprocess leaves its result in a
  local variable, so that there is nothing to follow.
- The CPU build under `AsyncScheduler` and `BatchScheduler`: its one staging
  tensor, shared without a lock, is in `SyncScheduler` only, where one worker makes
  it safe (the mutation with two workers shows what happens otherwise).
- The async and batch modes of the benchmark, which differ from the sync mode in
  the scheduler only; its percentiles, export, and sampling of the GPU.
- `SyncExecutor` and `ConcurrentExecutor`, which no scheduler uses, have no module:
  the one repeats `SyncScheduler`'s loop, the other forwards to `ThreadPool`.
- `CudaStreamPool`, which no compiled program uses; `src/main.cpp`, the other
  examples and the tests, which are clients; logging, timers and drawing.
- Pixels shared by a `cv::Mat` captured by value: a client that writes to an image
  it has submitted.
- Out of the object's lifetime: a client that calls `submit` while another thread
  destroys the scheduler, and `notify_one` on a destroyed condition variable. What the
  code itself does after a lifetime is modelled as far as the memory is still intact,
  and marked: a closure that calls a destroyed stage (`stray`), a task that writes
  through a dangling `row_buf` (`strayed`), `front` of an emptied queue (`ended`). A
  task that enqueues on a stage pool whose destructor has run finds `is_running` false
  and throws, which is what the memory still says. Two threads in the same
  `std::queue` at the same instant (`ObjectPool.h:48`) are taken one after the other.
- `pool_size` 0: no worker would ever run; the models assume at least one, the
  code does not check. A `ThreadSafeQueue` of capacity 0 is unbounded by
  definition; an `SPSCQueue` of capacity 0 has an index mask of all ones.

## How to run

    tlc -workers 2 -config MCThreadPool.cfg MCThreadPool.tla
    tlapm ThreadPool_proofs.tla

`batch_scheduler` takes about two minutes, `async_scheduler` a bit over one,
`yolo_buffers` and `benchmark_sync` less than one, every other run a few seconds;
the proofs take about ten minutes for the eight modules together.
