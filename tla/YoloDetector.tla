----------------------------- MODULE YoloDetector -----------------------------
(***************************************************************************)
(* src/runner/detect/YoloDetector.cpp in a CUDA build, as the stage pools  *)
(* of BatchScheduler call it: preprocess of one image into its row, later  *)
(* postprocess of the model's output.  Four buffer pools of the runner are *)
(* in play, each an InferTensorBufferPool (or a BufferPool for the last):  *)
(* image buffers, filter outputs, filter counts, host copies.  A call may  *)
(* wait in each Acquire, and several exits skip a Release.                 *)
(* A frame is an image in preprocess and the output it went into in        *)
(* postprocess: how rows are gathered is BatchScheduler's subject.         *)
(*                                                                         *)
(* A kernel or copy together with the synchronisation after it is one      *)
(* step: only its own stream and buffers are concerned.  What is decoded   *)
(* is abstracted to whose detections they are.                             *)
(***************************************************************************)
EXTENDS Naturals, Sequences, FiniteSets

CONSTANTS
    Frames,         \* model inputs, one preprocess and one postprocess call each
    None,           \* no buffer, no frame
    BatchSize,      \* getBatchSize()
    BufferSize,     \* getBufferSize(): also how many calls a stage pool runs at once
    MaxImagesLost,  \* how many preprocess calls may throw (bound)
    MaxFiltersLost  \* how many postprocess calls may return early (bound)

ASSUME SizeAssumption == BatchSize \in Nat \ {0} /\ BufferSize \in Nat \ {0}
ASSUME BoundAssumption == MaxImagesLost \in Nat /\ MaxFiltersLost \in Nat

\* cu_stream_size = max(batch, buf_size)
ImageBuffers == 1 .. (IF BatchSize > BufferSize THEN BatchSize ELSE BufferSize)
Buffers == 1 .. BufferSize

ASSUME NoneAssumption == None \notin Frames \union ImageBuffers

VARIABLES
    pc,         \* where the calls for each frame are
    imageFree,  \* pool_
    streams,    \* the keys of cuStreams_
    image,      \* img_buffer of each frame
    filterFree, countFree, hostFree,    \* d_filtered_buffers_, d_count_ptrs_, cpu_buffer_pool_
    filter, count, host,    \* d_filtered_buffer, d_count_ptr, cpu_filtered of each frame
    filterData, hostData,   \* whose detections each buffer holds
    decoded,    \* whose detections each result was decoded from
    imagesLost, filtersLost

imageVars == <<imageFree, streams, image, imagesLost>>
filterVars == <<filterFree, countFree, filter, count, filterData, filtersLost>>
hostVars == <<hostFree, host, hostData>>
vars == <<pc, imageVars, filterVars, hostVars, decoded>>

------------------------------------------------------------------------------
At(l) == {f \in Frames : pc[f] = l}
Goto(f, l) == pc' = [pc EXCEPT ![f] = l]

InPreprocess == At("stream") \union At("upload")
InPostprocess == UNION {At(l) : l \in {"filter", "count", "launch", "host", "copy", "release", "decode"}}

\* The constructor registers a stream for the first getBatchSize() image buffers.
StreamsAtFirst == 1 .. BatchSize

Init ==
    /\ pc = [f \in Frames |-> "new"]
    /\ imageFree = [i \in 1 .. Cardinality(ImageBuffers) |-> i]
    /\ streams = StreamsAtFirst
    /\ image = [f \in Frames |-> None]
    /\ filterFree = [i \in Buffers |-> i]
    /\ countFree = [i \in Buffers |-> i]
    /\ hostFree = [i \in Buffers |-> i]
    /\ filter = [f \in Frames |-> None]
    /\ count = [f \in Frames |-> None]
    /\ host = [f \in Frames |-> None]
    /\ filterData = [b \in Buffers |-> None]
    /\ hostData = [b \in Buffers |-> None]
    /\ decoded = [f \in Frames |-> None]
    /\ imagesLost = 0
    /\ filtersLost = 0

------------------------------------------------------------------------------
(* preprocess(img, buf, offset)                                            *)

\* img_buffer = pool_->Acquire()
AcquireImage(f) ==
    /\ pc[f] = "new"
    /\ Cardinality(InPreprocess) < BufferSize
    /\ imageFree # <<>>
    /\ image' = [image EXCEPT ![f] = Head(imageFree)]
    /\ imageFree' = Tail(imageFree)
    /\ Goto(f, "stream")
    /\ UNCHANGED <<streams, imagesLost, filterVars, hostVars, decoded>>

\* cuStreams_[img_buffer]: looks the key up, and inserts it if it is not there.
FindStream(f) ==
    /\ pc[f] = "stream"
    /\ streams' = streams \union {image[f]}
    /\ Goto(f, "upload")
    /\ UNCHANGED <<imageFree, image, imagesLost, filterVars, hostVars, decoded>>

\* (mutant) a handler releases the buffer, and the caller does so again.
PreprocessThrowsTwice(f) ==
    /\ pc[f] = "upload"
    /\ imagesLost < MaxImagesLost
    /\ imageFree' = imageFree \o <<image[f], image[f]>>
    /\ imagesLost' = imagesLost + 1
    /\ Goto(f, "failed")
    /\ UNCHANGED <<streams, image, filterVars, hostVars, decoded>>

\* An image that is not continuous: the exception skips the Release.
PreprocessThrows(f) ==
    /\ pc[f] = "upload"
    /\ imagesLost < MaxImagesLost
    /\ imagesLost' = imagesLost + 1
    /\ Goto(f, "failed")
    /\ UNCHANGED <<imageFree, streams, image, filterVars, hostVars, decoded>>

\* Copy, kernel, synchronise, Release.  Run comes next: the frame is ready.
Preprocess(f) ==
    /\ pc[f] = "upload"
    /\ imageFree' = Append(imageFree, image[f])
    /\ image' = [image EXCEPT ![f] = None]
    /\ Goto(f, "ready")
    /\ UNCHANGED <<streams, imagesLost, filterVars, hostVars, decoded>>

------------------------------------------------------------------------------
(* postprocess(model_out)                                                  *)

\* A post worker enters postprocess.
Postprocess(f) ==
    /\ pc[f] = "ready"
    /\ Cardinality(InPostprocess) < BufferSize
    /\ Goto(f, "filter")
    /\ UNCHANGED <<imageVars, filterVars, hostVars, decoded>>

\* d_filtered_buffers_->Acquire()
AcquireFilter(f) ==
    /\ pc[f] = "filter"
    /\ filterFree # <<>>
    /\ filter' = [filter EXCEPT ![f] = Head(filterFree)]
    /\ filterFree' = Tail(filterFree)
    /\ Goto(f, "count")
    /\ UNCHANGED <<imageVars, countFree, count, filterData, filtersLost, hostVars, decoded>>

\* d_count_ptrs_->Acquire()
AcquireCount(f) ==
    /\ pc[f] = "count"
    /\ countFree # <<>>
    /\ count' = [count EXCEPT ![f] = Head(countFree)]
    /\ countFree' = Tail(countFree)
    /\ Goto(f, "launch")
    /\ UNCHANGED <<imageVars, filterFree, filter, filterData, filtersLost, hostVars, decoded>>

\* The filter kernel, the copy of the counts: there are detections.
Filter(f) ==
    /\ pc[f] = "launch"
    /\ filterData' = [filterData EXCEPT ![filter[f]] = f]
    /\ Goto(f, "host")
    /\ UNCHANGED <<imageVars, filterFree, countFree, filter, count, filtersLost, hostVars, decoded>>

\* No detection, or the copy failed: postprocess returns empty results, and the
\* two buffers stay with nobody.
FilterReturnsEarly(f) ==
    /\ pc[f] = "launch"
    /\ filtersLost < MaxFiltersLost
    /\ filtersLost' = filtersLost + 1
    /\ filterData' = [filterData EXCEPT ![filter[f]] = f]
    /\ Goto(f, "done")
    /\ UNCHANGED <<imageVars, filterFree, countFree, filter, count, hostVars, decoded>>

\* cpu_buffer_pool_->Acquire()
AcquireHost(f) ==
    /\ pc[f] = "host"
    /\ hostFree # <<>>
    /\ host' = [host EXCEPT ![f] = Head(hostFree)]
    /\ hostFree' = Tail(hostFree)
    /\ Goto(f, "copy")
    /\ UNCHANGED <<imageVars, filterVars, hostData, decoded>>

\* The detections are copied to the host.
Copy(f) ==
    /\ pc[f] = "copy"
    /\ hostData' = [hostData EXCEPT ![host[f]] = filterData[filter[f]]]
    /\ Goto(f, "release")
    /\ UNCHANGED <<imageVars, filterVars, hostFree, host, decoded>>

\* That copy fails: another early return; only the host buffer, a shared_ptr,
\* goes back.
CopyFails(f) ==
    /\ pc[f] = "copy"
    /\ filtersLost < MaxFiltersLost
    /\ filtersLost' = filtersLost + 1
    /\ hostFree' = Append(hostFree, host[f])
    /\ host' = [host EXCEPT ![f] = None]
    /\ Goto(f, "done")
    /\ UNCHANGED <<imageVars, filterFree, countFree, filter, count, filterData, hostData, decoded>>

\* (mutant) the filter buffer goes back twice, by hand and by a deleter like the host buffer's.
ReleaseFilterTwice(f) ==
    /\ pc[f] = "release"
    /\ filterFree' = filterFree \o <<filter[f], filter[f]>>
    /\ countFree' = Append(countFree, count[f])
    /\ filter' = [filter EXCEPT ![f] = None]
    /\ count' = [count EXCEPT ![f] = None]
    /\ Goto(f, "decode")
    /\ UNCHANGED <<imageVars, filterData, filtersLost, hostVars, decoded>>

\* (mutant) the count buffer is not given back.
ReleaseFilterOnly(f) ==
    /\ pc[f] = "release"
    /\ filterFree' = Append(filterFree, filter[f])
    /\ filter' = [filter EXCEPT ![f] = None]
    /\ count' = [count EXCEPT ![f] = None]
    /\ Goto(f, "decode")
    /\ UNCHANGED <<imageVars, countFree, filterData, filtersLost, hostVars, decoded>>

\* (mutant) decoding goes on in a buffer that another call may have been given.
ReleaseFiltersAndHost(f) ==
    /\ pc[f] = "release"
    /\ filterFree' = Append(filterFree, filter[f])
    /\ countFree' = Append(countFree, count[f])
    /\ hostFree' = Append(hostFree, host[f])
    /\ filter' = [filter EXCEPT ![f] = None]
    /\ count' = [count EXCEPT ![f] = None]
    /\ Goto(f, "decode")
    /\ UNCHANGED <<imageVars, filterData, filtersLost, host, hostData, decoded>>

\* Both device buffers go back before the host decodes.
ReleaseFilters(f) ==
    /\ pc[f] = "release"
    /\ filterFree' = Append(filterFree, filter[f])
    /\ countFree' = Append(countFree, count[f])
    /\ filter' = [filter EXCEPT ![f] = None]
    /\ count' = [count EXCEPT ![f] = None]
    /\ Goto(f, "decode")
    /\ UNCHANGED <<imageVars, filterData, filtersLost, hostVars, decoded>>

\* Decode, and return: cpu_filtered's deleter gives the host buffer back.
Decode(f) ==
    /\ pc[f] = "decode"
    /\ decoded' = [decoded EXCEPT ![f] = hostData[host[f]]]
    /\ hostFree' = Append(hostFree, host[f])
    /\ host' = [host EXCEPT ![f] = None]
    /\ Goto(f, "done")
    /\ UNCHANGED <<imageVars, filterVars, hostData>>

Call(f) ==
    \/ AcquireImage(f) \/ FindStream(f) \/ Preprocess(f)
    \/ Postprocess(f) \/ AcquireFilter(f) \/ AcquireCount(f) \/ Filter(f)
    \/ AcquireHost(f) \/ Copy(f) \/ ReleaseFilters(f) \/ Decode(f)

Fails(f) == PreprocessThrows(f) \/ FilterReturnsEarly(f) \/ CopyFails(f)

Next == \E f \in Frames : Call(f) \/ Fails(f)

Spec == Init /\ [][Next]_vars

\* The stage pools run every frame; none has to fail.
FairSpec == Spec /\ \A f \in Frames : WF_vars(Call(f))

------------------------------------------------------------------------------
Elements(q) == {q[i] : i \in DOMAIN q}

TypeOK ==
    /\ pc \in [Frames -> {"new", "stream", "upload", "failed", "ready", "filter", "count",
                          "launch", "host", "copy", "release", "decode", "done"}]
    /\ imageFree \in Seq(ImageBuffers) /\ Len(imageFree) <= Cardinality(ImageBuffers)
    /\ streams \subseteq ImageBuffers
    /\ image \in [Frames -> ImageBuffers \union {None}]
    /\ \A q \in {filterFree, countFree, hostFree} : q \in Seq(Buffers) /\ Len(q) <= BufferSize
    /\ \A held \in {filter, count, host} : held \in [Frames -> Buffers \union {None}]
    /\ \A data \in {filterData, hostData} : data \in [Buffers -> Frames \union {None}]
    /\ decoded \in [Frames -> Frames \union {None}]
    /\ imagesLost \in 0 .. MaxImagesLost
    /\ filtersLost \in 0 .. MaxFiltersLost

\* The calls that have returned and still hold a filter or a count buffer.
Leaking == {f \in Frames : pc[f] = "done" /\ (filter[f] # None \/ count[f] # None)}

\* Each pool's buffer is on offer or with one call, and the pair a call holds is its
\* own.  (note on InferTensorBufferPool: "after use it has to be released by hand")
\* The calls that keep buffers after they have returned are those that returned early,
\* for want of detections or because a copy failed.
BuffersExclusive ==
    /\ \A f, g \in Frames :
        /\ image[f] = image[g] /\ image[f] # None => f = g
        /\ filter[f] = filter[g] /\ filter[f] # None => f = g
        /\ host[f] = host[g] /\ host[f] # None => f = g
        /\ image[f] \notin Elements(imageFree) /\ filter[f] \notin Elements(filterFree)
        /\ count[f] \notin Elements(countFree) /\ host[f] \notin Elements(hostFree)
    /\ Cardinality(Leaking) = filtersLost

\* (comment on pool_: "for the async scheduler buffer_size is best as the number of
\* buffers")  cuStreams_ is a plain unordered_map: while two calls are at the lookup
\* both keys must be there already, or one inserts beside the other.  They are
\* there as long as buffer_size is at most batch.
StreamTableNotWrittenConcurrently ==
    \A f, g \in At("stream") : f # g => {image[f], image[g]} \subseteq streams

\* A frame's result is decoded from its own detections, though the device
\* buffers are released before decoding starts.
DecodesItsOwn == \A f \in Frames : decoded[f] \in {None, f}

\* When a call has returned, the buffers it acquired have been released.  (Not so: see
\* Leaking.)
NothingHeldAfterReturn ==
    \A f \in Frames : pc[f] = "done" => filter[f] = None /\ count[f] = None

\* With fewer early exits than buffers every frame comes to an end: the three
\* pools are waited for in one order.
EveryFrameEnds == \A f \in Frames : <>(pc[f] \in {"failed", "done"})
==============================================================================
