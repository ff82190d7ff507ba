------------------------- MODULE BatchScheduler_proofs -------------------------
(***************************************************************************)
(* Theorems about BatchScheduler for any number of requests, any batch     *)
(* size, any buffer_size and any number of failures.                       *)
(*                                                                         *)
(* The inductive invariant is Inv.  Batches says that a request is in the  *)
(* queue or in one batch, Apart that a batch is in one place of the        *)
(* pipeline, Promises that what is on its way is pending.  An input buffer *)
(* belongs to its batch until Run has returned, and for good if Run never  *)
(* did: Buffers.  So as long as no row_buf has dangled, a row that is      *)
(* being written is in nobody else's buffer: Data.  Outputs says the same  *)
(* of the output buffers, for their first round through their queue.       *)
(***************************************************************************)
EXTENDS BatchScheduler, QueueLemmas

Distinct(q) == \A i, k \in DOMAIN q : q[i] = q[k] => i = k

Formed == DOMAIN batches

InferQueued == Items(inferQ)
PostQueued == Items(postQ)
InferBusy == waiting \union running
AfterInfer == PostQueued \union posting \union postKept

\* The batches that hold their input buffer: Run has not returned.
Holding == {k \in Formed : result[k] = <<>>}

\* The batches on their way to being settled.
Unsettled == InferQueued \union InferBusy \union PostQueued \union posting

\* The requests whose preprocessing task is queued or running.
Pending == Items(preQ) \union preRunning

\* What Run has seen of a batch: nothing yet, or an image or none in each row.
Seen == {<<>>} \union [Rows -> Requests \union {None}]

Types ==
    /\ outcome \in [Requests -> {"none", "pending", "value", "exception", "broken"}]
    /\ inputs \in Seq(Requests) /\ preQ \in Seq(Requests)
    /\ batches \in Seq([reqs : Seq(Requests), buf : InputBuffers])
    /\ result \in Seq(Seen)
    /\ Len(result) = Len(batches)
    /\ workerPc \in {"wait", "acquire", "exited"}
    /\ preRunning \subseteq Requests
    /\ preFuture \in [Requests -> {"empty", "done", "exception"}]
    /\ inferQ \in Seq(Nat) /\ postQ \in Seq(Nat)
    /\ InferQueued \union InferBusy \union inferKept \union AfterInfer \subseteq Formed
    /\ inFree \in Seq(InputBuffers)
    /\ content \in [InputBuffers -> [Rows -> Requests \union {None}]]
    /\ failures \in 0 .. MaxFailures
    /\ life \in {"alive", "closing", "postPool", "inferPool", "prePool", "gone"}

Batches ==
    /\ Distinct(inputs)
    /\ \A k \in Formed :
        /\ batches[k].reqs # <<>>
        /\ Len(batches[k].reqs) <= BatchSize
        /\ Distinct(batches[k].reqs)
        /\ Items(batches[k].reqs) \intersect Items(inputs) = {}
    /\ \A k, l \in Formed : \A r \in Items(batches[k].reqs) : r \in Items(batches[l].reqs) => k = l

Apart ==
    /\ Distinct(inferQ) /\ Distinct(postQ)
    /\ InferQueued \intersect (InferBusy \union inferKept \union AfterInfer) = {}
    /\ waiting \intersect running = {}
    /\ InferBusy \intersect (inferKept \union AfterInfer) = {}
    /\ PostQueued \intersect (posting \union postKept) = {}
    /\ posting \intersect postKept = {}

Promises ==
    /\ \A r \in Items(inputs) : outcome[r] = IF life = "gone" THEN "broken" ELSE "pending"
    /\ \A k \in Formed : \A r \in Items(batches[k].reqs) : outcome[r] # "none"
    /\ \A k \in Unsettled : \A r \in Items(batches[k].reqs) : outcome[r] = "pending"
    /\ \A r \in Requests :
        outcome[r] = "value" => \E k \in Formed \ Holding : r \in Items(batches[k].reqs)

Buffers ==
    /\ Distinct(inFree)
    /\ \A k \in Holding : batches[k].buf \notin Items(inFree)
    /\ \A k, l \in Holding : batches[k].buf = batches[l].buf => k = l
    /\ InferQueued \union InferBusy \subseteq Holding
    /\ AfterInfer \intersect Holding = {}

Tasks ==
    /\ Distinct(preQ) /\ Items(preQ) \intersect preRunning = {}
    /\ \A r \in Requests :
        preFuture[r] # "empty" => \E k \in Formed : r \in Items(batches[k].reqs)
    /\ \A r \in Pending : preFuture[r] = "empty" /\ \E k \in Formed : r \in Items(batches[k].reqs)
    /\ \A k \in Formed :
        k \in running \/ k \notin Holding => \A r \in Items(batches[k].reqs) : preFuture[r] = "done"
    /\ \A k \in Holding :
        \/ k \in InferQueued \union InferBusy
        \/ \E r \in Items(batches[k].reqs) : preFuture[r] = "exception"
        \/ \A r \in Items(batches[k].reqs) : preFuture[r] = "done"

\* The rows preprocessed so far, and those Run has seen, are the requests' own.
OwnRows ==
    /\ \A k \in Holding : \A i \in DOMAIN batches[k].reqs :
        preFuture[batches[k].reqs[i]] = "done"
            => content[batches[k].buf][i] = batches[k].reqs[i]
    /\ \A k \in Formed \ Holding : \A i \in DOMAIN batches[k].reqs :
        result[k][i] = batches[k].reqs[i]

Data == ~strayed => OwnRows

Staffed(busy, kept) ==
    /\ IsFiniteSet(busy) /\ IsFiniteSet(kept)
    /\ Cardinality(busy) + Cardinality(kept) <= BufferSize

Staff == Staffed(InferBusy, inferKept) /\ Staffed(posting, postKept)

Closing ==
    /\ workerPc = "acquire" => inputs # <<>>
    /\ workerPc = "exited" => isClose /\ Len(inputs) < BatchSize
    /\ life \notin {"alive", "closing"} => workerPc = "exited"

Inv ==
    /\ Types /\ Batches /\ Apart /\ Promises /\ Buffers /\ Tasks /\ Data
    /\ Staff /\ Closing
------------------------------------------------------------------------------
(* The pools of workers, and the batches. *)

\* A worker takes a job: it had kept a closure that dies, or none.
LEMMA WorkerTakes ==
    ASSUME NEW busy, NEW kept, Staffed(busy, kept), NEW r, r \notin busy,
           NEW dying \in Idle(busy, kept)
    PROVE  /\ Staffed(busy \union {r}, kept \ dying)
           /\ dying \subseteq kept
<1>1. /\ IsFiniteSet(busy \union {r})
      /\ Cardinality(busy \union {r}) = Cardinality(busy) + 1
      /\ Cardinality(busy) \in Nat /\ Cardinality(kept) \in Nat
    BY FS_AddElement, FS_CardinalityType DEF Staffed
<1>2. CASE \E k \in kept : dying = {k}
  <2>1. PICK k \in kept : dying = {k}
    BY <1>2
  <2>2. IsFiniteSet(kept \ {k}) /\ Cardinality(kept \ {k}) = Cardinality(kept) - 1
    BY FS_RemoveElement DEF Staffed
  <2> QED BY <1>1, <2>1, <2>2, BatchAssumption DEF Staffed
<1>3. CASE dying = {} /\ Cardinality(busy) + Cardinality(kept) < BufferSize
  <2>1. kept \ dying = kept
    BY <1>3
  <2> QED BY <1>1, <1>3, <2>1, BatchAssumption DEF Staffed
<1>4. (\E k \in kept : dying = {k}) \/ (dying = {} /\ Cardinality(busy) + Cardinality(kept) < BufferSize)
    BY DEF Idle
<1> QED BY <1>2, <1>3, <1>4

\* A worker has done its job, and keeps the closure.
LEMMA WorkerKeeps ==
    ASSUME NEW busy, NEW kept, Staffed(busy, kept), NEW r \in busy, r \notin kept
    PROVE  Staffed(busy \ {r}, kept \union {r})
<1>1. /\ IsFiniteSet(busy \ {r}) /\ Cardinality(busy \ {r}) = Cardinality(busy) - 1
      /\ IsFiniteSet(kept \union {r}) /\ Cardinality(kept \union {r}) = Cardinality(kept) + 1
      /\ Cardinality(busy) \in Nat /\ Cardinality(kept) \in Nat
    BY FS_AddElement, FS_RemoveElement, FS_CardinalityType DEF Staffed
<1> QED BY <1>1, BatchAssumption DEF Staffed

\* The two names of a batch's requests.
LEMMA MembersAre == \A k : Members(k) = Items(batches[k].reqs)
BY DEF Members, Elements, Items

\* Batches are numbered.
LEMMA FormedNat == Types => Formed \subseteq Nat
BY DEF Types, Formed

\* A batch that holds its buffer has been formed.
LEMMA HoldingFormed == Holding \subseteq Formed
BY DEF Holding

\* What is in a batch: requests, in rows of the tensor, for one buffer.
LEMMA RowInRange ==
    ASSUME Inv, NEW k \in Formed
    PROVE  /\ batches[k].buf \in InputBuffers
           /\ batches[k].reqs \in Seq(Requests)
           /\ \A i \in DOMAIN batches[k].reqs : i \in Rows /\ batches[k].reqs[i] \in Requests
<1>1. batches[k] \in [reqs : Seq(Requests), buf : InputBuffers]
  <2> DEFINE S == [reqs : Seq(Requests), buf : InputBuffers]
  <2>1. batches \in Seq(S) /\ k \in DOMAIN batches
    BY DEF Inv, Types, Formed
  <2> HIDE DEF S
  <2>2. batches[k] \in S
    BY <2>1
  <2> QED BY <2>2 DEF S
<1>2. Len(batches[k].reqs) <= BatchSize
    BY DEF Inv, Batches
<1>3. batches[k].reqs \in Seq(Requests) /\ DOMAIN batches[k].reqs = 1 .. Len(batches[k].reqs)
      /\ Len(batches[k].reqs) \in Nat
    BY <1>1
<1>4. \A i \in DOMAIN batches[k].reqs : i \in Rows
    BY <1>2, <1>3, BatchAssumption DEF Rows
<1> QED BY <1>1, <1>3, <1>4

\* The members of a batch are requests.
LEMMA MemberIsRequest ==
    ASSUME Inv
    PROVE  \A k \in Formed : \A s \in Items(batches[k].reqs) : s \in Requests
BY RowInRange DEF Items

\* So are those whose preprocessing is pending.
LEMMA PendingRequests == Types => Pending \subseteq Requests
BY DEF Types, Pending, Items

\* So are those in the queue.
LEMMA QueuedRequests == Types => Items(inputs) \subseteq Requests
BY DEF Types, Items

\* A request is in one batch, and in one row of it.
LEMMA PlaceOf ==
    ASSUME Inv, NEW k \in Formed, NEW i \in DOMAIN batches[k].reqs
    PROVE  BatchOf(batches[k].reqs[i]) = k /\ RowOf(batches[k].reqs[i]) = i
<1> DEFINE r == batches[k].reqs[i]
<1>1. r \in Items(batches[k].reqs)
    BY DEF Items
<1>2. \A l \in Formed : r \in Items(batches[l].reqs) => l = k
    BY <1>1 DEF Inv, Batches
<1>3. \A l \in Formed : r \in Members(l) <=> l = k
    BY <1>1, <1>2, MembersAre
<1> HIDE DEF r
<1>4. BatchOf(r) = k
    BY <1>3 DEF BatchOf, Formed
<1>5. \A j \in DOMAIN batches[k].reqs : batches[k].reqs[j] = r <=> j = i
    BY DEF Inv, Batches, Distinct, r
<1>6. RowOf(r) = i
    BY <1>4, <1>5 DEF RowOf
<1> QED BY <1>4, <1>6 DEF r

\* The promises of an unsettled batch are settled, all in one way.
LEMMA SettledPromises ==
    ASSUME Inv, NEW k \in Unsettled, NEW how \in {"value", "exception", "broken"},
           outcome' = [s \in Requests |-> IF s \in Items(batches[k].reqs) THEN how ELSE outcome[s]],
           UNCHANGED <<inputs, batches, life>>, Formed \ Holding \subseteq Formed' \ Holding',
           Unsettled' \subseteq Unsettled \ {k},
           how = "value" => k \notin Holding
    PROVE  Promises'
<1>1. k \in Formed /\ Unsettled \subseteq Formed /\ Formed' = Formed
    BY DEF Inv, Types, Unsettled, AfterInfer, Formed
<1>2. /\ Items(inputs) \intersect Items(batches[k].reqs) = {} /\ Items(inputs) \subseteq Requests
      /\ Items(batches[k].reqs) \subseteq Requests
    BY <1>1, QueuedRequests, MemberIsRequest DEF Inv, Batches
<1>3. /\ \A s \in Items(batches[k].reqs) : outcome'[s] = how
      /\ \A s \in Requests : s \notin Items(batches[k].reqs) => outcome'[s] = outcome[s]
    BY <1>2
<1>4. \A l \in Formed : l # k => \A s \in Items(batches[l].reqs) : s \notin Items(batches[k].reqs)
    BY <1>1 DEF Inv, Batches
<1>5. \A r \in Items(inputs)' : outcome'[r] = IF life' = "gone" THEN "broken" ELSE "pending"
    BY <1>2, <1>3 DEF Inv, Promises
<1>6. \A l \in Formed' : \A r \in Items(batches'[l].reqs) : outcome'[r] # "none"
    BY <1>1, <1>3, <1>4, MemberIsRequest DEF Inv, Promises
<1>7. \A l \in Unsettled' : \A r \in Items(batches'[l].reqs) : outcome'[r] = "pending"
    BY <1>1, <1>3, <1>4, MemberIsRequest DEF Inv, Promises
<1>8. \A r \in Requests :
        outcome'[r] = "value" => \E l \in Formed' \ Holding' : r \in Items(batches'[l].reqs)
  <2> SUFFICES ASSUME NEW r \in Requests, outcome'[r] = "value"
               PROVE  \E l \in Formed' \ Holding' : r \in Items(batches'[l].reqs)
    OBVIOUS
  <2>1. CASE r \in Items(batches[k].reqs)
    BY <1>1, <1>3, <2>1
  <2>2. CASE r \notin Items(batches[k].reqs)
    BY <1>3, <2>2 DEF Inv, Promises
  <2> QED BY <2>1, <2>2
<1> QED BY <1>5, <1>6, <1>7, <1>8 DEF Promises

------------------------------------------------------------------------------
(* The invariant. *)

\* worker_ wakes up: there is something to infer.
LEMMA WakeInv ==
    ASSUME Inv, Wake
    PROVE  Inv'
<1> USE DEF Inv, inBufs, outBufs
<1>1. Formed' = Formed /\ Holding' = Holding
    BY DEF Wake, queue, Formed, Holding
<1>2. Len(inputs) \in Nat /\ (Len(inputs) > 0 => inputs # <<>>)
    BY DEF Types
<1>3. Types'
    BY <1>1, <1>2, BoundAssumption DEF Wake, queue, pre, infer, post, Types, InferQueued, PostQueued, InferBusy, AfterInfer, Unsettled, Pending
<1>4. Batches'
    BY <1>1, <1>2 DEF Wake, queue, pre, infer, post, Batches
<1>5. Apart'
    BY <1>1, <1>2 DEF Wake, queue, pre, infer, post, Apart, InferQueued, PostQueued, InferBusy, AfterInfer, Unsettled, Pending
<1>6. Promises'
    BY <1>1, <1>2 DEF Wake, queue, pre, infer, post, Promises, Batches, Types, InferQueued, PostQueued, InferBusy, AfterInfer, Unsettled, Pending
<1>7. Buffers'
    BY <1>1, <1>2 DEF Wake, queue, pre, infer, post, Buffers, Apart, InferQueued, PostQueued, InferBusy, AfterInfer, Unsettled, Pending
<1>8. Tasks'
    BY <1>1, <1>2 DEF Wake, queue, pre, infer, post, Tasks, Apart, Types, InferQueued, PostQueued, InferBusy, AfterInfer, Unsettled, Pending
<1>9. Data'
    BY <1>1, <1>2 DEF Wake, queue, pre, infer, post, Data, OwnRows
<1>10. Staff'
    BY <1>1, <1>2 DEF Wake, queue, pre, infer, post, Staff, InferBusy
<1>12. Closing'
    BY <1>1, <1>2, BatchAssumption DEF Wake, queue, pre, infer, post, Closing, isClose, BatchReady
<1> QED BY <1>3, <1>4, <1>5, <1>6, <1>7, <1>8, <1>9, <1>10, <1>12

\* worker_ leaves: less than a batch is left.
LEMMA WorkerExitInv ==
    ASSUME Inv, WorkerExit
    PROVE  Inv'
<1> USE DEF Inv, inBufs, outBufs
<1>1. Formed' = Formed /\ Holding' = Holding
    BY DEF WorkerExit, queue, Formed, Holding
<1>2. Len(inputs) \in Nat /\ (Len(inputs) > 0 => inputs # <<>>)
    BY DEF Types
<1>3. Types'
    BY <1>1, <1>2, BoundAssumption DEF WorkerExit, queue, pre, infer, post, Types, InferQueued, PostQueued, InferBusy, AfterInfer, Unsettled, Pending
<1>4. Batches'
    BY <1>1, <1>2 DEF WorkerExit, queue, pre, infer, post, Batches
<1>5. Apart'
    BY <1>1, <1>2 DEF WorkerExit, queue, pre, infer, post, Apart, InferQueued, PostQueued, InferBusy, AfterInfer, Unsettled, Pending
<1>6. Promises'
    BY <1>1, <1>2 DEF WorkerExit, queue, pre, infer, post, Promises, Batches, Types, InferQueued, PostQueued, InferBusy, AfterInfer, Unsettled, Pending
<1>7. Buffers'
    BY <1>1, <1>2 DEF WorkerExit, queue, pre, infer, post, Buffers, Apart, InferQueued, PostQueued, InferBusy, AfterInfer, Unsettled, Pending
<1>8. Tasks'
    BY <1>1, <1>2 DEF WorkerExit, queue, pre, infer, post, Tasks, Apart, Types, InferQueued, PostQueued, InferBusy, AfterInfer, Unsettled, Pending
<1>9. Data'
    BY <1>1, <1>2 DEF WorkerExit, queue, pre, infer, post, Data, OwnRows
<1>10. Staff'
    BY <1>1, <1>2 DEF WorkerExit, queue, pre, infer, post, Staff, InferBusy
<1>12. Closing'
    BY <1>1, <1>2, BatchAssumption DEF WorkerExit, queue, pre, infer, post, Closing, isClose, BatchReady
<1> QED BY <1>3, <1>4, <1>5, <1>6, <1>7, <1>8, <1>9, <1>10, <1>12

\* is_close_ is set.
LEMMA CloseInv ==
    ASSUME Inv, Close
    PROVE  Inv'
<1> USE DEF Inv, inBufs, outBufs
<1>1. Formed' = Formed /\ Holding' = Holding
    BY DEF Close, queue, Formed, Holding
<1>2. Len(inputs) \in Nat /\ (Len(inputs) > 0 => inputs # <<>>)
    BY DEF Types
<1>3. Types'
    BY <1>1, <1>2, BoundAssumption DEF Close, queue, pre, infer, post, Types, InferQueued, PostQueued, InferBusy, AfterInfer, Unsettled, Pending
<1>4. Batches'
    BY <1>1, <1>2 DEF Close, queue, pre, infer, post, Batches
<1>5. Apart'
    BY <1>1, <1>2 DEF Close, queue, pre, infer, post, Apart, InferQueued, PostQueued, InferBusy, AfterInfer, Unsettled, Pending
<1>6. Promises'
    BY <1>1, <1>2 DEF Close, queue, pre, infer, post, Promises, Batches, Types, InferQueued, PostQueued, InferBusy, AfterInfer, Unsettled, Pending
<1>7. Buffers'
    BY <1>1, <1>2 DEF Close, queue, pre, infer, post, Buffers, Apart, InferQueued, PostQueued, InferBusy, AfterInfer, Unsettled, Pending
<1>8. Tasks'
    BY <1>1, <1>2 DEF Close, queue, pre, infer, post, Tasks, Apart, Types, InferQueued, PostQueued, InferBusy, AfterInfer, Unsettled, Pending
<1>9. Data'
    BY <1>1, <1>2 DEF Close, queue, pre, infer, post, Data, OwnRows
<1>10. Staff'
    BY <1>1, <1>2 DEF Close, queue, pre, infer, post, Staff, InferBusy
<1>12. Closing'
    BY <1>1, <1>2, BatchAssumption DEF Close, queue, pre, infer, post, Closing, isClose, BatchReady
<1> QED BY <1>3, <1>4, <1>5, <1>6, <1>7, <1>8, <1>9, <1>10, <1>12

\* worker_ has been joined.
LEMMA WorkerJoinedInv ==
    ASSUME Inv, WorkerJoined
    PROVE  Inv'
<1> USE DEF Inv, inBufs, outBufs
<1>1. Formed' = Formed /\ Holding' = Holding
    BY DEF WorkerJoined, queue, Formed, Holding
<1>2. Len(inputs) \in Nat /\ (Len(inputs) > 0 => inputs # <<>>)
    BY DEF Types
<1>3. Types'
    BY <1>1, <1>2, BoundAssumption DEF WorkerJoined, queue, pre, infer, post, Types, InferQueued, PostQueued, InferBusy, AfterInfer, Unsettled, Pending
<1>4. Batches'
    BY <1>1, <1>2 DEF WorkerJoined, queue, pre, infer, post, Batches
<1>5. Apart'
    BY <1>1, <1>2 DEF WorkerJoined, queue, pre, infer, post, Apart, InferQueued, PostQueued, InferBusy, AfterInfer, Unsettled, Pending
<1>6. Promises'
    BY <1>1, <1>2 DEF WorkerJoined, queue, pre, infer, post, Promises, Batches, Types, InferQueued, PostQueued, InferBusy, AfterInfer, Unsettled, Pending
<1>7. Buffers'
    BY <1>1, <1>2 DEF WorkerJoined, queue, pre, infer, post, Buffers, Apart, InferQueued, PostQueued, InferBusy, AfterInfer, Unsettled, Pending
<1>8. Tasks'
    BY <1>1, <1>2 DEF WorkerJoined, queue, pre, infer, post, Tasks, Apart, Types, InferQueued, PostQueued, InferBusy, AfterInfer, Unsettled, Pending
<1>9. Data'
    BY <1>1, <1>2 DEF WorkerJoined, queue, pre, infer, post, Data, OwnRows
<1>10. Staff'
    BY <1>1, <1>2 DEF WorkerJoined, queue, pre, infer, post, Staff, InferBusy
<1>12. Closing'
    BY <1>1, <1>2, BatchAssumption DEF WorkerJoined, queue, pre, infer, post, Closing, isClose, BatchReady
<1> QED BY <1>3, <1>4, <1>5, <1>6, <1>7, <1>8, <1>9, <1>10, <1>12

\* A pre worker takes the first task.
LEMMA PreTakeInv ==
    ASSUME Inv, PreTake
    PROVE  Inv'
<1> USE DEF Inv, inBufs, outBufs
<1>1. Formed' = Formed /\ Holding' = Holding
    BY DEF PreTake, queue, Formed, Holding
<1>2. /\ preQ' \in Seq(Requests) /\ Distinct(preQ') /\ Head(preQ) \in Items(preQ) /\ Head(preQ) \in Requests
      /\ Items(preQ') = Items(preQ) \ {Head(preQ)} /\ Len(preQ') = Len(preQ) - 1 /\ Len(preQ) \in Nat \ {0}
  <2>1. preQ \in Seq(Requests) /\ preQ # <<>> /\ preQ' = Dequeued(preQ)
        /\ \A i, k \in DOMAIN preQ : preQ[i] = preQ[k] => i = k
    BY DEF PreTake, Dequeued, Types, Apart, Tasks, Distinct
  <2>2. /\ Head(preQ) \in Requests /\ Head(preQ) \in Items(preQ)
        /\ preQ' \in Seq(Requests) /\ Len(preQ) \in Nat \ {0} /\ Len(preQ') = Len(preQ) - 1
        /\ Items(preQ') = Items(preQ) \ {Head(preQ)}
    BY <2>1, PopDistinct
  <2>3. \A i, k \in DOMAIN preQ' : preQ'[i] = preQ'[k] => i = k
    BY <2>1, PopDistinct
  <2> QED BY <2>2, <2>3 DEF Distinct
<1>3. Pending' = Pending /\ preRunning' = preRunning \union {Head(preQ)}
    BY <1>2 DEF PreTake, Pending
<1>4. Types'
    BY <1>1, <1>2, <1>3, BoundAssumption DEF PreTake, queue, pre, infer, post, Types, InferQueued, PostQueued, InferBusy, AfterInfer, Unsettled, Pending
<1>5. Batches'
    BY <1>1, <1>2, <1>3 DEF PreTake, queue, pre, infer, post, Batches
<1>6. Apart'
    BY <1>1, <1>2, <1>3 DEF PreTake, queue, pre, infer, post, Apart, InferQueued, PostQueued, InferBusy, AfterInfer, Unsettled, Pending
<1>7. Promises'
    BY <1>1, <1>2, <1>3 DEF PreTake, queue, pre, infer, post, Promises, Batches, Types, InferQueued, PostQueued, InferBusy, AfterInfer, Unsettled, Pending
<1>8. Buffers'
    BY <1>1, <1>2, <1>3 DEF PreTake, queue, pre, infer, post, Buffers, Apart, InferQueued, PostQueued, InferBusy, AfterInfer, Unsettled, Pending
<1>9. Tasks'
    BY <1>1, <1>2, <1>3 DEF PreTake, queue, pre, infer, post, Tasks, Apart, Types, InferQueued, PostQueued, InferBusy, AfterInfer, Unsettled, Pending
<1>10. Data'
    BY <1>1, <1>2, <1>3 DEF PreTake, queue, pre, infer, post, Data, OwnRows
<1>11. Staff'
    BY <1>1, <1>2, <1>3 DEF PreTake, queue, pre, infer, post, Staff, InferBusy
<1>13. Closing'
    BY <1>1, <1>2, <1>3 DEF PreTake, queue, pre, infer, post, Closing, isClose
<1> QED BY <1>4, <1>5, <1>6, <1>7, <1>8, <1>9, <1>10, <1>11, <1>13

\* preprocess writes the row of its image.
LEMMA PreExecuteInv ==
    ASSUME Inv, NEW r \in Requests, PreExecute(r)
    PROVE  Inv'
<1> USE DEF Inv, inBufs, outBufs
<1>1. Formed' = Formed /\ Holding' = Holding
    BY DEF PreExecute, queue, Formed, Holding
<1>2. Pending' = Pending \ {r} /\ r \in Pending
    BY DEF PreExecute, Pending, Tasks
<1>3. \E k \in Holding : \E i \in DOMAIN batches[k].reqs :
        /\ batches[k].reqs[i] = r /\ i \in Rows /\ batches[k].buf \in InputBuffers
        /\ \E b \in InputBuffers : content' = [content EXCEPT ![b][i] = r]
        /\ ~strayed' => ~strayed /\ content' = [content EXCEPT ![batches[k].buf][i] = r]
  <2>1. PICK k \in Formed : r \in Items(batches[k].reqs)
    BY <1>2 DEF Tasks
  <2>2. PICK i \in DOMAIN batches[k].reqs : batches[k].reqs[i] = r
    BY <2>1 DEF Items
  <2>3. k \in Holding
    BY <1>2, <2>1 DEF Tasks
  <2>4. BatchOf(r) = k /\ RowOf(r) = i
    BY <2>2, PlaceOf
  <2>5. i \in Rows /\ batches[k].buf \in InputBuffers
    BY <2>2, RowInRange
  <2>6. ~strayed' => ~strayed /\ TensorBufferAlive(k)
    BY <2>4 DEF PreExecute
  <2>7. PICK b \in InputBuffers :
          /\ TensorBufferAlive(k) => b = batches[k].buf
          /\ content' = [content EXCEPT ![b][i] = r]
    BY <2>4 DEF PreExecute
  <2> QED BY <2>2, <2>3, <2>5, <2>6, <2>7
<1>14. content' \in [InputBuffers -> [Rows -> Requests \union {None}]]
  <2>1. PICK b \in InputBuffers, i \in Rows : content' = [content EXCEPT ![b][i] = r]
    BY <1>3
  <2> QED BY <2>1 DEF Types
<1>4. Types'
    BY <1>1, <1>2, <1>14, BoundAssumption DEF PreExecute, queue, pre, infer, post, Types, InferQueued, PostQueued, InferBusy, AfterInfer, Unsettled, Pending
<1>5. Batches'
    BY <1>1, <1>2, <1>3 DEF PreExecute, queue, pre, infer, post, Batches
<1>6. Apart'
    BY <1>1, <1>2, <1>3 DEF PreExecute, queue, pre, infer, post, Apart, InferQueued, PostQueued, InferBusy, AfterInfer, Unsettled, Pending
<1>7. Promises'
    BY <1>1, <1>2, <1>3 DEF PreExecute, queue, pre, infer, post, Promises, Batches, Types, InferQueued, PostQueued, InferBusy, AfterInfer, Unsettled, Pending
<1>8. Buffers'
    BY <1>1, <1>2, <1>3 DEF PreExecute, queue, pre, infer, post, Buffers, Apart, InferQueued, PostQueued, InferBusy, AfterInfer, Unsettled, Pending
<1>9. Tasks'
  <2>1. preFuture' = [preFuture EXCEPT ![r] = "done"] /\ batches' = batches
    BY DEF PreExecute, queue
  <2>2. \E k \in Formed : r \in Items(batches[k].reqs)
    BY <1>2 DEF Tasks
  <2>3. /\ preFuture'[r] = "done" /\ preFuture[r] = "empty"
        /\ \A s \in Requests : s # r => preFuture'[s] = preFuture[s]
    BY <1>2, <2>1 DEF Types, Tasks
  <2>4. \A k \in Formed : \A s \in Items(batches[k].reqs) : s \in Requests
    BY MemberIsRequest
  <2>5. Pending \subseteq Requests
    BY PendingRequests
  <2> QED BY <1>1, <1>2, <1>3, <2>1, <2>2, <2>3, <2>4, <2>5, HoldingFormed DEF PreExecute, infer, Tasks, InferQueued, InferBusy
<1>10. Data'
  <2> SUFFICES ASSUME ~strayed' PROVE OwnRows'
    BY DEF Data
  <2>0. OwnRows
    BY <1>3 DEF Data
  <2>1. PICK k \in Holding : \E i \in DOMAIN batches[k].reqs :
          /\ batches[k].reqs[i] = r /\ i \in Rows /\ batches[k].buf \in InputBuffers
          /\ ~strayed /\ content' = [content EXCEPT ![batches[k].buf][i] = r]
    BY <1>3
  <2>2. PICK i \in DOMAIN batches[k].reqs :
          /\ batches[k].reqs[i] = r /\ i \in Rows /\ batches[k].buf \in InputBuffers
          /\ ~strayed /\ content' = [content EXCEPT ![batches[k].buf][i] = r]
    BY <2>1
  <2>3. /\ content'[batches[k].buf][i] = r
        /\ \A j \in Rows \ {i} : content'[batches[k].buf][j] = content[batches[k].buf][j]
        /\ \A b \in InputBuffers \ {batches[k].buf} : content'[b] = content[b]
    BY <2>2 DEF Types
  <2>4. batches' = batches /\ result' = result /\ preFuture' = [preFuture EXCEPT ![r] = "done"]
    BY DEF PreExecute, queue
  <2>5. ASSUME NEW l \in Holding, NEW j \in DOMAIN batches[l].reqs, preFuture'[batches[l].reqs[j]] = "done"
        PROVE  content'[batches[l].buf][j] = batches[l].reqs[j]
    <3>1. batches[l].reqs[j] \in Requests /\ j \in Rows /\ batches[l].buf \in InputBuffers
      BY RowInRange, HoldingFormed
    <3>2. CASE l = k /\ j = i
      BY <2>2, <2>3, <3>2
    <3>3. CASE l = k /\ j # i
      <4>1. batches[l].reqs[j] # r
        BY <2>2, <3>3, HoldingFormed DEF Batches, Distinct
      <4>2. content[batches[l].buf][j] = batches[l].reqs[j]
        BY <2>0, <2>4, <2>5, <3>1, <4>1 DEF OwnRows, Types
      <4> QED BY <2>3, <3>1, <3>3, <4>2
    <3>4. CASE l # k
      <4>1. batches[l].buf # batches[k].buf
        BY <3>4 DEF Buffers
      <4>2. batches[l].reqs[j] # r
        <5>1. batches[l].reqs[j] \in Items(batches[l].reqs) /\ r \in Items(batches[k].reqs)
          BY <2>2 DEF Items
        <5> QED BY <3>4, <5>1, HoldingFormed DEF Batches
      <4>3. content[batches[l].buf][j] = batches[l].reqs[j]
        BY <2>0, <2>4, <2>5, <3>1, <4>2 DEF OwnRows, Types
      <4> QED BY <2>3, <3>1, <4>1, <4>3
    <3> QED BY <3>2, <3>3, <3>4
  <2> QED BY <1>1, <2>0, <2>4, <2>5 DEF OwnRows
<1>11. Staff'
    BY <1>1, <1>2, <1>3 DEF PreExecute, queue, pre, infer, post, Staff, InferBusy
<1>13. Closing'
    BY <1>1, <1>2, <1>3 DEF PreExecute, queue, pre, infer, post, Closing, isClose
<1> QED BY <1>4, <1>5, <1>6, <1>7, <1>8, <1>9, <1>10, <1>11, <1>13

\* preprocess throws, and the future has it.
LEMMA PreThrowInv ==
    ASSUME Inv, NEW r \in Requests, PreThrow(r)
    PROVE  Inv'
<1> USE DEF Inv, inBufs, outBufs
<1>1. Formed' = Formed /\ Holding' = Holding
    BY DEF PreThrow, queue, Formed, Holding
<1>2. Pending' = Pending \ {r} /\ r \in Pending
    BY DEF PreThrow, Pending, Tasks
<1>3. Types'
    BY <1>1, <1>2, BoundAssumption DEF PreThrow, queue, pre, infer, post, Types, InferQueued, PostQueued, InferBusy, AfterInfer, Unsettled, Pending
<1>4. Batches'
    BY <1>1, <1>2 DEF PreThrow, queue, pre, infer, post, Batches
<1>5. Apart'
    BY <1>1, <1>2 DEF PreThrow, queue, pre, infer, post, Apart, InferQueued, PostQueued, InferBusy, AfterInfer, Unsettled, Pending
<1>6. Promises'
    BY <1>1, <1>2 DEF PreThrow, queue, pre, infer, post, Promises, Batches, Types, InferQueued, PostQueued, InferBusy, AfterInfer, Unsettled, Pending
<1>7. Buffers'
    BY <1>1, <1>2 DEF PreThrow, queue, pre, infer, post, Buffers, Apart, InferQueued, PostQueued, InferBusy, AfterInfer, Unsettled, Pending
<1>8. Tasks'
  <2>1. preFuture' = [preFuture EXCEPT ![r] = "exception"] /\ batches' = batches
    BY DEF PreThrow, queue
  <2>2. \E k \in Formed : r \in Items(batches[k].reqs)
    BY <1>2 DEF Tasks
  <2>3. /\ preFuture'[r] = "exception" /\ preFuture[r] = "empty"
        /\ \A s \in Requests : s # r => preFuture'[s] = preFuture[s]
    BY <1>2, <2>1 DEF Types, Tasks
  <2>4. \A k \in Formed : \A s \in Items(batches[k].reqs) : s \in Requests
    BY MemberIsRequest
  <2>5. Pending \subseteq Requests
    BY PendingRequests
  <2> QED BY <1>1, <1>2, <2>1, <2>2, <2>3, <2>4, <2>5, HoldingFormed DEF PreThrow, infer, Tasks, InferQueued, InferBusy
<1>9. Data'
  <2>1. \A s \in Requests : preFuture'[s] = "done" => preFuture[s] = "done"
    BY DEF PreThrow, Types
  <2> QED BY <1>1, <2>1, RowInRange, HoldingFormed DEF PreThrow, queue, Data, OwnRows
<1>10. Staff'
    BY <1>1, <1>2 DEF PreThrow, queue, pre, infer, post, Staff, InferBusy
<1>12. Closing'
    BY <1>1, <1>2 DEF PreThrow, queue, pre, infer, post, Closing, isClose
<1> QED BY <1>3, <1>4, <1>5, <1>6, <1>7, <1>8, <1>9, <1>10, <1>12

\* An infer worker takes the first batch.
LEMMA InferTakeInv ==
    ASSUME Inv, InferTake
    PROVE  Inv'
<1> USE DEF Inv, inBufs, outBufs
<1>1. Formed' = Formed /\ Holding' = Holding
    BY DEF InferTake, queue, Formed, Holding
<1>2. /\ inferQ' \in Seq(Nat) /\ Distinct(inferQ') /\ Head(inferQ) \in Items(inferQ) /\ Head(inferQ) \in Nat
      /\ Items(inferQ') = Items(inferQ) \ {Head(inferQ)} /\ Len(inferQ') = Len(inferQ) - 1 /\ Len(inferQ) \in Nat \ {0}
  <2>1. inferQ \in Seq(Nat) /\ inferQ # <<>> /\ inferQ' = Dequeued(inferQ)
        /\ \A i, k \in DOMAIN inferQ : inferQ[i] = inferQ[k] => i = k
    BY DEF InferTake, Dequeued, Types, Apart, Tasks, Distinct
  <2>2. /\ Head(inferQ) \in Nat /\ Head(inferQ) \in Items(inferQ)
        /\ inferQ' \in Seq(Nat) /\ Len(inferQ) \in Nat \ {0} /\ Len(inferQ') = Len(inferQ) - 1
        /\ Items(inferQ') = Items(inferQ) \ {Head(inferQ)}
    BY <2>1, PopDistinct
  <2>3. \A i, k \in DOMAIN inferQ' : inferQ'[i] = inferQ'[k] => i = k
    BY <2>1, PopDistinct
  <2> QED BY <2>2, <2>3 DEF Distinct
<1>3. Head(inferQ) \notin InferBusy \union inferKept \union AfterInfer
    BY <1>2 DEF Apart, InferQueued
<1>4. Staffed(InferBusy', inferKept') /\ inferKept' \subseteq inferKept
  <2>1. PICK dying \in Idle(InferBusy, inferKept) : inferKept' = inferKept \ dying
    BY DEF InferTake, InferBusy
  <2>2. InferBusy' = InferBusy \union {Head(inferQ)}
    BY DEF InferTake, InferBusy
  <2> QED BY <1>3, <2>1, <2>2, WorkerTakes DEF Staff
<1>5. Types'
    BY <1>1, <1>2, <1>3, <1>4, BoundAssumption DEF InferTake, queue, pre, infer, post, Types, InferQueued, PostQueued, InferBusy, AfterInfer, Unsettled, Pending
<1>6. Batches'
    BY <1>1, <1>2, <1>3, <1>4 DEF InferTake, queue, pre, infer, post, Batches
<1>7. Apart'
    BY <1>1, <1>2, <1>3, <1>4 DEF InferTake, queue, pre, infer, post, Apart, InferQueued, PostQueued, InferBusy, AfterInfer, Unsettled, Pending
<1>8. Promises'
    BY <1>1, <1>2, <1>3, <1>4 DEF InferTake, queue, pre, infer, post, Promises, Batches, Types, InferQueued, PostQueued, InferBusy, AfterInfer, Unsettled, Pending
<1>9. Buffers'
    BY <1>1, <1>2, <1>3, <1>4 DEF InferTake, queue, pre, infer, post, Buffers, Apart, InferQueued, PostQueued, InferBusy, AfterInfer, Unsettled, Pending
<1>10. Tasks'
    BY <1>1, <1>2, <1>3, <1>4 DEF InferTake, queue, pre, infer, post, Tasks, Apart, Types, InferQueued, PostQueued, InferBusy, AfterInfer, Unsettled, Pending
<1>11. Data'
    BY <1>1, <1>2, <1>3, <1>4 DEF InferTake, queue, pre, infer, post, Data, OwnRows
<1>12. Staff'
    BY <1>1, <1>2, <1>3, <1>4 DEF InferTake, queue, pre, infer, post, Staff, InferBusy
<1>14. Closing'
    BY <1>1, <1>2, <1>3, <1>4 DEF InferTake, queue, pre, infer, post, Closing, isClose
<1> QED BY <1>5, <1>6, <1>7, <1>8, <1>9, <1>10, <1>11, <1>12, <1>14

\* A row has failed: the promises of the batch hear of it.
LEMMA InferPreFailedInv ==
    ASSUME Inv, NEW k \in Formed, InferPreFailed(k)
    PROVE  Inv'
<1> USE DEF Inv, inBufs, outBufs
<1>1. Formed' = Formed /\ Holding' = Holding
    BY DEF InferPreFailed, queue, Formed, Holding
<1>2. /\ \A s \in Items(batches[k].reqs) : s \in Requests /\ outcome[s] = "pending"
      /\ \A l \in Formed : l # k => \A s \in Items(batches[l].reqs) : s \notin Items(batches[k].reqs)
    BY MemberIsRequest DEF InferPreFailed, Promises, Batches, InferQueued, PostQueued, InferBusy, AfterInfer, Unsettled, Pending
<1>3. outcome' = [s \in Requests |-> IF s \in Items(batches[k].reqs) THEN "exception" ELSE outcome[s]]
    BY MembersAre DEF InferPreFailed, SettleAll
<1>4. Staffed(InferBusy', inferKept')
  <2>1. InferBusy' = InferBusy \ {k} /\ inferKept' = inferKept \union {k} /\ k \in InferBusy /\ k \notin inferKept
    BY DEF InferPreFailed, InferBusy, Apart
  <2> QED BY <2>1, WorkerKeeps DEF Staff
<1>5. \E s \in Items(batches[k].reqs) : preFuture[s] = "exception"
    BY DEF InferPreFailed, Items
<1>6. Types'
    BY <1>1, <1>2, <1>3, <1>4, <1>5, BoundAssumption DEF InferPreFailed, queue, pre, infer, post, Types, InferQueued, PostQueued, InferBusy, AfterInfer, Unsettled, Pending
<1>7. Batches'
    BY <1>1, <1>2, <1>3, <1>4, <1>5 DEF InferPreFailed, queue, pre, infer, post, Batches
<1>8. Apart'
    BY <1>1, <1>2, <1>3, <1>4, <1>5 DEF InferPreFailed, queue, pre, infer, post, Apart, InferQueued, PostQueued, InferBusy, AfterInfer, Unsettled, Pending
<1>9. Promises'
  <2>1. k \in Unsettled /\ Unsettled' \subseteq Unsettled \ {k}
    BY DEF InferPreFailed, infer, post, Apart, InferQueued, PostQueued, InferBusy, AfterInfer, Unsettled, Pending
  <2>2. UNCHANGED <<inputs, batches, life>> /\ Formed \ Holding \subseteq Formed' \ Holding'
    BY <1>1 DEF InferPreFailed, queue
  <2> QED BY <1>3, <2>1, <2>2, SettledPromises
<1>10. Buffers'
    BY <1>1, <1>2, <1>3, <1>4, <1>5 DEF InferPreFailed, queue, pre, infer, post, Buffers, Apart, InferQueued, PostQueued, InferBusy, AfterInfer, Unsettled, Pending
<1>11. Tasks'
    BY <1>1, <1>2, <1>3, <1>4, <1>5, ZenonT(30) DEF InferPreFailed, queue, pre, infer, post, Tasks, Apart, Types, InferQueued, PostQueued, InferBusy, AfterInfer, Unsettled, Pending
<1>12. Data'
    BY <1>1, <1>2, <1>3, <1>4, <1>5 DEF InferPreFailed, queue, pre, infer, post, Data, OwnRows
<1>13. Staff'
    BY <1>1, <1>2, <1>3, <1>4, <1>5 DEF InferPreFailed, queue, pre, infer, post, Staff, InferBusy
<1>15. Closing'
    BY <1>1, <1>2, <1>3, <1>4, <1>5 DEF InferPreFailed, queue, pre, infer, post, Closing, isClose
<1> QED BY <1>6, <1>7, <1>8, <1>9, <1>10, <1>11, <1>12, <1>13, <1>15

\* infer takes an output buffer: every row is there.
LEMMA InferAcquireInv ==
    ASSUME Inv, NEW k \in Formed, InferAcquire(k)
    PROVE  Inv'
<1> USE DEF Inv, inBufs, outBufs
<1>1. Formed' = Formed /\ Holding' = Holding
    BY DEF InferAcquire, queue, Formed, Holding
<1>2. InferBusy' = InferBusy
    BY DEF InferAcquire, InferBusy
<1>3. \A s \in Items(batches[k].reqs) : preFuture[s] = "done"
    BY MembersAre DEF InferAcquire, Preprocessed
<1>6. Types'
    BY <1>1, <1>2, <1>3, BoundAssumption DEF InferAcquire, queue, pre, infer, post, Types, InferQueued, PostQueued, InferBusy, AfterInfer, Unsettled, Pending
<1>7. Batches'
    BY <1>1, <1>2, <1>3 DEF InferAcquire, queue, pre, infer, post, Batches
<1>8. Apart'
    BY <1>1, <1>2, <1>3 DEF InferAcquire, queue, pre, infer, post, Apart, InferQueued, PostQueued, InferBusy, AfterInfer, Unsettled, Pending
<1>9. Promises'
    BY <1>1, <1>2, <1>3 DEF InferAcquire, queue, pre, infer, post, Promises, Batches, Types, InferQueued, PostQueued, InferBusy, AfterInfer, Unsettled, Pending
<1>10. Buffers'
    BY <1>1, <1>2, <1>3 DEF InferAcquire, queue, pre, infer, post, Buffers, Apart, InferQueued, PostQueued, InferBusy, AfterInfer, Unsettled, Pending
<1>11. Tasks'
    BY <1>1, <1>2, <1>3, ZenonT(30) DEF InferAcquire, queue, pre, infer, post, Tasks, Apart, Types, InferQueued, PostQueued, InferBusy, AfterInfer, Unsettled, Pending
<1>12. Data'
    BY <1>1, <1>2, <1>3 DEF InferAcquire, queue, pre, infer, post, Data, OwnRows
<1>13. Staff'
    BY <1>1, <1>2, <1>3 DEF InferAcquire, queue, pre, infer, post, Staff, InferBusy
<1>15. Closing'
    BY <1>1, <1>2, <1>3 DEF InferAcquire, queue, pre, infer, post, Closing, isClose
<1> QED BY <1>6, <1>7, <1>8, <1>9, <1>10, <1>11, <1>12, <1>13, <1>15

\* Run throws: the promises of the batch hear of it.
LEMMA InferThrowInv ==
    ASSUME Inv, NEW k \in Formed, InferThrow(k)
    PROVE  Inv'
<1> USE DEF Inv, inBufs, outBufs
<1>1. Formed' = Formed /\ Holding' = Holding
    BY DEF InferThrow, queue, Formed, Holding
<1>2. /\ \A s \in Items(batches[k].reqs) : s \in Requests /\ outcome[s] = "pending"
      /\ \A l \in Formed : l # k => \A s \in Items(batches[l].reqs) : s \notin Items(batches[k].reqs)
    BY MemberIsRequest DEF InferThrow, Promises, Batches, InferQueued, PostQueued, InferBusy, AfterInfer, Unsettled, Pending
<1>3. outcome' = [s \in Requests |-> IF s \in Items(batches[k].reqs) THEN "exception" ELSE outcome[s]]
    BY MembersAre DEF InferThrow, SettleAll
<1>4. Staffed(InferBusy', inferKept')
  <2>1. InferBusy' = InferBusy \ {k} /\ inferKept' = inferKept \union {k} /\ k \in InferBusy /\ k \notin inferKept
    BY DEF InferThrow, InferBusy, Apart
  <2> QED BY <2>1, WorkerKeeps DEF Staff
<1>7. Types'
    BY <1>1, <1>2, <1>3, <1>4, BoundAssumption DEF InferThrow, queue, pre, infer, post, Types, InferQueued, PostQueued, InferBusy, AfterInfer, Unsettled, Pending
<1>8. Batches'
    BY <1>1, <1>2, <1>3, <1>4 DEF InferThrow, queue, pre, infer, post, Batches
<1>9. Apart'
    BY <1>1, <1>2, <1>3, <1>4 DEF InferThrow, queue, pre, infer, post, Apart, InferQueued, PostQueued, InferBusy, AfterInfer, Unsettled, Pending
<1>10. Promises'
  <2>1. k \in Unsettled /\ Unsettled' \subseteq Unsettled \ {k}
    BY DEF InferThrow, infer, post, Apart, InferQueued, PostQueued, InferBusy, AfterInfer, Unsettled, Pending
  <2>2. UNCHANGED <<inputs, batches, life>> /\ Formed \ Holding \subseteq Formed' \ Holding'
    BY <1>1 DEF InferThrow, queue
  <2> QED BY <1>3, <2>1, <2>2, SettledPromises
<1>11. Buffers'
    BY <1>1, <1>2, <1>3, <1>4 DEF InferThrow, queue, pre, infer, post, Buffers, Apart, InferQueued, PostQueued, InferBusy, AfterInfer, Unsettled, Pending
<1>12. Tasks'
    BY <1>1, <1>2, <1>3, <1>4 DEF InferThrow, queue, pre, infer, post, Tasks, Apart, Types, InferQueued, PostQueued, InferBusy, AfterInfer, Unsettled, Pending
<1>13. Data'
    BY <1>1, <1>2, <1>3, <1>4 DEF InferThrow, queue, pre, infer, post, Data, OwnRows
<1>14. Staff'
    BY <1>1, <1>2, <1>3, <1>4 DEF InferThrow, queue, pre, infer, post, Staff, InferBusy
<1>16. Closing'
    BY <1>1, <1>2, <1>3, <1>4 DEF InferThrow, queue, pre, infer, post, Closing, isClose
<1> QED BY <1>7, <1>8, <1>9, <1>10, <1>11, <1>12, <1>13, <1>14, <1>16

\* Run returns: the batch goes on, and its input buffer goes back.
LEMMA InferRunInv ==
    ASSUME Inv, NEW k \in Formed, InferRun(k)
    PROVE  Inv'
<1> USE DEF Inv, inBufs, outBufs
<1>1. /\ Formed' = Formed /\ batches' = batches /\ Holding' = Holding \ {k} /\ k \in Holding
      /\ result'[k] = content[batches[k].buf] /\ \A l \in Formed \ {k} : result'[l] = result[l]
  <2>1. k \in Holding /\ k \in DOMAIN result /\ batches[k].buf \in InputBuffers /\ DOMAIN result = Formed
    BY RowInRange, LenProperties DEF InferRun, Buffers, InferBusy, Types, Formed
  <2>2. /\ result'[k] = content[batches[k].buf] /\ \A l \in Formed \ {k} : result'[l] = result[l]
        /\ batches' = batches
    BY <2>1 DEF InferRun, queue
  <2>3. content[batches[k].buf] # <<>>
    BY <2>1, BatchAssumption DEF Types, Rows
  <2> QED BY <2>1, <2>2, <2>3 DEF Formed, Holding
<1>2. /\ \A s \in Items(batches[k].reqs) : s \in Requests /\ outcome[s] = "pending"
      /\ \A l \in Formed : l # k => \A s \in Items(batches[l].reqs) : s \notin Items(batches[k].reqs)
    BY MemberIsRequest DEF InferRun, Promises, Batches, InferQueued, PostQueued, InferBusy, AfterInfer, Unsettled, Pending
<1>3. \A s \in Items(batches[k].reqs) : preFuture[s] = "done"
    BY DEF InferRun, Tasks
<1>4. Staffed(InferBusy', inferKept')
  <2>1. InferBusy' = InferBusy \ {k} /\ inferKept' = inferKept \union {k} /\ k \in InferBusy /\ k \notin inferKept
    BY DEF InferRun, InferBusy, Apart
  <2> QED BY <2>1, WorkerKeeps DEF Staff
<1>5. /\ IsFiniteSet(running) /\ IsFiniteSet(posting) /\ IsFiniteSet(postKept)
      /\ Cardinality(running) \in Nat /\ Cardinality(posting) \in Nat /\ Cardinality(postKept) \in Nat
      /\ Len(postQ) \in Nat
    BY FS_Subset, FS_CardinalityType, LenProperties DEF Staff, Staffed, InferBusy, Types
<1>7. /\ postQ' \in Seq(Nat) /\ Distinct(postQ') /\ PostQueued' \subseteq PostQueued \union {k}
  <2>1. k \in Nat /\ k \notin PostQueued /\ postQ \in Seq(Nat)
    BY FormedNat DEF InferRun, Apart, InferBusy, AfterInfer, Types
  <2>2. CASE life \in {"alive", "closing"}
    <3>1. postQ' = Append(postQ, k)
      BY <2>2 DEF InferRun
    <3>2. \A i, j \in DOMAIN postQ : postQ[i] = postQ[j] => i = j
      BY DEF Apart, Distinct
    <3>3. postQ' \in Seq(Nat) /\ Items(postQ') = Items(postQ) \union {k}
          /\ \A i, j \in DOMAIN postQ' : postQ'[i] = postQ'[j] => i = j
      BY <2>1, <3>1, <3>2, PushItems DEF PostQueued
    <3>4. Distinct(postQ') /\ PostQueued' = PostQueued \union {k}
      BY <3>3 DEF Distinct, PostQueued
    <3> QED BY <3>3, <3>4
  <2>3. CASE life \notin {"alive", "closing"}
    <3>1. postQ' = postQ
      BY <2>3 DEF InferRun
    <3> QED BY <2>1, <3>1 DEF PostQueued, Apart
  <2> QED BY <2>2, <2>3
<1>8. /\ inFree' \in Seq(InputBuffers) /\ Distinct(inFree')
      /\ Items(inFree') = Items(inFree) \union {batches[k].buf}
  <2>1. /\ inFree' = Append(inFree, batches[k].buf) /\ inFree \in Seq(InputBuffers)
        /\ batches[k].buf \in InputBuffers /\ batches[k].buf \notin Items(inFree)
        /\ \A i, j \in DOMAIN inFree : inFree[i] = inFree[j] => i = j
    BY <1>1, RowInRange DEF InferRun, Types, Buffers, Distinct
  <2>2. /\ inFree' \in Seq(InputBuffers) /\ Items(inFree') = Items(inFree) \union {batches[k].buf}
        /\ \A i, j \in DOMAIN inFree' : inFree'[i] = inFree'[j] => i = j
    BY <2>1, PushItems
  <2> QED BY <2>2 DEF Distinct
<1>9. Types'
  <2>1. content[batches[k].buf] \in Seen
    BY RowInRange DEF Types, Seen
  <2>2. result \in [1 .. Len(result) -> Seen] /\ Len(result) \in Nat
    BY DEF Types
  <2>3. result' = [result EXCEPT ![k] = content[batches[k].buf]]
    BY DEF InferRun
  <2>4. result' \in [1 .. Len(result) -> Seen]
    BY <2>1, <2>2, <2>3
  <2>5. result' \in Seq(Seen) /\ Len(result') = Len(result)
    BY <2>2, <2>4
  <2>6. Len(result') = Len(batches')
    BY <1>1, <2>5 DEF Types
  <2>7. outcome' \in [Requests -> {"none", "pending", "value", "exception", "broken"}]
    BY DEF InferRun, SettleAll, Types
  <2>8. (InferQueued \union InferBusy \union inferKept \union AfterInfer)' \subseteq Formed'
    <3>1. /\ inferQ' = inferQ /\ waiting' = waiting /\ running' = running \ {k}
          /\ inferKept' = inferKept \union {k} /\ posting' = posting /\ postKept' = postKept
      BY DEF InferRun
    <3>2. k \in Formed /\ PostQueued' \subseteq PostQueued \union {k}
      BY <1>7
    <3>3. InferQueued \union InferBusy \union inferKept \union AfterInfer \subseteq Formed
      BY DEF Types
    <3>4. InferQueued' = InferQueued /\ InferBusy' \subseteq InferBusy
          /\ AfterInfer' = PostQueued' \union posting' \union postKept'
      BY <3>1 DEF InferQueued, InferBusy, AfterInfer
    <3>5. AfterInfer' \subseteq AfterInfer \union {k}
      BY <3>1, <3>2, <3>4 DEF AfterInfer
    <3> QED BY <1>1, <3>1, <3>2, <3>3, <3>4, <3>5
  <2>9. /\ UNCHANGED <<inputs, preQ, batches, workerPc, preRunning, preFuture, inferQ, content>>
        /\ UNCHANGED <<failures, life>>
    BY DEF InferRun, queue, pre
  <2> QED BY <1>7, <1>8, <2>5, <2>6, <2>7, <2>8, <2>9 DEF Types
<1>10. Batches'
    BY <1>1, <1>2, <1>3, <1>4, <1>5, <1>7, <1>8 DEF InferRun, queue, pre, infer, post, Batches
<1>11. Apart'
    BY <1>1, <1>2, <1>3, <1>4, <1>5, <1>7, <1>8 DEF InferRun, queue, pre, infer, post, Apart, InferQueued, PostQueued, InferBusy, AfterInfer, Unsettled, Pending
<1>12. Promises'
  <2>1. \A l \in Unsettled' : l \in Unsettled \ {k} \/ (l = k /\ life \in {"alive", "closing"})
    <3>1. CASE life \in {"alive", "closing"}
      BY <1>7, <3>1 DEF InferRun, Unsettled, InferQueued, InferBusy
    <3>2. CASE life \notin {"alive", "closing"}
      BY <3>2 DEF InferRun, Unsettled, InferQueued, PostQueued, InferBusy, AfterInfer, Apart
    <3> QED BY <3>1, <3>2
  <2>2. CASE life \in {"alive", "closing"}
    <3>1. UNCHANGED <<outcome, inputs, life>>
      BY <2>2 DEF InferRun, queue
    <3>2. Unsettled' \subseteq Unsettled
      BY <2>1 DEF InferRun, Unsettled, InferBusy
    <3>3. Formed \ Holding \subseteq Formed' \ Holding'
      BY <1>1
    <3> QED BY <1>1, <3>1, <3>2, <3>3 DEF Promises
  <2>3. CASE life \notin {"alive", "closing"}
    <3>1. outcome' = [s \in Requests |-> IF s \in Items(batches[k].reqs) THEN "broken" ELSE outcome[s]]
          /\ UNCHANGED <<inputs, life>>
      BY <2>3, MembersAre DEF InferRun, SettleAll, queue
    <3>2. Unsettled' \subseteq Unsettled \ {k} /\ Unsettled \subseteq Formed
      BY <2>1, <2>3 DEF Types, Unsettled, AfterInfer
    <3>3. Items(inputs) \intersect Items(batches[k].reqs) = {} /\ Items(inputs) \subseteq Requests
      BY QueuedRequests DEF Batches
    <3> QED BY <1>1, <1>2, <3>1, <3>2, <3>3, MemberIsRequest DEF Promises
  <2> QED BY <2>2, <2>3
<1>13. Buffers'
    BY <1>1, <1>2, <1>3, <1>4, <1>5, <1>7, <1>8 DEF InferRun, queue, pre, infer, post, Buffers, Apart, InferQueued, PostQueued, InferBusy, AfterInfer, Unsettled, Pending
<1>14. Tasks'
  <2>1. /\ preQ' = preQ /\ preRunning' = preRunning /\ preFuture' = preFuture /\ batches' = batches
        /\ InferQueued' = InferQueued /\ InferBusy' = InferBusy \ {k} /\ running' = running \ {k} /\ Pending' = Pending
    BY DEF InferRun, pre, queue, InferQueued, InferBusy, Pending, Apart
  <2>2. \A l \in Formed' :
          l \in running' \/ l \notin Holding' => \A r \in Items(batches'[l].reqs) : preFuture'[r] = "done"
    BY <1>1, <1>3, <2>1 DEF Tasks
  <2>3. \A l \in Holding' :
          \/ l \in InferQueued' \union InferBusy'
          \/ \E r \in Items(batches'[l].reqs) : preFuture'[r] = "exception"
          \/ \A r \in Items(batches'[l].reqs) : preFuture'[r] = "done"
    BY <1>1, <2>1 DEF Tasks
  <2> QED BY <1>1, <2>1, <2>2, <2>3 DEF Tasks
<1>15. Data'
  <2> SUFFICES ASSUME ~strayed' PROVE OwnRows'
    BY DEF Data
  <2>0. OwnRows
    BY DEF Data, InferRun
  <2>1. \A i \in DOMAIN batches[k].reqs : result'[k][i] = batches[k].reqs[i]
    <3>1. \A i \in DOMAIN batches[k].reqs : batches[k].reqs[i] \in Items(batches[k].reqs)
      BY DEF Items
    <3> QED BY <1>1, <1>3, <2>0, <3>1 DEF OwnRows
  <2> QED BY <1>1, <2>0, <2>1 DEF InferRun, pre, OwnRows
<1>16. Staff'
    BY <1>1, <1>2, <1>3, <1>4, <1>5, <1>7, <1>8 DEF InferRun, queue, pre, infer, post, Staff, InferBusy
<1>18. Closing'
    BY <1>1, <1>2, <1>3, <1>4, <1>5, <1>7, <1>8 DEF InferRun, queue, pre, infer, post, Closing, isClose
<1> QED BY <1>9, <1>10, <1>11, <1>12, <1>13, <1>14, <1>15, <1>16, <1>18

\* A post worker takes the first batch; the closure it kept dies, and the
\* output buffer goes back with it.
LEMMA PostTakeInv ==
    ASSUME Inv, PostTake
    PROVE  Inv'
<1> USE DEF Inv, inBufs, outBufs
<1>1. Formed' = Formed /\ Holding' = Holding
    BY DEF PostTake, queue, Formed, Holding
<1>2. /\ postQ' \in Seq(Nat) /\ Distinct(postQ') /\ Head(postQ) \in Items(postQ) /\ Head(postQ) \in Nat
      /\ Items(postQ') = Items(postQ) \ {Head(postQ)} /\ Len(postQ') = Len(postQ) - 1 /\ Len(postQ) \in Nat \ {0}
  <2>1. postQ \in Seq(Nat) /\ postQ # <<>> /\ postQ' = Dequeued(postQ)
        /\ \A i, k \in DOMAIN postQ : postQ[i] = postQ[k] => i = k
    BY DEF PostTake, Dequeued, Types, Apart, Tasks, Distinct
  <2>2. /\ Head(postQ) \in Nat /\ Head(postQ) \in Items(postQ)
        /\ postQ' \in Seq(Nat) /\ Len(postQ) \in Nat \ {0} /\ Len(postQ') = Len(postQ) - 1
        /\ Items(postQ') = Items(postQ) \ {Head(postQ)}
    BY <2>1, PopDistinct
  <2>3. \A i, k \in DOMAIN postQ' : postQ'[i] = postQ'[k] => i = k
    BY <2>1, PopDistinct
  <2> QED BY <2>2, <2>3 DEF Distinct
<1>3. Head(postQ) \notin posting \union postKept
    BY <1>2 DEF Apart, PostQueued
<1>4. Staffed(posting', postKept') /\ postKept' \subseteq postKept
  <2>1. PICK dying \in Idle(posting, postKept) : postKept' = postKept \ dying
    BY DEF PostTake, InferBusy
  <2>2. posting' = posting \union {Head(postQ)}
    BY DEF PostTake, InferBusy
  <2> QED BY <1>3, <2>1, <2>2, WorkerTakes DEF Staff
<1>7. Types'
    BY <1>1, <1>2, <1>3, <1>4, BoundAssumption, SMTT(30) DEF PostTake, queue, pre, infer, post, Types, InferQueued, PostQueued, InferBusy, AfterInfer, Unsettled, Pending
<1>8. Batches'
    BY <1>1, <1>2, <1>3, <1>4 DEF PostTake, queue, pre, infer, post, Batches
<1>9. Apart'
    BY <1>1, <1>2, <1>3, <1>4 DEF PostTake, queue, pre, infer, post, Apart, InferQueued, PostQueued, InferBusy, AfterInfer, Unsettled, Pending
<1>10. Promises'
    BY <1>1, <1>2, <1>3, <1>4, ZenonT(30) DEF PostTake, queue, pre, infer, post, Promises, Batches, Types, InferQueued, PostQueued, InferBusy, AfterInfer, Unsettled, Pending
<1>11. Buffers'
    BY <1>1, <1>2, <1>3, <1>4 DEF PostTake, queue, pre, infer, post, Buffers, Apart, InferQueued, PostQueued, InferBusy, AfterInfer, Unsettled, Pending
<1>12. Tasks'
    BY <1>1, <1>2, <1>3, <1>4 DEF PostTake, queue, pre, infer, post, Tasks, Apart, Types, InferQueued, PostQueued, InferBusy, AfterInfer, Unsettled, Pending
<1>13. Data'
    BY <1>1, <1>2, <1>3, <1>4 DEF PostTake, queue, pre, infer, post, Data, OwnRows
<1>14. Staff'
    BY <1>1, <1>2, <1>3, <1>4 DEF PostTake, queue, pre, infer, post, Staff, InferBusy
<1>16. Closing'
    BY <1>1, <1>2, <1>3, <1>4 DEF PostTake, queue, pre, infer, post, Closing, isClose
<1> QED BY <1>7, <1>8, <1>9, <1>10, <1>11, <1>12, <1>13, <1>14, <1>16

\* postprocess returns: the promises of the batch get their values.
LEMMA PostExecuteInv ==
    ASSUME Inv, NEW k \in Formed, PostExecute(k)
    PROVE  Inv'
<1> USE DEF Inv, inBufs, outBufs
<1>1. Formed' = Formed /\ Holding' = Holding
    BY DEF PostExecute, queue, PostReturns, Formed, Holding
<1>2. /\ \A s \in Items(batches[k].reqs) : s \in Requests /\ outcome[s] = "pending"
      /\ \A l \in Formed : l # k => \A s \in Items(batches[l].reqs) : s \notin Items(batches[k].reqs)
    BY MemberIsRequest DEF PostExecute, PostReturns, Promises, Batches, InferQueued, PostQueued, InferBusy, AfterInfer, Unsettled, Pending
<1>3. outcome' = [s \in Requests |-> IF s \in Items(batches[k].reqs) THEN "value" ELSE outcome[s]]
    BY MembersAre DEF PostExecute, PostReturns, SettleAll
<1>4. Staffed(posting', postKept')
  <2>1. posting' = posting \ {k} /\ postKept' = postKept \union {k} /\ k \in posting /\ k \notin postKept
    BY DEF PostExecute, PostReturns, InferBusy, Apart
  <2> QED BY <2>1, WorkerKeeps DEF Staff
<1>7. k \notin Holding
    BY DEF PostExecute, PostReturns, Buffers, AfterInfer
<1>8. Types'
    BY <1>1, <1>2, <1>3, <1>4, <1>7, BoundAssumption DEF PostExecute, queue, pre, infer, post, PostReturns, Types, InferQueued, PostQueued, InferBusy, AfterInfer, Unsettled, Pending
<1>9. Batches'
    BY <1>1, <1>2, <1>3, <1>4, <1>7 DEF PostExecute, queue, pre, infer, post, PostReturns, Batches
<1>10. Apart'
    BY <1>1, <1>2, <1>3, <1>4, <1>7 DEF PostExecute, queue, pre, infer, post, PostReturns, Apart, InferQueued, PostQueued, InferBusy, AfterInfer, Unsettled, Pending
<1>11. Promises'
  <2>1. k \in Unsettled /\ Unsettled' \subseteq Unsettled \ {k}
    BY DEF PostExecute, PostReturns, infer, post, Apart, InferQueued, PostQueued, InferBusy, AfterInfer, Unsettled, Pending
  <2>2. UNCHANGED <<inputs, batches, life>> /\ Formed \ Holding \subseteq Formed' \ Holding'
    BY <1>1 DEF PostExecute, PostReturns, queue
  <2> QED BY <1>3, <1>7, <2>1, <2>2, SettledPromises
<1>12. Buffers'
    BY <1>1, <1>2, <1>3, <1>4, <1>7 DEF PostExecute, queue, pre, infer, post, PostReturns, Buffers, Apart, InferQueued, PostQueued, InferBusy, AfterInfer, Unsettled, Pending
<1>13. Tasks'
    BY <1>1, <1>2, <1>3, <1>4, <1>7 DEF PostExecute, queue, pre, infer, post, PostReturns, Tasks, Apart, Types, InferQueued, PostQueued, InferBusy, AfterInfer, Unsettled, Pending
<1>14. Data'
    BY <1>1, <1>2, <1>3, <1>4, <1>7 DEF PostExecute, queue, pre, infer, post, PostReturns, Data, OwnRows
<1>15. Staff'
    BY <1>1, <1>2, <1>3, <1>4, <1>7 DEF PostExecute, queue, pre, infer, post, PostReturns, Staff, InferBusy
<1>17. Closing'
    BY <1>1, <1>2, <1>3, <1>4, <1>7 DEF PostExecute, queue, pre, infer, post, PostReturns, Closing, isClose
<1> QED BY <1>8, <1>9, <1>10, <1>11, <1>12, <1>13, <1>14, <1>15, <1>17

\* postprocess throws: the promises of the batch hear of it.
LEMMA PostThrowInv ==
    ASSUME Inv, NEW k \in Formed, PostThrow(k)
    PROVE  Inv'
<1> USE DEF Inv, inBufs, outBufs
<1>1. Formed' = Formed /\ Holding' = Holding
    BY DEF PostThrow, queue, PostReturns, Formed, Holding
<1>2. /\ \A s \in Items(batches[k].reqs) : s \in Requests /\ outcome[s] = "pending"
      /\ \A l \in Formed : l # k => \A s \in Items(batches[l].reqs) : s \notin Items(batches[k].reqs)
    BY MemberIsRequest DEF PostThrow, PostReturns, Promises, Batches, InferQueued, PostQueued, InferBusy, AfterInfer, Unsettled, Pending
<1>3. outcome' = [s \in Requests |-> IF s \in Items(batches[k].reqs) THEN "exception" ELSE outcome[s]]
    BY MembersAre DEF PostThrow, PostReturns, SettleAll
<1>4. Staffed(posting', postKept')
  <2>1. posting' = posting \ {k} /\ postKept' = postKept \union {k} /\ k \in posting /\ k \notin postKept
    BY DEF PostThrow, PostReturns, InferBusy, Apart
  <2> QED BY <2>1, WorkerKeeps DEF Staff
<1>7. k \notin Holding
    BY DEF PostThrow, PostReturns, Buffers, AfterInfer
<1>8. Types'
    BY <1>1, <1>2, <1>3, <1>4, <1>7, BoundAssumption DEF PostThrow, queue, pre, infer, post, PostReturns, Types, InferQueued, PostQueued, InferBusy, AfterInfer, Unsettled, Pending
<1>9. Batches'
    BY <1>1, <1>2, <1>3, <1>4, <1>7 DEF PostThrow, queue, pre, infer, post, PostReturns, Batches
<1>10. Apart'
    BY <1>1, <1>2, <1>3, <1>4, <1>7 DEF PostThrow, queue, pre, infer, post, PostReturns, Apart, InferQueued, PostQueued, InferBusy, AfterInfer, Unsettled, Pending
<1>11. Promises'
  <2>1. k \in Unsettled /\ Unsettled' \subseteq Unsettled \ {k}
    BY DEF PostThrow, PostReturns, infer, post, Apart, InferQueued, PostQueued, InferBusy, AfterInfer, Unsettled, Pending
  <2>2. UNCHANGED <<inputs, batches, life>> /\ Formed \ Holding \subseteq Formed' \ Holding'
    BY <1>1 DEF PostThrow, PostReturns, queue
  <2> QED BY <1>3, <1>7, <2>1, <2>2, SettledPromises
<1>12. Buffers'
    BY <1>1, <1>2, <1>3, <1>4, <1>7 DEF PostThrow, queue, pre, infer, post, PostReturns, Buffers, Apart, InferQueued, PostQueued, InferBusy, AfterInfer, Unsettled, Pending
<1>13. Tasks'
    BY <1>1, <1>2, <1>3, <1>4, <1>7 DEF PostThrow, queue, pre, infer, post, PostReturns, Tasks, Apart, Types, InferQueued, PostQueued, InferBusy, AfterInfer, Unsettled, Pending
<1>14. Data'
    BY <1>1, <1>2, <1>3, <1>4, <1>7 DEF PostThrow, queue, pre, infer, post, PostReturns, Data, OwnRows
<1>15. Staff'
    BY <1>1, <1>2, <1>3, <1>4, <1>7 DEF PostThrow, queue, pre, infer, post, PostReturns, Staff, InferBusy
<1>17. Closing'
    BY <1>1, <1>2, <1>3, <1>4, <1>7 DEF PostThrow, queue, pre, infer, post, PostReturns, Closing, isClose
<1> QED BY <1>8, <1>9, <1>10, <1>11, <1>12, <1>13, <1>14, <1>15, <1>17

\* The post pool is joined: the closures its workers kept are gone.
LEMMA PostPoolJoinedInv ==
    ASSUME Inv, PostPoolJoined
    PROVE  Inv'
<1> USE DEF Inv, inBufs, outBufs
<1>1. Formed' = Formed /\ Holding' = Holding
    BY DEF PostPoolJoined, queue, Formed, Holding
<1>2. IsFiniteSet({}) /\ Cardinality({}) = 0
    BY FS_EmptySet
<1>3. Staffed(posting, {})
  <2>1. IsFiniteSet(posting) /\ Cardinality(posting) \in Nat /\ Cardinality(postKept) \in Nat
    BY FS_CardinalityType DEF Staff, Staffed
  <2> QED BY <1>2, <2>1, BatchAssumption DEF Staff, Staffed
<1>5. Types'
    BY <1>1, <1>2, <1>3, BoundAssumption DEF PostPoolJoined, queue, pre, infer, post, Types, InferQueued, PostQueued, InferBusy, AfterInfer, Unsettled, Pending
<1>6. Batches'
    BY <1>1, <1>2, <1>3 DEF PostPoolJoined, queue, pre, infer, post, Batches
<1>7. Apart'
    BY <1>1, <1>2, <1>3 DEF PostPoolJoined, queue, pre, infer, post, Apart, InferQueued, PostQueued, InferBusy, AfterInfer, Unsettled, Pending
<1>8. Promises'
    BY <1>1, <1>2, <1>3 DEF PostPoolJoined, queue, pre, infer, post, Promises, Batches, Types, InferQueued, PostQueued, InferBusy, AfterInfer, Unsettled, Pending
<1>9. Buffers'
    BY <1>1, <1>2, <1>3 DEF PostPoolJoined, queue, pre, infer, post, Buffers, Apart, InferQueued, PostQueued, InferBusy, AfterInfer, Unsettled, Pending
<1>10. Tasks'
    BY <1>1, <1>2, <1>3 DEF PostPoolJoined, queue, pre, infer, post, Tasks, Apart, Types, InferQueued, PostQueued, InferBusy, AfterInfer, Unsettled, Pending
<1>11. Data'
    BY <1>1, <1>2, <1>3 DEF PostPoolJoined, queue, pre, infer, post, Data, OwnRows
<1>12. Staff'
    BY <1>1, <1>2, <1>3 DEF PostPoolJoined, queue, pre, infer, post, Staff, InferBusy
<1>14. Closing'
    BY <1>1, <1>2, <1>3 DEF PostPoolJoined, queue, pre, infer, post, Closing, isClose
<1> QED BY <1>5, <1>6, <1>7, <1>8, <1>9, <1>10, <1>11, <1>12, <1>14

\* The infer pool is joined.
LEMMA InferPoolJoinedInv ==
    ASSUME Inv, InferPoolJoined
    PROVE  Inv'
<1> USE DEF Inv, inBufs, outBufs
<1>1. Formed' = Formed /\ Holding' = Holding
    BY DEF InferPoolJoined, queue, Formed, Holding
<1>2. IsFiniteSet({}) /\ Cardinality({}) = 0
    BY FS_EmptySet
<1>3. Staffed(InferBusy, {})
  <2>1. IsFiniteSet(InferBusy) /\ Cardinality(InferBusy) \in Nat /\ Cardinality(inferKept) \in Nat
    BY FS_CardinalityType DEF Staff, Staffed
  <2> QED BY <1>2, <2>1, BatchAssumption DEF Staff, Staffed
<1>4. Types'
    BY <1>1, <1>2, <1>3, BoundAssumption DEF InferPoolJoined, queue, pre, infer, post, Types, InferQueued, PostQueued, InferBusy, AfterInfer, Unsettled, Pending
<1>5. Batches'
    BY <1>1, <1>2, <1>3 DEF InferPoolJoined, queue, pre, infer, post, Batches
<1>6. Apart'
    BY <1>1, <1>2, <1>3 DEF InferPoolJoined, queue, pre, infer, post, Apart, InferQueued, PostQueued, InferBusy, AfterInfer, Unsettled, Pending
<1>7. Promises'
    BY <1>1, <1>2, <1>3 DEF InferPoolJoined, queue, pre, infer, post, Promises, Batches, Types, InferQueued, PostQueued, InferBusy, AfterInfer, Unsettled, Pending
<1>8. Buffers'
    BY <1>1, <1>2, <1>3 DEF InferPoolJoined, queue, pre, infer, post, Buffers, Apart, InferQueued, PostQueued, InferBusy, AfterInfer, Unsettled, Pending
<1>9. Tasks'
    BY <1>1, <1>2, <1>3 DEF InferPoolJoined, queue, pre, infer, post, Tasks, Apart, Types, InferQueued, PostQueued, InferBusy, AfterInfer, Unsettled, Pending
<1>10. Data'
    BY <1>1, <1>2, <1>3 DEF InferPoolJoined, queue, pre, infer, post, Data, OwnRows
<1>11. Staff'
    BY <1>1, <1>2, <1>3 DEF InferPoolJoined, queue, pre, infer, post, Staff, InferBusy
<1>13. Closing'
    BY <1>1, <1>2, <1>3 DEF InferPoolJoined, queue, pre, infer, post, Closing, isClose
<1> QED BY <1>4, <1>5, <1>6, <1>7, <1>8, <1>9, <1>10, <1>11, <1>13

\* The pre pool is joined, and the promises left in the queue break.
LEMMA PrePoolJoinedInv ==
    ASSUME Inv, PrePoolJoined
    PROVE  Inv'
<1> USE DEF Inv, inBufs, outBufs
<1>1. Formed' = Formed /\ Holding' = Holding
    BY DEF PrePoolJoined, queue, Formed, Holding
<1>2. outcome' = [s \in Requests |-> IF s \in Items(inputs) THEN "broken" ELSE outcome[s]]
    BY DEF PrePoolJoined, SettleAll, Items, Elements
<1>3. Items(inputs) \subseteq Requests /\ \A s \in Items(inputs) : outcome[s] = "pending"
    BY QueuedRequests DEF PrePoolJoined, Promises
<1>4. \A k \in Formed : \A s \in Items(batches[k].reqs) : s \in Requests /\ s \notin Items(inputs)
    BY MemberIsRequest DEF Batches
<1>5. Types'
    BY <1>1, <1>2, <1>3, <1>4, BoundAssumption DEF PrePoolJoined, queue, pre, infer, post, Types, InferQueued, PostQueued, InferBusy, AfterInfer, Unsettled, Pending
<1>6. Batches'
    BY <1>1, <1>2, <1>3, <1>4 DEF PrePoolJoined, queue, pre, infer, post, Batches
<1>7. Apart'
    BY <1>1, <1>2, <1>3, <1>4 DEF PrePoolJoined, queue, pre, infer, post, Apart, InferQueued, PostQueued, InferBusy, AfterInfer, Unsettled, Pending
<1>8. Promises'
    BY <1>1, <1>2, <1>3, <1>4 DEF PrePoolJoined, queue, pre, infer, post, Promises, Batches, Types, InferQueued, PostQueued, InferBusy, AfterInfer, Unsettled, Pending
<1>9. Buffers'
    BY <1>1, <1>2, <1>3, <1>4 DEF PrePoolJoined, queue, pre, infer, post, Buffers, Apart, InferQueued, PostQueued, InferBusy, AfterInfer, Unsettled, Pending
<1>10. Tasks'
    BY <1>1, <1>2, <1>3, <1>4 DEF PrePoolJoined, queue, pre, infer, post, Tasks, Apart, Types, InferQueued, PostQueued, InferBusy, AfterInfer, Unsettled, Pending
<1>11. Data'
    BY <1>1, <1>2, <1>3, <1>4 DEF PrePoolJoined, queue, pre, infer, post, Data, OwnRows
<1>12. Staff'
    BY <1>1, <1>2, <1>3, <1>4 DEF PrePoolJoined, queue, pre, infer, post, Staff, InferBusy
<1>14. Closing'
    BY <1>1, <1>2, <1>3, <1>4 DEF PrePoolJoined, queue, pre, infer, post, Closing, isClose
<1> QED BY <1>5, <1>6, <1>7, <1>8, <1>9, <1>10, <1>11, <1>12, <1>14

\* submit puts a new request at the end of the queue.
LEMMA SubmitInv ==
    ASSUME Inv, Submit
    PROVE  Inv'
<1> USE DEF Inv, inBufs, outBufs
<1>1. PICK r \in Requests :
        /\ outcome[r] = "none" /\ outcome' = [outcome EXCEPT ![r] = "pending"]
        /\ inputs' = Append(inputs, r)
    BY DEF Submit
<1>2. Formed' = Formed /\ Holding' = Holding /\ batches' = batches
    BY DEF Submit, Formed, Holding
<1>3. r \notin Items(inputs) /\ \A k \in Formed : r \notin Items(batches[k].reqs)
    BY <1>1 DEF Submit, Promises
<1>4. /\ inputs' \in Seq(Requests) /\ Distinct(inputs') /\ Items(inputs') = Items(inputs) \union {r}
  <2>1. inputs \in Seq(Requests) /\ \A i, k \in DOMAIN inputs : inputs[i] = inputs[k] => i = k
    BY DEF Types, Batches, Distinct
  <2>2. /\ inputs' \in Seq(Requests) /\ Items(inputs') = Items(inputs) \union {r}
        /\ \A i, k \in DOMAIN inputs' : inputs'[i] = inputs'[k] => i = k
    BY <1>1, <1>3, <2>1, PushItems
  <2> QED BY <2>2 DEF Distinct
<1>5. outcome'[r] = "pending" /\ \A s \in Requests : s # r => outcome'[s] = outcome[s]
    BY <1>1 DEF Types
<1>6. Unsettled \subseteq Formed /\ Unsettled' = Unsettled
  <2>1. Unsettled \subseteq Formed
    BY DEF Types, Unsettled, AfterInfer
  <2> QED BY <2>1 DEF Submit, infer, post, Unsettled, InferQueued, InferBusy, PostQueued
<1>7. Types'
    BY <1>1, <1>2, <1>4, BoundAssumption DEF Submit, pre, infer, post, Types, InferQueued, PostQueued, InferBusy, AfterInfer
<1>8. Batches'
    BY <1>2, <1>3, <1>4 DEF Batches
<1>9. Apart'
    BY DEF Submit, infer, post, Apart, InferQueued, PostQueued, InferBusy, AfterInfer
<1>10. Promises'
  <2>1. \A s \in Items(inputs) : s \in Requests
    BY QueuedRequests
  <2>2. \A s \in Items(inputs') : outcome'[s] = "pending"
    BY <1>4, <1>5, <2>1 DEF Submit, Promises
  <2>3. life' = "alive"
    BY DEF Submit
  <2> QED BY <1>2, <1>3, <1>5, <1>6, <2>2, <2>3, MemberIsRequest DEF Promises
<1>11. Buffers'
    BY <1>2 DEF Submit, infer, post, Buffers, InferQueued, PostQueued, InferBusy, AfterInfer
<1>12. Tasks'
    BY <1>2 DEF Submit, pre, infer, Tasks, Pending, InferQueued, InferBusy
<1>13. Data'
    BY <1>2 DEF Submit, pre, Data, OwnRows
<1>14. Staff'
    BY DEF Submit, infer, post, Staff, InferBusy
<1>15. Closing'
    BY DEF Submit, Closing, isClose
<1> QED BY <1>7, <1>8, <1>9, <1>10, <1>11, <1>12, <1>13, <1>14, <1>15

\* The batch that leaves the queue, and what stays.
LEMMA BatchCut ==
    ASSUME Inv, FormBatch
    PROVE  LET size == Min({BatchSize, Len(inputs)})
               reqs == SubSeq(inputs, 1, size)
               rest == SubSeq(inputs, size + 1, Len(inputs))
           IN  /\ size \in Nat \ {0} /\ size <= BatchSize /\ size <= Len(inputs) /\ Len(inputs) \in Nat
               /\ reqs \in Seq(Requests) /\ rest \in Seq(Requests)
               /\ Len(reqs) = size /\ Len(rest) \in Nat
               /\ Distinct(reqs) /\ Distinct(rest)
               /\ Items(reqs) \intersect Items(rest) = {}
               /\ Items(reqs) \union Items(rest) = Items(inputs)
<1> USE DEF Inv, inBufs, outBufs
<1> DEFINE size == Min({BatchSize, Len(inputs)})
           reqs == SubSeq(inputs, 1, size)
           rest == SubSeq(inputs, size + 1, Len(inputs))
<1>1. size \in Nat \ {0} /\ size <= BatchSize /\ size <= Len(inputs) /\ Len(inputs) \in Nat
  <2>1. inputs # <<>> /\ inputs \in Seq(Requests)
    BY DEF FormBatch, Closing, Types
  <2>2. Len(inputs) \in Nat \ {0}
    BY <2>1
  <2>3. \E x \in {BatchSize, Len(inputs)} : \A y \in {BatchSize, Len(inputs)} : x <= y
    BY <2>2, BatchAssumption
  <2>4. size \in {BatchSize, Len(inputs)} /\ \A y \in {BatchSize, Len(inputs)} : size <= y
    BY <2>3 DEF Min
  <2> QED BY <2>2, <2>4, BatchAssumption
<1> HIDE DEF size
<1>2. /\ reqs \in Seq(Requests) /\ rest \in Seq(Requests) /\ Len(reqs) = size /\ Len(rest) \in Nat
      /\ Distinct(reqs) /\ Distinct(rest)
      /\ Items(reqs) \intersect Items(rest) = {} /\ Items(reqs) \union Items(rest) = Items(inputs)
  <2>1. inputs \in Seq(Requests) /\ \A i, k \in DOMAIN inputs : inputs[i] = inputs[k] => i = k
    BY DEF Types, Batches, Distinct
  <2>2. /\ reqs \in Seq(Requests) /\ rest \in Seq(Requests)
        /\ Len(reqs) = size /\ Len(rest) = Len(inputs) - size
    BY <1>1, <2>1, SplitDistinct
  <2>4. Items(reqs) \intersect Items(rest) = {} /\ Items(reqs) \union Items(rest) = Items(inputs)
    BY <1>1, <2>1, SplitDistinct
  <2>5. Len(rest) \in Nat
    BY <1>1, <2>2
  <2>3. /\ \A i, k \in DOMAIN reqs : reqs[i] = reqs[k] => i = k
        /\ \A i, k \in DOMAIN rest : rest[i] = rest[k] => i = k
    BY <1>1, <2>1, SplitDistinct
  <2> HIDE DEF reqs, rest
  <2> QED BY <2>2, <2>3, <2>4, <2>5 DEF Distinct
<1> HIDE DEF reqs, rest
<1>3. /\ size \in Nat \ {0} /\ size <= BatchSize /\ size <= Len(inputs) /\ Len(inputs) \in Nat
      /\ reqs \in Seq(Requests) /\ rest \in Seq(Requests)
      /\ Len(reqs) = size /\ Len(rest) \in Nat
      /\ Distinct(reqs) /\ Distinct(rest)
      /\ Items(reqs) \intersect Items(rest) = {}
      /\ Items(reqs) \union Items(rest) = Items(inputs)
    BY <1>1, <1>2
<1> QED BY <1>3 DEF size, reqs, rest

\* worker_ cuts a batch off the front of the queue, which gets an input buffer.
LEMMA FormBatchInv ==
    ASSUME Inv, FormBatch
    PROVE  Inv'
<1> USE DEF Inv, inBufs, outBufs
<1> DEFINE size == Min({BatchSize, Len(inputs)})
           reqs == SubSeq(inputs, 1, size)
           rest == SubSeq(inputs, size + 1, Len(inputs))
           n == Len(batches) + 1
           b == Head(inFree)
<1>1. size \in Nat \ {0} /\ size <= BatchSize /\ size <= Len(inputs) /\ Len(inputs) \in Nat
    BY BatchCut
<1>2. /\ workerPc = "acquire" /\ inFree # <<>> /\ inFree' = Tail(inFree) /\ inputs' = rest
      /\ batches' = Append(batches, [reqs |-> reqs, buf |-> b]) /\ result' = Append(result, <<>>)
      /\ preQ' = preQ \o reqs /\ inferQ' = Append(inferQ, n)
      /\ workerPc' = IF Len(rest) >= BatchSize THEN "acquire" ELSE IF isClose THEN "exited" ELSE "wait"
      /\ UNCHANGED <<outcome, preRunning, preFuture, waiting, running, inferKept, content>>
      /\ UNCHANGED <<strayed, failures, life, postQ, posting, postKept>>
    BY DEF FormBatch, post
<1> HIDE DEF size, n, b
<1>3. /\ reqs \in Seq(Requests) /\ rest \in Seq(Requests) /\ Len(reqs) = size /\ Len(rest) \in Nat
      /\ Distinct(reqs) /\ Distinct(rest)
      /\ Items(reqs) \intersect Items(rest) = {} /\ Items(reqs) \union Items(rest) = Items(inputs)
    BY BatchCut DEF size
<1> HIDE DEF reqs, rest
<1>4. reqs # <<>> /\ Items(reqs) \subseteq Items(inputs) /\ Items(inputs) \subseteq Requests
    BY <1>1, <1>3, QueuedRequests
<1>5. /\ b \in InputBuffers /\ b \in Items(inFree) /\ inFree' \in Seq(InputBuffers)
      /\ Items(inFree') = Items(inFree) \ {b} /\ Distinct(inFree')
  <2>1. /\ inFree \in Seq(InputBuffers) /\ inFree # <<>> /\ inFree' = Dequeued(inFree)
        /\ \A i, k \in DOMAIN inFree : inFree[i] = inFree[k] => i = k
    BY <1>2 DEF Dequeued, Types, Buffers, Distinct
  <2>2. /\ b \in InputBuffers /\ b \in Items(inFree) /\ inFree' \in Seq(InputBuffers)
        /\ Items(inFree') = Items(inFree) \ {b}
    BY <2>1, PopDistinct DEF b
  <2>3. \A i, k \in DOMAIN inFree' : inFree'[i] = inFree'[k] => i = k
    BY <2>1, PopDistinct
  <2> QED BY <2>2, <2>3 DEF Distinct
<1>6. /\ n \in Nat /\ n \notin Formed /\ Formed' = Formed \union {n}
      /\ batches'[n] = [reqs |-> reqs, buf |-> b] /\ \A k \in Formed : batches'[k] = batches[k]
      /\ result'[n] = <<>> /\ \A k \in Formed : result'[k] = result[k]
      /\ batches' \in Seq([reqs : Seq(Requests), buf : InputBuffers])
      /\ result' \in Seq(Seen) /\ Len(result') = Len(batches')
  <2> DEFINE S == [reqs : Seq(Requests), buf : InputBuffers]
             new == [reqs |-> reqs, buf |-> b]
  <2>1. new \in S /\ <<>> \in Seen
    BY <1>3, <1>5 DEF Seen
  <2>2. batches \in Seq(S) /\ result \in Seq(Seen) /\ Len(result) = Len(batches) /\ Len(batches) \in Nat
    BY DEF Types
  <2>3. batches' = Append(batches, new) /\ result' = Append(result, <<>>)
    BY <1>2
  <2> HIDE DEF S, new
  <2>4. /\ batches' \in Seq(S) /\ Len(batches') = Len(batches) + 1
        /\ DOMAIN batches' = 1 .. Len(batches) + 1 /\ DOMAIN batches = 1 .. Len(batches)
        /\ batches'[Len(batches) + 1] = new /\ \A k \in 1 .. Len(batches) : batches'[k] = batches[k]
    BY <2>1, <2>2, <2>3, AppendElements
  <2>5. /\ result' \in Seq(Seen) /\ Len(result') = Len(result) + 1
        /\ result'[Len(result) + 1] = <<>> /\ \A k \in 1 .. Len(result) : result'[k] = result[k]
    BY <2>1, <2>2, <2>3, AppendElements
  <2>6. n \in Nat /\ n \notin Formed /\ Formed' = Formed \union {n} /\ Formed = 1 .. Len(batches)
    BY <2>2, <2>4 DEF n, Formed
  <2> QED BY <2>2, <2>4, <2>5, <2>6 DEF n, S, new
<1>7. Holding' = Holding \union {n}
    BY <1>6 DEF Holding
<1>8. /\ inferQ' \in Seq(Nat) /\ Distinct(inferQ') /\ InferQueued' = InferQueued \union {n}
      /\ n \notin InferQueued
  <2>1. inferQ \in Seq(Nat) /\ n \in Nat /\ n \notin Items(inferQ) /\ inferQ' = Append(inferQ, n)
        /\ \A i, k \in DOMAIN inferQ : inferQ[i] = inferQ[k] => i = k
    BY <1>2, <1>6 DEF Types, Apart, Distinct, InferQueued
  <2>2. /\ inferQ' \in Seq(Nat) /\ Items(inferQ') = Items(inferQ) \union {n}
        /\ \A i, k \in DOMAIN inferQ' : inferQ'[i] = inferQ'[k] => i = k
    BY <2>1, PushItems
  <2> QED BY <2>1, <2>2 DEF Distinct, InferQueued
<1>9. /\ InferBusy' = InferBusy /\ PostQueued' = PostQueued /\ AfterInfer' = AfterInfer
      /\ inferKept' = inferKept /\ n \notin InferBusy \union inferKept \union AfterInfer
    BY <1>2, <1>6 DEF InferBusy, PostQueued, AfterInfer, Types
<1>10. \A s \in Items(reqs) :
        /\ s \in Requests /\ outcome[s] = "pending" /\ preFuture[s] = "empty" /\ s \notin Pending
        /\ \A k \in Formed : s \notin Items(batches[k].reqs)
  <2>1. life \in {"alive", "closing"}
    BY <1>2 DEF Closing
  <2>2. \A s \in Items(inputs) : outcome[s] = "pending" /\ \A k \in Formed : s \notin Items(batches[k].reqs)
    BY <2>1 DEF Promises, Batches
  <2>3. preFuture \in [Requests -> {"empty", "done", "exception"}]
    BY DEF Types
  <2> QED BY <1>4, <2>2, <2>3 DEF Tasks
<1>11. preQ' \in Seq(Requests) /\ Distinct(preQ') /\ Items(preQ') = Items(preQ) \union Items(reqs)
  <2>1. /\ preQ' = preQ \o reqs /\ reqs \in Seq(Requests)
        /\ preQ \in Seq(Requests) /\ Items(preQ) \intersect Items(reqs) = {}
        /\ \A i, k \in DOMAIN preQ : preQ[i] = preQ[k] => i = k
        /\ \A i, k \in DOMAIN reqs : reqs[i] = reqs[k] => i = k
    BY <1>2, <1>3, <1>10 DEF Types, Tasks, Distinct, Pending
  <2>2. /\ preQ' \in Seq(Requests) /\ Items(preQ') = Items(preQ) \union Items(reqs)
        /\ \A i, k \in DOMAIN preQ' : preQ'[i] = preQ'[k] => i = k
    BY <2>1, ConcatItems
  <2> QED BY <2>2 DEF Distinct
<1>12. /\ Formed' = Formed \union {n} /\ batches'[n].reqs = reqs /\ batches'[n].buf = b
       /\ \A k \in Formed : k # n /\ batches'[k] = batches[k] /\ result'[k] = result[k]
    BY <1>6
<1>13. Types'
  <2>1. (InferQueued \union InferBusy \union inferKept \union AfterInfer)' \subseteq Formed'
    BY <1>6, <1>8, <1>9 DEF Types
  <2>2. workerPc' \in {"wait", "acquire", "exited"} /\ inputs' \in Seq(Requests)
    BY <1>2, <1>3
  <2> QED BY <1>2, <1>5, <1>6, <1>8, <1>11, <2>1, <2>2 DEF Types
<1>14. Batches'
  <2>1. \A k \in Formed :
        /\ batches[k].reqs # <<>> /\ Len(batches[k].reqs) <= BatchSize /\ Distinct(batches[k].reqs)
        /\ Items(batches[k].reqs) \intersect Items(inputs) = {}
    BY DEF Batches
  <2>2. \A k \in Formed' :
        /\ batches'[k].reqs # <<>> /\ Len(batches'[k].reqs) <= BatchSize /\ Distinct(batches'[k].reqs)
        /\ Items(batches'[k].reqs) \intersect Items(inputs') = {}
    <3>1. ASSUME NEW k \in Formed PROVE
            /\ batches'[k].reqs # <<>> /\ Len(batches'[k].reqs) <= BatchSize /\ Distinct(batches'[k].reqs)
            /\ Items(batches'[k].reqs) \intersect Items(inputs') = {}
      BY <1>2, <1>3, <1>6, <2>1
    <3>2. /\ batches'[n].reqs # <<>> /\ Len(batches'[n].reqs) <= BatchSize /\ Distinct(batches'[n].reqs)
          /\ Items(batches'[n].reqs) \intersect Items(inputs') = {}
      BY <1>1, <1>2, <1>3, <1>4, <1>12
    <3> QED BY <1>6, <3>1, <3>2
  <2>3. \A k, l \in Formed' :
          \A r \in Items(batches'[k].reqs) : r \in Items(batches'[l].reqs) => k = l
    <3> SUFFICES ASSUME NEW k \in Formed', NEW l \in Formed', NEW r \in Items(batches'[k].reqs),
                        r \in Items(batches'[l].reqs)
                 PROVE  k = l
      OBVIOUS
    <3>1. CASE k = n \/ l = n
      BY <1>10, <1>12, <3>1
    <3>2. CASE k # n /\ l # n
      BY <1>12, <3>2 DEF Batches
    <3> QED BY <3>1, <3>2
  <2> QED BY <1>2, <1>3, <2>2, <2>3 DEF Batches
<1>15. Apart'
    BY <1>2, <1>8, <1>9 DEF Apart
<1>16. Promises'
  <2>1. \A r \in Items(inputs') : r \in Items(inputs)
    BY <1>2, <1>3
  <2>2. Unsettled \subseteq Formed /\ Unsettled' = Unsettled \union {n}
    BY <1>2, <1>8, <1>9 DEF Unsettled, Types, AfterInfer
  <2>3. \A k \in Formed' : \A r \in Items(batches'[k].reqs) : outcome[r] # "none"
    BY <1>6, <1>10, <1>12, ZenonT(30) DEF Promises
  <2>4. \A k \in Unsettled' : \A r \in Items(batches'[k].reqs) : outcome[r] = "pending"
    BY <1>10, <1>12, <2>2 DEF Promises
  <2>5. \A r \in Requests :
          outcome[r] = "value" => \E k \in Formed' \ Holding' : r \in Items(batches'[k].reqs)
    BY <1>6, <1>7 DEF Promises
  <2> QED BY <1>2, <2>1, <2>3, <2>4, <2>5 DEF Promises
<1>17. Buffers'
  <2>1. \A k \in Holding' : batches'[k].buf \notin Items(inFree')
    BY <1>5, <1>7, <1>12, HoldingFormed DEF Buffers
  <2>2. \A k, l \in Holding' : batches'[k].buf = batches'[l].buf => k = l
    <3>1. \A k \in Holding : batches'[k].buf = batches[k].buf /\ batches[k].buf # b
      BY <1>5, <1>12, HoldingFormed DEF Buffers
    <3> QED BY <1>7, <1>12, <3>1 DEF Buffers
  <2> QED BY <1>5, <1>7, <1>8, <1>9, <2>1, <2>2 DEF Buffers
<1>18. Tasks'
  <2>1. Pending' = Pending \union Items(reqs)
    BY <1>2, <1>11 DEF Pending
  <2>2. Items(preQ') \intersect preRunning' = {}
    BY <1>2, <1>10, <1>11 DEF Tasks, Pending
  <2>3. \A r \in Requests :
          preFuture[r] # "empty" => \E k \in Formed' : r \in Items(batches'[k].reqs)
    BY <1>6 DEF Tasks
  <2>4. \A r \in Pending' : preFuture[r] = "empty" /\ \E k \in Formed' : r \in Items(batches'[k].reqs)
    BY <1>6, <1>10, <1>12, <2>1 DEF Tasks
  <2>5. \A k \in Formed' :
          k \in running \/ k \notin Holding' => \A r \in Items(batches'[k].reqs) : preFuture[r] = "done"
    BY <1>6, <1>7, <1>9 DEF Tasks, InferBusy
  <2>6. \A k \in Holding' :
          \/ k \in InferQueued' \union InferBusy'
          \/ \E r \in Items(batches'[k].reqs) : preFuture[r] = "exception"
          \/ \A r \in Items(batches'[k].reqs) : preFuture[r] = "done"
    BY <1>6, <1>7, <1>8, <1>9, HoldingFormed DEF Tasks
  <2> QED BY <1>2, <1>11, <2>2, <2>3, <2>4, <2>5, <2>6 DEF Tasks
<1>19. Data'
  <2> SUFFICES ASSUME ~strayed' PROVE OwnRows'
    BY DEF Data
  <2>0. OwnRows
    BY <1>2 DEF Data
  <2>1. \A k \in Holding' : \A i \in DOMAIN batches'[k].reqs :
          preFuture[batches'[k].reqs[i]] = "done"
            => content[batches'[k].buf][i] = batches'[k].reqs[i]
    <3>1. \A i \in DOMAIN reqs : preFuture[reqs[i]] = "empty"
      BY <1>10 DEF Items
    <3>2. ASSUME NEW k \in Holding PROVE
            \A i \in DOMAIN batches'[k].reqs : preFuture[batches'[k].reqs[i]] = "done"
              => content[batches'[k].buf][i] = batches'[k].reqs[i]
      BY <1>12, <2>0, HoldingFormed DEF OwnRows
    <3>3. \A i \in DOMAIN batches'[n].reqs : preFuture[batches'[n].reqs[i]] # "done"
      BY <1>12, <3>1
    <3> QED BY <1>7, <3>2, <3>3
  <2>2. \A k \in Formed' \ Holding' : \A i \in DOMAIN batches'[k].reqs :
          result'[k][i] = batches'[k].reqs[i]
    <3>1. Formed' \ Holding' = Formed \ Holding
      BY <1>7, <1>12, HoldingFormed
    <3> QED BY <1>12, <2>0, <3>1 DEF OwnRows
  <2> QED BY <1>2, <2>1, <2>2 DEF OwnRows
<1>20. Staff'
    BY <1>2, <1>9 DEF Staff
<1>21. Closing'
  <2>1. Len(rest) >= BatchSize => rest # <<>>
    BY <1>3, BatchAssumption
  <2> QED BY <1>2, <1>3, <2>1, BatchAssumption DEF Closing, isClose
<1> QED BY <1>13, <1>14, <1>15, <1>16, <1>17, <1>18, <1>19, <1>20, <1>21

\* Nothing has been submitted, and every buffer is free.
LEMMA InitInv == Init => Inv
<1> SUFFICES ASSUME Init PROVE Inv
    OBVIOUS
<1>1. IsFiniteSet({}) /\ Cardinality({}) = 0
    BY FS_EmptySet
<1>2. inFree \in Seq(InputBuffers) /\ Distinct(inFree)
  <2> DEFINE m == Cardinality(InputBuffers)
  <2>1. IsFiniteSet(InputBuffers)
    BY BatchAssumption, FS_Interval DEF InputBuffers
  <2>2. \E f \in [1 .. m -> InputBuffers] : \A i, k \in 1 .. m : f[i] = f[k] => i = k
    BY <2>1, Enumeration
  <2>3. inFree \in [1 .. m -> InputBuffers] /\ \A i, k \in 1 .. m : inFree[i] = inFree[k] => i = k
    <3>1. \E f \in [1 .. m -> InputBuffers] : IsInjective(f)
      BY <2>2 DEF IsInjective
    <3>2. inFree \in [1 .. m -> InputBuffers] /\ IsInjective(inFree)
      BY <3>1 DEF Init, SetToSeq
    <3> QED BY <3>2 DEF IsInjective
  <2>4. inFree \in Seq(InputBuffers)
    BY <2>1, <2>3, Enumeration
  <2> QED BY <2>3, <2>4 DEF Distinct
<1>3. /\ Formed = {} /\ Holding = {} /\ InferQueued = {} /\ PostQueued = {} /\ InferBusy = {}
      /\ AfterInfer = {} /\ Unsettled = {} /\ Pending = {} /\ inferKept = {} /\ running = {}
      /\ Items(inputs) = {} /\ Items(preQ) = {} /\ posting = {} /\ postKept = {}
    BY DEF Init, Formed, Holding, InferQueued, PostQueued, InferBusy, AfterInfer, Unsettled, Pending, Items
<1>4. Types
    BY <1>2, <1>3, BatchAssumption, BoundAssumption DEF Init, Types
<1>5. Batches /\ Promises /\ Data
    BY <1>3 DEF Init, Batches, Distinct, Promises, Data, OwnRows
<1>6. Apart /\ Tasks
    BY <1>3 DEF Init, Apart, Tasks, Distinct
<1>7. Buffers
    BY <1>2, <1>3 DEF Buffers
<1>8. Staff
    BY <1>1, <1>3, BatchAssumption DEF Staff, Staffed
<1>10. Closing
    BY DEF Init, Closing
<1> QED BY <1>4, <1>5, <1>6, <1>7, <1>8, <1>10 DEF Inv

\* Every step keeps the invariant.
LEMMA NextInv == Inv /\ [Next]_vars => Inv'
<1> SUFFICES ASSUME Inv, [Next]_vars PROVE Inv'
    OBVIOUS
<1>1. CASE Submit \/ BatchWorker
    BY <1>1, SubmitInv, WakeInv, FormBatchInv, WorkerExitInv DEF BatchWorker
<1>2. CASE PreTake \/ InferTake \/ PostTake \/ Close
    BY <1>2, PreTakeInv, InferTakeInv, PostTakeInv, CloseInv
<1>3. CASE Joins
    BY <1>3, WorkerJoinedInv, PostPoolJoinedInv, InferPoolJoinedInv, PrePoolJoinedInv DEF Joins
<1>4. ASSUME NEW r \in Requests, PreExecute(r) \/ PreThrow(r) PROVE Inv'
    BY <1>4, PreExecuteInv, PreThrowInv
<1>5. ASSUME NEW k \in Formed, Batch(k) \/ Throws(k) PROVE Inv'
  <2>1. CASE InferPreFailed(k) \/ InferAcquire(k) \/ InferRun(k)
    BY <2>1, InferPreFailedInv, InferAcquireInv, InferRunInv
  <2>2. CASE PostExecute(k) \/ InferThrow(k) \/ PostThrow(k)
    BY <2>2, PostExecuteInv, InferThrowInv, PostThrowInv
  <2> QED BY <1>5, <2>1, <2>2 DEF Batch, Throws
<1>6. CASE UNCHANGED vars
  <2> USE <1>6 DEF vars, queue, pre, infer, post, inBufs, outBufs
  <2>1. /\ Formed' = Formed /\ Holding' = Holding /\ InferQueued' = InferQueued /\ PostQueued' = PostQueued
        /\ InferBusy' = InferBusy /\ AfterInfer' = AfterInfer /\ Unsettled' = Unsettled /\ Pending' = Pending
    BY DEF Formed, Holding, InferQueued, PostQueued, InferBusy, AfterInfer, Unsettled, Pending
  <2>2. Types' /\ Batches' /\ Apart' /\ Promises'
    BY <2>1 DEF Inv, Types, Batches, Apart, Promises
  <2>3. Buffers' /\ Tasks' /\ Staff' /\ Closing'
    BY <2>1 DEF Inv, Buffers, Tasks, Staff, Closing, isClose
  <2>4. OwnRows' <=> OwnRows
    BY <2>1 DEF OwnRows
  <2>5. Data'
    BY <2>4, Zenon DEF Inv, Data
  <2> QED BY <2>2, <2>3, <2>5 DEF Inv
<1> QED BY <1>1, <1>2, <1>3, <1>4, <1>5, <1>6 DEF Next, PreStage, Formed

\* The inductive invariant holds of every behaviour.
THEOREM Invariant == Spec => []Inv
<1>1. Init => Inv
    BY InitInv
<1>2. Inv /\ [Next]_vars => Inv'
    BY NextInv
<1> QED BY <1>1, <1>2, PTL DEF Spec

------------------------------------------------------------------------------
(* What follows from the invariant. *)

\* A pool has no more closures than workers.
LEMMA StaffUnion ==
    ASSUME NEW busy, NEW kept, Staffed(busy, kept), busy \intersect kept = {}
    PROVE  Cardinality(busy \union kept) <= BufferSize
<1>1. Cardinality(busy \union kept) = Cardinality(busy) + Cardinality(kept) - Cardinality(busy \intersect kept)
    BY FS_Union DEF Staffed
<1>2. Cardinality(busy \intersect kept) = 0
    BY FS_EmptySet
<1>3. Cardinality(busy) \in Nat /\ Cardinality(kept) \in Nat
    BY FS_CardinalityType DEF Staffed
<1> QED BY <1>1, <1>2, <1>3, BatchAssumption DEF Staffed

\* No input buffer is on offer twice, so there are at most BufferSize.
LEMMA FreeInputs ==
    ASSUME Inv
    PROVE  Len(inFree) <= BufferSize
<1>1. inFree \in Seq(InputBuffers) /\ DOMAIN inFree = 1 .. Len(inFree) /\ Len(inFree) \in Nat
    BY DEF Inv, Types
<1>2. inFree \in Injection(1 .. Len(inFree), InputBuffers)
    BY <1>1 DEF Inv, Buffers, Distinct, Injection, IsInjective
<1>3. IsFiniteSet(InputBuffers) /\ Cardinality(InputBuffers) = BufferSize
    BY BatchAssumption, FS_Interval DEF InputBuffers
<1>4. Cardinality(1 .. Len(inFree)) = Len(inFree)
  <2>1. \A m \in Nat : Cardinality(1 .. m) = m
    BY FS_Interval
  <2> QED BY <1>1, <2>1
<1>5. Cardinality(1 .. Len(inFree)) <= Cardinality(InputBuffers)
    BY <1>2, <1>3, FS_Injection
<1> QED BY <1>3, <1>4, <1>5

------------------------------------------------------------------------------
(* The output buffers.                                                     *)
(*                                                                         *)
(* The queue begins with the buffers nobody has had, in order, so that its *)
(* first 2 * BufferSize answers are different buffers.  What is released,  *)
(* once or twice, comes after them.                                        *)

OutputTypes ==
    /\ outFree \in Seq(OutputBuffers)
    /\ output \in Seq(OutputBuffers \union {None}) /\ Len(output) = Len(batches)
    /\ taken \in Nat
    /\ writer \in [OutputBuffers -> Formed \union {None}]
    /\ source \in Seq(Formed \union {None}) /\ Len(source) = Len(batches)

FirstRound ==
    /\ \A i \in 1 .. 2 * BufferSize - taken : i \in DOMAIN outFree /\ outFree[i] = taken + i
    /\ \A k \in Formed : output[k] <= taken
    /\ \A k \in running \union AfterInfer : output[k] # None
    /\ taken <= 2 * BufferSize =>
        /\ \A k, l \in Formed : output[k] = output[l] /\ output[k] # None => k = l
        /\ \A k \in PostQueued \union posting : writer[output[k]] = k
        /\ \A k \in Formed : \A r \in Items(batches[k].reqs) : outcome[r] = "value" => source[k] = k

Outputs == OutputTypes /\ FirstRound

\* An assignment to an element keeps a sequence a sequence.
LEMMA ElementReplaced ==
    ASSUME NEW S, NEW q \in Seq(S), NEW i \in DOMAIN q, NEW x \in S
    PROVE  [q EXCEPT ![i] = x] \in Seq(S) /\ Len([q EXCEPT ![i] = x]) = Len(q)
<1>1. Len(q) \in Nat /\ q \in [1 .. Len(q) -> S] /\ i \in 1 .. Len(q)
    OBVIOUS
<1>2. [q EXCEPT ![i] = x] \in [1 .. Len(q) -> S]
    BY <1>1
<1> QED BY <1>1, <1>2

\* What each batch's records are.
LEMMA RecordsInRange ==
    ASSUME Inv, Outputs
    PROVE  /\ DOMAIN output = Formed /\ DOMAIN source = Formed /\ Formed = 1 .. Len(batches)
           /\ Len(batches) \in Nat /\ Formed \subseteq Nat
           /\ \A k \in Formed : output[k] \in OutputBuffers \union {None}
           /\ \A k \in Formed : source[k] \in Formed \union {None}
           /\ running \union AfterInfer \subseteq Formed
           /\ \A k \in running \union AfterInfer : output[k] \in OutputBuffers
<1>1. batches \in Seq([reqs : Seq(Requests), buf : InputBuffers])
      /\ running \union AfterInfer \subseteq Formed
    BY DEF Inv, Types, InferBusy
<1>2. Len(batches) \in Nat /\ Formed = 1 .. Len(batches)
    BY <1>1 DEF Formed
<1> DEFINE S == OutputBuffers \union {None}
           T == Formed \union {None}
<1>3. output \in Seq(S) /\ source \in Seq(T) /\ Len(output) = Len(batches) /\ Len(source) = Len(batches)
    BY DEF Outputs, OutputTypes
<1> HIDE DEF S, T
<1>4. DOMAIN output = Formed /\ DOMAIN source = Formed
      /\ (\A k \in Formed : output[k] \in S) /\ (\A k \in Formed : source[k] \in T)
    BY <1>2, <1>3
<1> QED BY <1>1, <1>2, <1>4 DEF S, T, Outputs, FirstRound

\* A step that gives buffers back, or none.
LEMMA OutputsReturned ==
    ASSUME Inv, Outputs, UNCHANGED <<batches, output, taken, writer, source>>,
           NEW q \in Seq(OutputBuffers), outFree' = outFree \o q,
           running' \union AfterInfer' \subseteq running \union AfterInfer,
           PostQueued' \union posting' \subseteq PostQueued \union posting,
           \A r \in Requests : outcome'[r] = "value" => outcome[r] = "value"
    PROVE  Outputs'
<1>1. outFree \in Seq(OutputBuffers) /\ Formed' = Formed
    BY DEF Outputs, OutputTypes, Formed
<1>2. /\ outFree' \in Seq(OutputBuffers)
      /\ \A i \in DOMAIN outFree : i \in DOMAIN outFree' /\ outFree'[i] = outFree[i]
    BY <1>1
<1>3. OutputTypes'
    BY <1>1, <1>2 DEF Outputs, OutputTypes
<1>4. \A k \in Formed : \A r \in Items(batches[k].reqs) : r \in Requests
    BY MemberIsRequest
<1> QED BY <1>1, <1>2, <1>3, <1>4 DEF Outputs, FirstRound

\* A step that leaves the output buffers alone.
LEMMA OutputsLeft ==
    ASSUME Inv, Outputs, UNCHANGED <<batches, outFree, output, taken, writer, source>>,
           running' \union AfterInfer' \subseteq running \union AfterInfer,
           PostQueued' \union posting' \subseteq PostQueued \union posting,
           \A r \in Requests : outcome'[r] = "value" => outcome[r] = "value"
    PROVE  Outputs'
<1>1. <<>> \in Seq(OutputBuffers) /\ outFree' = outFree \o <<>>
    BY DEF Outputs, OutputTypes
<1> QED BY <1>1, OutputsReturned

\* call_back puts one buffer back for each closure that dies.
LEMMA Released ==
    ASSUME Inv, Outputs, NEW ks, ks \subseteq running \union AfterInfer, IsFiniteSet(ks),
           ReleaseOutputs(ks)
    PROVE  \E q \in Seq(OutputBuffers) : outFree' = outFree \o q
<1> DEFINE dying == SetToSeq(ks)
           n == Cardinality(ks)
           q == [i \in DOMAIN dying |-> output[dying[i]]]
<1>1. n \in Nat /\ \E f \in [1 .. n -> ks] : \A i, k \in 1 .. n : f[i] = f[k] => i = k
    BY Enumeration
<1>2. dying \in [1 .. n -> ks]
  <2>1. \E f \in [1 .. n -> ks] : IsInjective(f)
    BY <1>1 DEF IsInjective
  <2> QED BY <2>1 DEF SetToSeq
<1>3. \A k \in ks : output[k] \in OutputBuffers
    BY RecordsInRange
<1>4. outFree' = outFree \o q
    BY DEF ReleaseOutputs
<1> HIDE DEF dying, n
<1>5. q \in [1 .. n -> OutputBuffers]
    BY <1>2, <1>3
<1>6. q \in Seq(OutputBuffers)
    BY <1>1, <1>5
<1> QED BY <1>4, <1>6

\* A new batch has no output buffer yet.
LEMMA FormBatchOutputs ==
    ASSUME Inv, Inv', Outputs, FormBatch
    PROVE  Outputs'
<1> DEFINE S == OutputBuffers \union {None}
           n == Len(batches) + 1
           new == batches'[n]
<1>1. /\ output' = Append(output, None) /\ source' = Append(source, None)
      /\ UNCHANGED <<outcome, running, postQ, posting, postKept, outFree, taken, writer>>
      /\ Len(batches') = n /\ \A k \in Formed : batches'[k] = batches[k]
  <2> DEFINE b == [reqs |-> SubSeq(inputs, 1, Min({BatchSize, Len(inputs)})), buf |-> Head(inFree)]
             B == [reqs : Seq(Requests), buf : InputBuffers]
  <2>1. batches' = Append(batches, b) /\ batches \in Seq(B)
    BY DEF FormBatch, Inv, Types
  <2> HIDE DEF b, B
  <2>2. Len(batches') = n /\ \A k \in Formed : batches'[k] = batches[k]
    BY <2>1 DEF Formed
  <2> QED BY <2>2 DEF FormBatch, post
<1>2. /\ Len(batches) \in Nat /\ Formed = 1 .. Len(batches) /\ Formed' = 1 .. n
      /\ running \union AfterInfer \subseteq Formed
  <2>1. Len(batches') \in Nat /\ Formed' = 1 .. Len(batches')
    BY DEF Inv, Types, Formed
  <2> QED BY <1>1, <2>1, RecordsInRange
<1>3. /\ output' \in Seq(S) /\ Len(output') = n /\ output'[n] = None
      /\ \A k \in Formed : output'[k] = output[k]
  <2>1. output \in Seq(S) /\ None \in S /\ Len(output) = Len(batches)
    BY DEF Outputs, OutputTypes
  <2> HIDE DEF S
  <2> QED BY <1>1, <1>2, <2>1, AppendElements
<1>4. /\ source' \in Seq(Formed' \union {None}) /\ Len(source') = n
      /\ \A k \in Formed : source'[k] = source[k]
  <2>1. source \in Seq(Formed \union {None}) /\ Len(source) = Len(batches)
    BY DEF Outputs, OutputTypes
  <2> DEFINE T == Formed' \union {None}
  <2>2. source \in Seq(T) /\ None \in T
    BY <1>2, <2>1
  <2> HIDE DEF T
  <2>3. source' \in Seq(T) /\ Len(source') = n /\ \A k \in Formed : source'[k] = source[k]
    BY <1>1, <1>2, <2>1, <2>2, AppendElements
  <2> QED BY <2>3 DEF T
<1>5. writer \in [OutputBuffers -> Formed' \union {None}]
    BY <1>2 DEF Outputs, OutputTypes
<1>6. OutputTypes'
    BY <1>1, <1>3, <1>4, <1>5 DEF Outputs, OutputTypes
<1>7. \A r \in Items(new.reqs) : outcome[r] # "value"
  <2>1. n \in Formed' \ Formed /\ n \in Holding'
    <3>1. n \in Formed' \ Formed
      BY <1>2
    <3>2. result' = Append(result, <<>>) /\ result \in Seq(Seen) /\ Len(result) = Len(batches) /\ <<>> \in Seen
      BY DEF FormBatch, Inv, Types, Seen
    <3>3. result'[n] = <<>>
      BY <1>2, <3>2, AppendElements
    <3> QED BY <3>1, <3>3 DEF Holding
  <2>2. \A k \in Formed' : \A r \in Items(batches'[k].reqs) : r \in Items(new.reqs) => k = n
    BY <2>1 DEF Inv, Batches
  <2>3. \A r \in Items(new.reqs) : r \in Requests
    <3>1. batches' \in Seq([reqs : Seq(Requests), buf : InputBuffers])
      BY DEF Inv, Types
    <3>2. new \in [reqs : Seq(Requests), buf : InputBuffers]
      <4> DEFINE B == [reqs : Seq(Requests), buf : InputBuffers]
      <4>1. batches' \in Seq(B) /\ n \in DOMAIN batches'
        BY <2>1, <3>1 DEF Formed
      <4> HIDE DEF B
      <4>2. batches'[n] \in B
        BY <4>1
      <4> QED BY <4>2 DEF B
    <3> QED BY <3>2 DEF Items
  <2>4. \A r \in Requests : outcome'[r] = "value" => \E k \in Formed' \ Holding' : r \in Items(batches'[k].reqs)
    BY DEF Inv, Promises
  <2> QED BY <1>1, <2>1, <2>2, <2>3, <2>4
<1>8. AfterInfer' = AfterInfer /\ PostQueued' = PostQueued
    BY <1>1 DEF AfterInfer, PostQueued
<1>9. FirstRound'
  <2>1. \A k \in Formed' : k \in Formed \/ k = n
    BY <1>2
  <2>2. taken \in Nat
    BY DEF Outputs, OutputTypes
  <2>3. \A k \in Formed' : output'[k] <= taken'
    <3>1. taken' = taken /\ 0 <= taken /\ output'[n] = 0
      BY <1>1, <1>3, <2>2 DEF None
    <3>2. \A k \in Formed : output'[k] <= taken
      BY <1>3 DEF Outputs, FirstRound
    <3> HIDE DEF n
    <3> QED BY <2>1, <3>1, <3>2
  <2>4. \A k \in running' \union AfterInfer' : output'[k] # None
    BY <1>1, <1>2, <1>3, <1>8 DEF Outputs, FirstRound
  <2>5. ASSUME taken <= 2 * BufferSize
        PROVE  /\ \A k, l \in Formed' : output'[k] = output'[l] /\ output'[k] # None => k = l
               /\ \A k \in PostQueued' \union posting' : writer'[output'[k]] = k
               /\ \A k \in Formed' : \A r \in Items(batches'[k].reqs) : outcome'[r] = "value" => source'[k] = k
    <3>1. \A k, l \in Formed' : output'[k] = output'[l] /\ output'[k] # None => k = l
      BY <1>3, <2>1, <2>5 DEF Outputs, FirstRound
    <3>2. \A k \in PostQueued' \union posting' : writer'[output'[k]] = k
      BY <1>1, <1>2, <1>3, <1>8, <2>5 DEF Outputs, FirstRound, AfterInfer
    <3>3. \A k \in Formed' : \A r \in Items(batches'[k].reqs) : outcome'[r] = "value" => source'[k] = k
      BY <1>1, <1>4, <1>7, <2>1, <2>5 DEF Outputs, FirstRound
    <3> QED BY <3>1, <3>2, <3>3
  <2> QED BY <1>1, <2>3, <2>4, <2>5 DEF Outputs, FirstRound
<1> QED BY <1>6, <1>9 DEF Outputs

\* infer gets the buffer at the front of the queue: in the first round, one nobody has had.
LEMMA InferAcquireOutputs ==
    ASSUME Inv, Outputs, NEW k \in Formed, InferAcquire(k)
    PROVE  Outputs'
<1> DEFINE o == Head(outFree)
<1>1. /\ k \in waiting /\ outFree # <<>> /\ output' = [output EXCEPT ![k] = o]
      /\ outFree' = Tail(outFree) /\ taken' = taken + 1 /\ running' = running \union {k}
      /\ UNCHANGED <<outcome, batches, postQ, posting, postKept, writer, source>>
    BY DEF InferAcquire, TakeOutput, queue, post
<1>2. /\ o \in OutputBuffers /\ o = outFree[1] /\ outFree' \in Seq(OutputBuffers)
      /\ DOMAIN outFree = 1 .. Len(outFree) /\ DOMAIN outFree' = 1 .. Len(outFree) - 1
      /\ Len(outFree) \in Nat \ {0}
      /\ \A i \in 1 .. Len(outFree) - 1 : outFree'[i] = outFree[i + 1]
  <2>1. outFree \in Seq(OutputBuffers) /\ outFree # <<>>
    BY <1>1 DEF Outputs, OutputTypes
  <2> QED BY <1>1, <2>1, TailElements
<1> HIDE DEF o
<1>3. /\ o \in Nat \ {0} /\ o <= 2 * BufferSize /\ 2 * BufferSize \in Nat /\ taken \in Nat /\ taken' \in Nat
    BY <1>1, <1>2, BatchAssumption DEF OutputBuffers, Outputs, OutputTypes
<1>4. /\ Formed' = Formed /\ PostQueued' = PostQueued /\ AfterInfer' = AfterInfer
      /\ k \notin AfterInfer
    BY <1>1 DEF Formed, PostQueued, AfterInfer, Inv, Apart, InferBusy
<1>5. output'[k] = o /\ \A l \in Formed : l # k => output'[l] = output[l]
    BY <1>1, RecordsInRange
<1>6. OutputTypes'
  <2> DEFINE S == OutputBuffers \union {None}
  <2>1. output \in Seq(S) /\ o \in S /\ Len(output) = Len(batches)
    BY <1>2 DEF Outputs, OutputTypes
  <2> HIDE DEF S
  <2>2. output' \in Seq(S) /\ Len(output') = Len(batches')
    BY <1>1, <2>1, RecordsInRange, ElementReplaced
  <2> QED BY <1>1, <1>2, <1>3, <1>4, <2>2 DEF S, Outputs, OutputTypes
<1>7. taken < 2 * BufferSize => o = taken + 1
  <2>1. taken < 2 * BufferSize => 1 \in 1 .. 2 * BufferSize - taken
    BY <1>3
  <2> QED BY <1>2, <1>3, <2>1 DEF Outputs, FirstRound
<1>8. \A i \in 1 .. 2 * BufferSize - taken' : i \in DOMAIN outFree' /\ outFree'[i] = taken' + i
  <2> SUFFICES ASSUME NEW i \in 1 .. 2 * BufferSize - taken'
               PROVE  i \in DOMAIN outFree' /\ outFree'[i] = taken' + i
    OBVIOUS
  <2>1. i \in Nat \ {0} /\ i + 1 \in 1 .. 2 * BufferSize - taken
    BY <1>1, <1>3
  <2>2. i + 1 \in DOMAIN outFree /\ outFree[i + 1] = taken + (i + 1)
    BY <2>1 DEF Outputs, FirstRound
  <2> QED BY <1>1, <1>2, <1>3, <2>1, <2>2
<1>9. \A l \in Formed : output'[l] <= taken'
  <2>1. \A l \in Formed : output[l] \in Nat /\ output[l] <= taken
    BY RecordsInRange, BatchAssumption DEF Outputs, FirstRound, OutputBuffers, None
  <2>2. o <= taken'
    BY <1>1, <1>3, <1>7
  <2> QED BY <1>1, <1>3, <1>5, <2>1, <2>2
<1>10. \A l \in running' \union AfterInfer' : output'[l] # None
    BY <1>1, <1>2, <1>3, <1>4, <1>5, RecordsInRange DEF None, Outputs, FirstRound
<1>11. ASSUME taken' <= 2 * BufferSize
       PROVE  /\ \A l, m \in Formed : output'[l] = output'[m] /\ output'[l] # None => l = m
              /\ \A l \in PostQueued \union posting : writer[output'[l]] = l
              /\ \A l \in Formed : \A r \in Items(batches[l].reqs) : outcome[r] = "value" => source[l] = l
  <2>1. taken <= 2 * BufferSize /\ o = taken + 1
    BY <1>1, <1>3, <1>7, <1>11
  <2>2. \A l \in Formed : output[l] # o
    <3>1. \A l \in Formed : output[l] \in Nat /\ output[l] <= taken
      BY RecordsInRange, BatchAssumption DEF Outputs, FirstRound, OutputBuffers, None
    <3> QED BY <1>3, <2>1, <3>1
  <2>3. \A l, m \in Formed : output'[l] = output'[m] /\ output'[l] # None => l = m
    BY <1>5, <2>1, <2>2 DEF Outputs, FirstRound
  <2>4. \A l \in PostQueued \union posting : writer[output'[l]] = l
    BY <1>4, <1>5, <2>1, RecordsInRange DEF Outputs, FirstRound, AfterInfer
  <2> QED BY <2>1, <2>3, <2>4 DEF Outputs, FirstRound
<1>12. FirstRound'
    BY <1>1, <1>4, <1>8, <1>9, <1>10, <1>11 DEF FirstRound
<1> QED BY <1>6, <1>12 DEF Outputs

\* Run writes its batch's output buffer, which in the first round is nobody else's.
LEMMA InferRunOutputs ==
    ASSUME Inv, Outputs, NEW k \in Formed, InferRun(k)
    PROVE  Outputs'
<1>1. /\ k \in running /\ running' = running \ {k} /\ writer' = [writer EXCEPT ![output[k]] = k]
      /\ UNCHANGED <<batches, posting, postKept, output, taken, source>>
    BY DEF InferRun, queue
<1>2. /\ Formed' = Formed /\ PostQueued' \subseteq PostQueued \union {k}
      /\ \A r \in Requests : outcome'[r] = "value" => outcome[r] = "value"
      /\ \E q \in Seq(OutputBuffers) : outFree' = outFree \o q
  <2>1. CASE life \in {"alive", "closing"}
    <3>1. postQ' = Append(postQ, k) /\ outcome' = outcome /\ outFree' = outFree
      BY <2>1 DEF InferRun
    <3>2. Items(postQ') = Items(postQ) \union {k}
      <4>1. k \in Nat /\ postQ \in Seq(Nat)
        BY FormedNat DEF Inv, Types
      <4> QED BY <3>1, <4>1, ItemsPushed
    <3>3. <<>> \in Seq(OutputBuffers) /\ outFree' = outFree \o <<>>
      BY <3>1 DEF Outputs, OutputTypes
    <3> QED BY <1>1, <3>1, <3>2, <3>3 DEF Formed, PostQueued
  <2>2. CASE life \notin {"alive", "closing"}
    <3>1. postQ' = postQ /\ SettleAll(Members(k), "broken") /\ ReleaseOutputs({k})
      BY <2>2 DEF InferRun
    <3>2. \A r \in Requests : outcome'[r] = "value" => outcome[r] = "value"
      BY <3>1 DEF SettleAll
    <3>3. IsFiniteSet({k}) /\ {k} \subseteq running \union AfterInfer
      BY <1>1, FS_Singleton
    <3> QED BY <1>1, <3>1, <3>2, <3>3, Released DEF Formed, PostQueued
  <2> QED BY <2>1, <2>2
<1>3. PICK q \in Seq(OutputBuffers) : outFree' = outFree \o q
    BY <1>2
<1>4. /\ outFree' \in Seq(OutputBuffers)
      /\ \A i \in DOMAIN outFree : i \in DOMAIN outFree' /\ outFree'[i] = outFree[i]
  <2>1. outFree \in Seq(OutputBuffers)
    BY DEF Outputs, OutputTypes
  <2> QED BY <1>3, <2>1
<1>5. output[k] \in OutputBuffers /\ k \in Formed
    BY <1>1, RecordsInRange
<1>6. OutputTypes'
  <2>1. writer' \in [OutputBuffers -> Formed' \union {None}]
    BY <1>1, <1>2, <1>5 DEF Outputs, OutputTypes
  <2> QED BY <1>1, <1>2, <1>4, <2>1 DEF Outputs, OutputTypes
<1>7. AfterInfer' \subseteq AfterInfer \union {k}
    BY <1>1, <1>2 DEF AfterInfer
<1>8. ASSUME taken <= 2 * BufferSize
      PROVE  \A l \in PostQueued' \union posting : writer'[output[l]] = l
  <2>1. writer \in [OutputBuffers -> Formed \union {None}]
    BY DEF Outputs, OutputTypes
  <2> SUFFICES ASSUME NEW l \in PostQueued \union posting, l # k
               PROVE  writer'[output[l]] = l
    BY <1>1, <1>2, <1>5, <2>1
  <2>2. l \in AfterInfer /\ output[l] \in OutputBuffers /\ l \in Formed
    BY RecordsInRange DEF AfterInfer
  <2>3. output[l] # output[k] /\ writer[output[l]] = l
    BY <1>8, <1>1, <2>2 DEF Outputs, FirstRound
  <2> QED BY <1>1, <2>1, <2>2, <2>3
<1>9. \A l \in Formed : \A r \in Items(batches[l].reqs) : r \in Requests
    BY MemberIsRequest
<1>10. FirstRound'
    BY <1>1, <1>2, <1>4, <1>7, <1>8, <1>9 DEF Outputs, FirstRound
<1> QED BY <1>6, <1>10 DEF Outputs

\* postprocess has read its batch's output buffer, and its copy of model_out gives it back.
LEMMA PostExecuteOutputs ==
    ASSUME Inv, Outputs, NEW k \in Formed, PostExecute(k)
    PROVE  Outputs'
<1>1. /\ k \in posting /\ posting' = posting \ {k} /\ postKept' = postKept \union {k}
      /\ outFree' = Append(outFree, output[k]) /\ source' = [source EXCEPT ![k] = writer[output[k]]]
      /\ SettleAll(Members(k), "value")
      /\ UNCHANGED <<batches, running, postQ, output, taken, writer>>
    BY DEF PostExecute, PostReturns, queue, infer
<1>2. /\ k \in AfterInfer /\ output[k] \in OutputBuffers /\ DOMAIN source = Formed
      /\ Formed' = Formed /\ PostQueued' = PostQueued /\ AfterInfer' \subseteq AfterInfer
    BY <1>1, RecordsInRange DEF AfterInfer, Formed, PostQueued
<1>3. /\ outFree' \in Seq(OutputBuffers)
      /\ \A i \in DOMAIN outFree : i \in DOMAIN outFree' /\ outFree'[i] = outFree[i]
  <2>1. outFree \in Seq(OutputBuffers)
    BY DEF Outputs, OutputTypes
  <2> QED BY <1>1, <1>2, <2>1
<1>4. writer[output[k]] \in Formed \union {None}
    BY <1>2 DEF Outputs, OutputTypes
<1>5. source' \in Seq(Formed' \union {None}) /\ Len(source') = Len(batches')
  <2> DEFINE T == Formed \union {None}
  <2>1. source \in Seq(T) /\ Len(source) = Len(batches) /\ writer[output[k]] \in T
    BY <1>4 DEF Outputs, OutputTypes
  <2> HIDE DEF T
  <2>2. source' \in Seq(T) /\ Len(source') = Len(batches)
    BY <1>1, <1>2, <2>1, ElementReplaced
  <2> QED BY <1>1, <1>2, <2>2 DEF T
<1>6. OutputTypes'
    BY <1>1, <1>2, <1>3, <1>5 DEF Outputs, OutputTypes
<1>7. ASSUME taken <= 2 * BufferSize
      PROVE  \A l \in Formed : \A r \in Items(batches[l].reqs) : outcome'[r] = "value" => source'[l] = l
  <2> SUFFICES ASSUME NEW l \in Formed, NEW r \in Items(batches[l].reqs), outcome'[r] = "value"
               PROVE  source'[l] = l
    OBVIOUS
  <2>1. CASE l = k
    BY <1>1, <1>2, <1>7, <2>1 DEF Outputs, FirstRound
  <2>2. CASE l # k
    <3>1. r \notin Members(k) /\ r \in Requests
      BY <2>2, MembersAre, MemberIsRequest DEF Inv, Batches
    <3>2. outcome[r] = "value" /\ source'[l] = source[l]
      BY <1>1, <1>2, <2>2, <3>1 DEF SettleAll
    <3> QED BY <1>7, <3>2 DEF Outputs, FirstRound
  <2> QED BY <2>1, <2>2
<1>8. FirstRound'
    BY <1>1, <1>2, <1>3, <1>7 DEF Outputs, FirstRound
<1> QED BY <1>6, <1>8 DEF Outputs

\* Every step of the system keeps the first round's buffers apart.
LEMMA NextOutputs == Inv /\ Inv' /\ Outputs /\ [Next]_vars => Outputs'
<1> SUFFICES ASSUME Inv, Inv', Outputs, [Next]_vars PROVE Outputs'
    OBVIOUS
<1>1. ASSUME UNCHANGED <<batches, outFree, output, taken, writer, source, running, post>>,
             \A r \in Requests : outcome'[r] = "value" => outcome[r] = "value"
      PROVE  Outputs'
    BY <1>1, OutputsLeft DEF post, AfterInfer, PostQueued
<1>2. CASE Submit
  <2>1. \A r \in Requests : outcome'[r] = "value" => outcome[r] = "value"
    BY <1>2 DEF Submit, Inv, Types
  <2> QED BY <1>1, <1>2, <2>1 DEF Submit, infer, outBufs
<1>3. CASE Wake \/ WorkerExit \/ Close \/ WorkerJoined \/ UNCHANGED vars
    BY <1>1, <1>3 DEF Wake, WorkerExit, Close, WorkerJoined, vars, queue, infer, outBufs
<1>4. CASE PreTake \/ \E r \in Requests : PreExecute(r) \/ PreThrow(r)
    BY <1>1, <1>4 DEF PreTake, PreExecute, PreThrow, queue, infer, outBufs
<1>5. CASE InferTake \/ InferPoolJoined
    BY <1>1, <1>5 DEF InferTake, InferPoolJoined, queue, outBufs
<1>6. CASE PrePoolJoined
  <2>1. \A r \in Requests : outcome'[r] = "value" => outcome[r] = "value"
    BY <1>6 DEF PrePoolJoined, SettleAll
  <2> QED BY <1>1, <1>6, <2>1 DEF PrePoolJoined, queue, infer, outBufs
<1>7. CASE PostTake
  <2>1. PICK dying \in Idle(posting, postKept) : postKept' = postKept \ dying /\ ReleaseOutputs(dying)
    BY <1>7 DEF PostTake
  <2>2. dying \subseteq running \union AfterInfer /\ IsFiniteSet(dying)
    <3>1. dying = {} \/ \E k \in postKept : dying = {k}
      BY DEF Idle
    <3>2. dying \subseteq postKept
      BY <3>1
    <3>3. IsFiniteSet(dying)
      BY <3>1, FS_EmptySet, FS_Singleton
    <3> QED BY <3>2, <3>3 DEF AfterInfer
  <2>3. PICK q \in Seq(OutputBuffers) : outFree' = outFree \o q
    BY <2>1, <2>2, Released
  <2>4. Items(postQ) = Items(postQ') \union {Head(postQ)} /\ posting' = posting \union {Head(postQ)}
    BY <1>7, ItemsTaken DEF PostTake, Inv, Types
  <2>5. /\ PostQueued' \union posting' \subseteq PostQueued \union posting
        /\ running' \union AfterInfer' \subseteq running \union AfterInfer
    BY <1>7, <2>1, <2>4 DEF PostTake, infer, PostQueued, AfterInfer
  <2> QED BY <1>7, <2>3, <2>5, OutputsReturned DEF PostTake, queue
<1>8. CASE PostPoolJoined
  <2>1. postKept \subseteq running \union AfterInfer /\ IsFiniteSet(postKept)
    BY DEF AfterInfer, Inv, Staff, Staffed
  <2>2. PICK q \in Seq(OutputBuffers) : outFree' = outFree \o q
    BY <1>8, <2>1, Released DEF PostPoolJoined
  <2>3. /\ PostQueued' \union posting' \subseteq PostQueued \union posting
        /\ running' \union AfterInfer' \subseteq running \union AfterInfer
    BY <1>8 DEF PostPoolJoined, infer, PostQueued, AfterInfer
  <2> QED BY <1>8, <2>2, <2>3, OutputsReturned DEF PostPoolJoined, queue
<1>9. CASE FormBatch
    BY <1>9, FormBatchOutputs
<1>10. ASSUME NEW k \in Formed, Batch(k) \/ Throws(k) PROVE Outputs'
  <2>1. CASE InferPreFailed(k) \/ InferThrow(k)
    <3>1. \A r \in Requests : outcome'[r] = "value" => outcome[r] = "value"
      BY <2>1 DEF InferPreFailed, InferThrow, SettleAll
    <3>2. running' \subseteq running /\ UNCHANGED <<batches, outBufs, post>>
      BY <2>1 DEF InferPreFailed, InferThrow, queue
    <3> QED BY <3>1, <3>2, OutputsLeft DEF outBufs, post, AfterInfer, PostQueued
  <2>2. CASE InferAcquire(k) \/ InferRun(k) \/ PostExecute(k)
    BY <2>2, InferAcquireOutputs, InferRunOutputs, PostExecuteOutputs
  <2>3. CASE PostThrow(k)
    <3>1. \A r \in Requests : outcome'[r] = "value" => outcome[r] = "value"
      BY <2>3 DEF PostThrow, PostReturns, SettleAll
    <3>2. output[k] \in OutputBuffers /\ k \in posting
      BY <2>3, RecordsInRange DEF PostThrow, PostReturns, AfterInfer
    <3>3. <<output[k]>> \in Seq(OutputBuffers) /\ outFree' = outFree \o <<output[k]>>
      BY <2>3, <3>2 DEF PostThrow, PostReturns, Outputs, OutputTypes
    <3>4. /\ PostQueued' \union posting' \subseteq PostQueued \union posting
          /\ running' \union AfterInfer' \subseteq running \union AfterInfer
      BY <2>3, <3>2 DEF PostThrow, PostReturns, infer, PostQueued, AfterInfer
    <3> QED BY <2>3, <3>1, <3>3, <3>4, OutputsReturned DEF PostThrow, PostReturns, queue
  <2> QED BY <1>10, <2>1, <2>2, <2>3 DEF Batch, Throws
<1> QED BY <1>2, <1>3, <1>4, <1>5, <1>6, <1>7, <1>8, <1>9, <1>10
        DEF Next, BatchWorker, PreStage, Joins, Formed

\* At first nobody has had a buffer.
LEMMA InitOutputs == Init => Outputs
<1> SUFFICES ASSUME Init PROVE Outputs
    OBVIOUS
<1>1. /\ Formed = {} /\ running = {} /\ AfterInfer = {} /\ PostQueued \union posting = {}
    BY DEF Init, Formed, AfterInfer, PostQueued, Items
<1>2. 2 * BufferSize \in Nat /\ taken = 0 /\ None = 0
    BY BatchAssumption DEF Init, None
<1>3. outFree \in Seq(OutputBuffers) /\ DOMAIN outFree = 1 .. 2 * BufferSize
      /\ \A i \in 1 .. 2 * BufferSize : outFree[i] = i
  <2>1. outFree \in [1 .. 2 * BufferSize -> OutputBuffers]
    BY DEF Init, OutputBuffers
  <2> QED BY <1>2, <2>1 DEF Init, OutputBuffers
<1>4. OutputTypes
    BY <1>1, <1>2, <1>3 DEF Init, OutputTypes
<1> QED BY <1>1, <1>2, <1>3, <1>4 DEF Outputs, FirstRound

\* So it is in every behaviour.
THEOREM OutputsInvariant == Spec => []Outputs
<1>1. Inv /\ Inv' /\ Outputs /\ [Next]_vars => Outputs'
    BY NextOutputs
<1> QED BY <1>1, InitOutputs, Invariant, PTL DEF Spec

------------------------------------------------------------------------------
StrayedType == strayed \in BOOLEAN

\* strayed is a truth value.
LEMMA StrayedBoolean == Spec => []StrayedType
<1>1. Init => StrayedType
    BY Zenon DEF Init, StrayedType
<1>2. StrayedType /\ [Next]_vars => StrayedType'
  <2> SUFFICES ASSUME StrayedType, [Next]_vars PROVE StrayedType'
    OBVIOUS
  <2>1. strayed' = strayed \/ \E r \in Requests : PreExecute(r)
    BY DEF Next, vars, inBufs, BatchWorker, Wake, FormBatch, WorkerExit, PreStage, PreTake, PreThrow,
           Submit, InferTake, PostTake, Batch, Throws, InferPreFailed, InferAcquire, InferRun, InferThrow,
           PostExecute, PostThrow, PostReturns, Close, Joins, WorkerJoined, PostPoolJoined,
           InferPoolJoined, PrePoolJoined
  <2>2. ASSUME NEW r \in Requests, PreExecute(r) PROVE StrayedType'
    BY <2>2, Zenon DEF PreExecute, StrayedType
  <2> QED BY <2>1, <2>2, Zenon DEF StrayedType
<1> QED BY <1>1, <1>2, PTL DEF Spec

\* The variables keep their types; no pool runs more jobs than it has workers, and no
\* input buffer is on offer twice.  (Of the output buffers that does not hold.)
THEOREM TypeCorrect == Spec => []TypeOK
<1>1. Inv /\ Outputs /\ StrayedType => TypeOK
  <2> SUFFICES ASSUME Inv, Outputs, StrayedType PROVE TypeOK
    OBVIOUS
  <2>1. /\ Cardinality(InferBusy \union inferKept) <= BufferSize
        /\ Cardinality(posting \union postKept) <= BufferSize
    BY StaffUnion DEF Inv, Staff, Apart
  <2>2. \A pool \in {waiting \union running \union inferKept, posting \union postKept} :
            Cardinality(pool) <= BufferSize
    BY <2>1 DEF InferBusy
  <2>3. \A q \in {inferQ, postQ} : q \in Seq(DOMAIN batches)
    <3>1. Items(inferQ) \subseteq Formed /\ Items(postQ) \subseteq Formed
      BY DEF Inv, Types, InferQueued, PostQueued, AfterInfer
    <3>2. ASSUME NEW q \in Seq(Nat), Items(q) \subseteq Formed PROVE q \in Seq(Formed)
      BY <3>2 DEF Items
    <3> QED BY <3>1, <3>2 DEF Inv, Types, Formed
  <2>4. \A jobs \in {waiting, running, inferKept, posting, postKept} : jobs \subseteq DOMAIN batches
    BY DEF Inv, Types, InferBusy, AfterInfer, Formed
  <2>5. Len(inFree) <= BufferSize
    BY FreeInputs
  <2>6. /\ outFree \in Seq(OutputBuffers) /\ output \in Seq(OutputBuffers \union {None})
        /\ taken \in Nat /\ writer \in [OutputBuffers -> DOMAIN batches \union {None}]
        /\ source \in Seq(DOMAIN batches \union {None})
        /\ Len(output) = Len(batches) /\ Len(source) = Len(batches)
    BY DEF Outputs, OutputTypes, Formed
  <2> QED BY <2>2, <2>3, <2>4, <2>5, <2>6 DEF Inv, Types, TypeOK, StrayedType
<1> QED BY <1>1, Invariant, OutputsInvariant, StrayedBoolean, PTL

\* A future's value comes from the image it was submitted with, and from the output of
\* its own batch, until an output buffer is handed out for the second time or a task
\* has written through a row_buf that dangles.
THEOREM OwnResults == Spec => []EachGetsItsOwnAtFirst
<1>1. Inv /\ Outputs => EachGetsItsOwnAtFirst
  <2> SUFFICES ASSUME Inv, Outputs, taken <= Cardinality(OutputBuffers), ~strayed,
                      NEW r \in Requests, outcome[r] = "value"
               PROVE  result[BatchOf(r)][RowOf(r)] = r /\ source[BatchOf(r)] = BatchOf(r)
    BY DEF EachGetsItsOwnAtFirst, EachGetsItsOwn
  <2>1. PICK k \in Formed \ Holding : r \in Items(batches[k].reqs)
    BY DEF Inv, Promises
  <2>2. PICK i \in DOMAIN batches[k].reqs : batches[k].reqs[i] = r
    BY <2>1 DEF Items
  <2>3. BatchOf(r) = k /\ RowOf(r) = i
    BY <2>2, PlaceOf
  <2>4. result[k][i] = r
    BY <2>2 DEF Inv, Data, OwnRows
  <2>5. taken <= 2 * BufferSize
    <3>1. 2 * BufferSize \in Nat /\ \A m \in Nat : Cardinality(1 .. m) = m
      BY BatchAssumption, FS_Interval
    <3> QED BY <3>1 DEF OutputBuffers
  <2>6. source[k] = k
    BY <2>1, <2>5 DEF Outputs, FirstRound
  <2> QED BY <2>3, <2>4, <2>6
<1> QED BY <1>1, Invariant, OutputsInvariant, PTL

\* The raw pointer of a preprocessing task is good for as long as anybody waits
\* for the task.
THEOREM RowBuffersLive == Spec => []RowBufferOutlivesPreprocess
<1>1. Inv => RowBufferOutlivesPreprocess
  <2> SUFFICES ASSUME Inv, NEW r \in Elements(preQ) \union preRunning
               PROVE  \/ \E s \in Members(BatchOf(r)) : preFuture[s] = "exception"
                      \/ BatchOf(r) \in Elements(inferQ) \union waiting \union running \union inferKept
    BY DEF RowBufferOutlivesPreprocess, TensorBufferAlive
  <2>1. r \in Pending
    BY DEF Pending, Items, Elements
  <2>2. PICK k \in Formed : preFuture[r] = "empty" /\ r \in Items(batches[k].reqs)
    BY <2>1 DEF Inv, Tasks
  <2>3. PICK i \in DOMAIN batches[k].reqs : batches[k].reqs[i] = r
    BY <2>2 DEF Items
  <2>4. BatchOf(r) = k
    BY <2>3, PlaceOf
  <2>5. k \in Holding
    BY <2>2 DEF Inv, Tasks
  <2>6. k \in InferQueued \union InferBusy \/ \E s \in Items(batches[k].reqs) : preFuture[s] = "exception"
    BY <2>2, <2>5 DEF Inv, Tasks
  <2> QED BY <2>4, <2>6, MembersAre DEF InferQueued, InferBusy, Items, Elements
<1> QED BY <1>1, Invariant, PTL

\* A step that settles pending promises only is one the scheduler's interface allows.
LEMMA SettlesMany ==
    ASSUME Types, Types', isClose' = isClose,
           \A r \in Requests :
               outcome'[r] = outcome[r]
               \/ (outcome[r] = "pending" /\ outcome'[r] \in {"value", "exception", "broken"})
    PROVE  [Service!SchedulerNext]_(Service!schedulerVars)
BY DEF Types, Service!SchedulerNext, Service!Settle, Service!Settled, Service!schedulerVars

\* BatchScheduler implements InferenceScheduler: each future becomes ready at most
\* once, and none is made after close.
THEOREM Refinement == Spec => ImplementsScheduler
<1>1. Init => Service!SchedulerInit
    BY DEF Init, isClose, Service!SchedulerInit
<1>2. Inv /\ Inv' /\ [Next]_vars => [Service!SchedulerNext]_(Service!schedulerVars)
  <2> SUFFICES ASSUME Inv, Inv', [Next]_vars
               PROVE  [Service!SchedulerNext]_(Service!schedulerVars)
    OBVIOUS
  <2>1. Types /\ Types' /\ Promises
    BY DEF Inv
  <2>2. CASE UNCHANGED outcome /\ isClose' = isClose
    BY <2>1, <2>2, SettlesMany
  <2>3. ASSUME NEW rs, NEW how \in {"value", "exception", "broken"}, SettleAll(rs, how),
               \A r \in rs : r \in Requests => outcome[r] = "pending", isClose' = isClose
        PROVE  [Service!SchedulerNext]_(Service!schedulerVars)
    <3>1. \A r \in Requests :
            outcome'[r] = outcome[r]
            \/ (outcome[r] = "pending" /\ outcome'[r] \in {"value", "exception", "broken"})
      BY <2>3 DEF SettleAll
    <3> QED BY <2>1, <2>3, <3>1, SettlesMany
  <2>4. ASSUME NEW k \in Unsettled, NEW how \in {"value", "exception", "broken"},
               SettleAll(Members(k), how), UNCHANGED life
        PROVE  [Service!SchedulerNext]_(Service!schedulerVars)
    <3>1. \A r \in Members(k) : outcome[r] = "pending"
      BY <2>1, MembersAre DEF Promises
    <3> QED BY <2>3, <2>4, <3>1 DEF isClose
  <2>5. CASE UNCHANGED vars
    BY <2>2, <2>5 DEF vars, isClose
  <2>6. CASE Submit
    BY <2>1, <2>6 DEF Submit, isClose, Types, Service!SchedulerNext, Service!Submit
  <2>7. CASE BatchWorker \/ PreTake \/ InferTake \/ PostTake
    BY <2>2, <2>7 DEF BatchWorker, Wake, FormBatch, WorkerExit, PreTake, InferTake, PostTake, isClose
  <2>8. ASSUME NEW r \in Requests, PreExecute(r) \/ PreThrow(r)
        PROVE  [Service!SchedulerNext]_(Service!schedulerVars)
    BY <2>2, <2>8 DEF PreExecute, PreThrow, isClose
  <2>9. ASSUME NEW k \in DOMAIN batches, Batch(k) \/ Throws(k)
        PROVE  [Service!SchedulerNext]_(Service!schedulerVars)
    <3>1. CASE InferAcquire(k)
      BY <2>2, <3>1 DEF InferAcquire, isClose
    <3>2. CASE InferPreFailed(k) \/ InferThrow(k)
      BY <2>4, <3>2 DEF InferPreFailed, InferThrow, Unsettled, InferBusy
    <3>3. CASE InferRun(k)
      <4>1. k \in Unsettled /\ life' = life
        BY <3>3 DEF InferRun, Unsettled, InferBusy
      <4>2. UNCHANGED outcome \/ SettleAll(Members(k), "broken")
        BY <3>3 DEF InferRun
      <4> QED BY <2>2, <2>4, <4>1, <4>2 DEF isClose
    <3>4. CASE PostExecute(k) \/ PostThrow(k)
      BY <2>4, <3>4 DEF PostExecute, PostThrow, PostReturns, Unsettled
    <3> QED BY <2>9, <3>1, <3>2, <3>3, <3>4 DEF Batch, Throws
  <2>10. CASE Close
    BY <2>10 DEF Close, isClose, Service!SchedulerNext, Service!Stop
  <2>11. CASE Joins
    <3>1. CASE PrePoolJoined
      <4>1. \A r \in Elements(inputs) : outcome[r] = "pending"
        BY <2>1, <3>1 DEF PrePoolJoined, Promises, Items, Elements
      <4>2. SettleAll(Elements(inputs), "broken") /\ isClose' = isClose
        BY <3>1 DEF PrePoolJoined, isClose
      <4> QED BY <2>3, <4>1, <4>2
    <3>2. CASE WorkerJoined \/ PostPoolJoined \/ InferPoolJoined
      BY <2>2, <3>2 DEF WorkerJoined, PostPoolJoined, InferPoolJoined, isClose
    <3> QED BY <2>11, <3>1, <3>2 DEF Joins
  <2> QED BY <2>5, <2>6, <2>7, <2>8, <2>9, <2>10, <2>11 DEF Next, PreStage
<1> QED BY <1>1, <1>2, Invariant, PTL DEF Spec, ImplementsScheduler, Service!SchedulerSpec

------------------------------------------------------------------------------
(* The destructor leaves no future pending.                                *)
(*                                                                         *)
(* A promise that is pending is in the queue or in a batch on its way, and *)
(* a pool that has been joined has nothing left: so once the pools are     *)
(* gone a pending promise can only be in the queue, where it breaks.       *)

Awaited ==
    \A r \in Requests : outcome[r] = "pending" =>
        r \in Items(inputs) \/ \E k \in Unsettled : r \in Items(batches[k].reqs)

Drained ==
    /\ life \in {"inferPool", "prePool", "gone"} => postQ = <<>> /\ posting = {}
    /\ life \in {"prePool", "gone"} => inferQ = <<>> /\ waiting = {} /\ running = {}

\* A step that settles the promises of at most one batch, and takes none off its
\* way but that.
LEMMA StillAwaited ==
    ASSUME Types, Awaited, NEW rs, NEW how \in {"value", "exception", "broken"},
           UNCHANGED outcome \/ SettleAll(rs, how),
           Items(inputs) \subseteq Items(inputs'),
           \A k \in Formed : batches'[k] = batches[k],
           \A k \in Unsettled :
               k \in Unsettled' \/ (SettleAll(rs, how) /\ Items(batches[k].reqs) \subseteq rs)
    PROVE  Awaited'
<1>1. Unsettled \subseteq Formed
    BY DEF Types, Unsettled, AfterInfer
<1> SUFFICES ASSUME NEW r \in Requests, outcome'[r] = "pending"
             PROVE  r \in Items(inputs') \/ \E k \in Unsettled' : r \in Items(batches'[k].reqs)
    BY DEF Awaited
<1>2. outcome[r] = "pending" /\ (SettleAll(rs, how) => r \notin rs)
    BY DEF SettleAll
<1>3. CASE r \in Items(inputs)
    BY <1>3
<1>4. ASSUME NEW k \in Unsettled, r \in Items(batches[k].reqs)
      PROVE  \E l \in Unsettled' : r \in Items(batches'[l].reqs)
  <2>1. k \in Unsettled'
    BY <1>2, <1>4
  <2> QED BY <1>1, <1>4, <2>1
<1> QED BY <1>2, <1>3, <1>4 DEF Awaited

\* A new batch: what leaves the queue is in it, and it is queued for inference.
LEMMA FormBatchAwaited ==
    ASSUME Inv, Awaited, FormBatch
    PROVE  Awaited'
<1> DEFINE size == Min({BatchSize, Len(inputs)})
           reqs == SubSeq(inputs, 1, size)
           rest == SubSeq(inputs, size + 1, Len(inputs))
           new == [reqs |-> reqs, buf |-> Head(inFree)]
           n == Len(batches) + 1
<1>1. Items(reqs) \union Items(rest) = Items(inputs) /\ reqs \in Seq(Requests)
    BY BatchCut
<1>2. /\ inputs' = rest /\ batches' = Append(batches, new) /\ inferQ' = Append(inferQ, n)
      /\ UNCHANGED <<outcome, waiting, running, postQ, posting>>
    BY DEF FormBatch, post
<1>3. Head(inFree) \in InputBuffers
    BY TailElements DEF FormBatch, Inv, Types
<1>4. new.reqs = reqs /\ new \in [reqs : Seq(Requests), buf : InputBuffers]
    BY <1>1, <1>3
<1> HIDE DEF size, reqs, rest, new
<1>5. /\ batches'[n] = new
      /\ \A k \in Formed : batches'[k] = batches[k]
      /\ n \in Nat
    BY <1>2, <1>4, AppendElements DEF Inv, Types, Formed
<1>6. Items(inferQ') = Items(inferQ) \union {n}
  <2>1. inferQ \in Seq(Nat) /\ n \in Nat
    BY <1>5 DEF Inv, Types
  <2> HIDE DEF n
  <2> QED BY <1>2, <2>1, ItemsPushed
<1>7. Unsettled' = Unsettled \union {n} /\ Unsettled \subseteq Formed
    BY <1>2, <1>6 DEF Inv, Types, Unsettled, InferQueued, InferBusy, PostQueued, AfterInfer
<1> SUFFICES ASSUME NEW r \in Requests, outcome'[r] = "pending"
             PROVE  r \in Items(inputs') \/ \E k \in Unsettled' : r \in Items(batches'[k].reqs)
    BY DEF Awaited
<1>8. CASE r \in Items(inputs)
    BY <1>1, <1>2, <1>4, <1>5, <1>7, <1>8
<1>9. CASE \E k \in Unsettled : r \in Items(batches[k].reqs)
    BY <1>5, <1>7, <1>9
<1> QED BY <1>2, <1>8, <1>9 DEF Awaited

\* A submitted image is in the queue.
LEMMA SubmitAwaited ==
    ASSUME Inv, Awaited, Submit
    PROVE  Awaited'
<1>1. PICK r \in Requests : outcome' = [outcome EXCEPT ![r] = "pending"] /\ inputs' = Append(inputs, r)
    BY DEF Submit
<1>2. Items(inputs') = Items(inputs) \union {r}
    BY <1>1, ItemsPushed DEF Inv, Types
<1>3. Unsettled' = Unsettled /\ batches' = batches
    BY DEF Submit, infer, post, Unsettled, InferQueued, InferBusy, PostQueued
<1>4. \A s \in Requests : s # r => outcome'[s] = outcome[s]
    BY <1>1 DEF Inv, Types
<1> QED BY <1>2, <1>3, <1>4 DEF Awaited

\* Run returns: its batch goes to the post pool, or its promises break.
LEMMA InferRunAwaited ==
    ASSUME Inv, Awaited, NEW k \in Formed, InferRun(k)
    PROVE  Awaited'
<1>1. UNCHANGED <<inputs, batches>> /\ InferQueued' = InferQueued /\ InferBusy' \union {k} = InferBusy
      /\ posting' = posting
    BY DEF InferRun, queue, InferQueued, InferBusy, Inv, Apart
<1>2. CASE life \in {"alive", "closing"}
  <2>1. Items(postQ') = Items(postQ) \union {k} /\ UNCHANGED outcome
    <3>1. postQ' = Append(postQ, k) /\ UNCHANGED outcome
      BY <1>2 DEF InferRun
    <3>2. postQ \in Seq(Nat) /\ k \in Nat
      BY FormedNat DEF Inv, Types
    <3> QED BY <3>1, <3>2, ItemsPushed
  <2>2. Unsettled \subseteq Unsettled'
    BY <1>1, <2>1 DEF Unsettled, PostQueued
  <2> QED BY <1>1, <2>1, <2>2, StillAwaited DEF Inv
<1>3. CASE life \notin {"alive", "closing"}
  <2>1. UNCHANGED postQ /\ SettleAll(Members(k), "broken")
    BY <1>3 DEF InferRun
  <2>2. Unsettled \subseteq Unsettled' \union {k}
    BY <1>1, <2>1 DEF Unsettled, PostQueued
  <2> QED BY <1>1, <2>1, <2>2, MembersAre, StillAwaited DEF Inv
<1> QED BY <1>2, <1>3

\* No step of the system loses a promise.
LEMMA NextAwaited == Inv /\ Awaited /\ [Next]_vars => Awaited'
<1> SUFFICES ASSUME Inv, Awaited, [Next]_vars PROVE Awaited'
    OBVIOUS
<1>1. Types
    BY DEF Inv
<1>2. ASSUME UNCHANGED <<outcome, inputs, batches>>, Unsettled \subseteq Unsettled'
      PROVE  Awaited'
    BY <1>1, <1>2, StillAwaited
<1>3. ASSUME NEW k \in Formed, NEW how \in {"value", "exception"}, SettleAll(Members(k), how),
             UNCHANGED <<inputs, batches>>, Unsettled \subseteq Unsettled' \union {k}
      PROVE  Awaited'
    BY <1>1, <1>3, MembersAre, StillAwaited
<1>4. CASE Wake \/ WorkerExit \/ Close \/ WorkerJoined \/ UNCHANGED vars
  <2>1. UNCHANGED <<outcome, inputs, batches, infer, post>>
    BY <1>4 DEF Wake, WorkerExit, Close, WorkerJoined, vars, queue
  <2> QED BY <1>2, <2>1 DEF infer, post, Unsettled, InferQueued, InferBusy, PostQueued
<1>5. CASE Submit \/ FormBatch
    BY <1>5, SubmitAwaited, FormBatchAwaited
<1>6. CASE PreTake \/ \E r \in Requests : PreExecute(r) \/ PreThrow(r)
  <2>1. UNCHANGED <<outcome, queue, infer, post>>
    BY <1>6 DEF PreTake, PreExecute, PreThrow
  <2> QED BY <1>2, <2>1 DEF queue, infer, post, Unsettled, InferQueued, InferBusy, PostQueued
<1>7. CASE InferTake
  <2>1. Items(inferQ) = Items(inferQ') \union {Head(inferQ)}
    BY <1>1, <1>7, ItemsTaken DEF InferTake, Types
  <2> QED BY <1>2, <1>7, <2>1
          DEF InferTake, queue, post, Unsettled, InferQueued, InferBusy, PostQueued
<1>8. CASE PostTake
  <2>1. Items(postQ) = Items(postQ') \union {Head(postQ)}
    BY <1>1, <1>8, ItemsTaken DEF PostTake, Types
  <2> QED BY <1>2, <1>8, <2>1
          DEF PostTake, queue, infer, Unsettled, InferQueued, InferBusy, PostQueued
<1>9. ASSUME NEW k \in Formed, Batch(k) \/ Throws(k) PROVE Awaited'
  <2>1. CASE InferAcquire(k)
    BY <1>2, <2>1 DEF InferAcquire, queue, post, Unsettled, InferQueued, InferBusy, PostQueued
  <2>2. CASE InferPreFailed(k) \/ InferThrow(k)
    BY <1>3, <2>2
       DEF InferPreFailed, InferThrow, queue, post, Unsettled, InferQueued, InferBusy, PostQueued
  <2>3. CASE InferRun(k)
    BY <2>3, InferRunAwaited
  <2>4. CASE PostExecute(k) \/ PostThrow(k)
    BY <1>3, <2>4
       DEF PostExecute, PostThrow, PostReturns, queue, infer, Unsettled, InferQueued, InferBusy, PostQueued
  <2> QED BY <1>9, <2>1, <2>2, <2>3, <2>4 DEF Batch, Throws
<1>10. CASE PostPoolJoined \/ InferPoolJoined
    BY <1>2, <1>10
       DEF PostPoolJoined, InferPoolJoined, queue, infer, post, Unsettled, InferQueued, InferBusy, PostQueued
<1>11. CASE PrePoolJoined
  <2>1. SettleAll(Elements(inputs), "broken") /\ UNCHANGED <<queue, infer, post>>
    BY <1>11 DEF PrePoolJoined
  <2>2. UNCHANGED <<inputs, batches>> /\ Unsettled' = Unsettled
    BY <2>1 DEF queue, infer, post, Unsettled, InferQueued, InferBusy, PostQueued
  <2> QED BY <1>1, <2>1, <2>2, StillAwaited
<1> QED BY <1>4, <1>5, <1>6, <1>7, <1>8, <1>9, <1>10, <1>11
        DEF Next, BatchWorker, PreStage, Joins, Formed

\* Nothing comes to a pool that has been joined: the batching thread has left, and
\* what Run returns meanwhile is refused.
LEMMA NextDrained == Inv /\ Drained /\ [Next]_vars => Drained'
<1> SUFFICES ASSUME Inv, Drained, [Next]_vars PROVE Drained'
    OBVIOUS
<1>1. CASE Submit \/ BatchWorker \/ Close \/ UNCHANGED vars
    BY <1>1 DEF Submit, BatchWorker, Wake, FormBatch, WorkerExit, Close, vars, queue, infer, post,
                Drained, Inv, Closing
<1>2. CASE Joins
    BY <1>2 DEF Joins, WorkerJoined, PostPoolJoined, InferPoolJoined, PrePoolJoined, queue, infer, post,
                Drained
<1>3. CASE PreStage \/ \E r \in Requests : PreThrow(r)
    BY <1>3 DEF PreStage, PreTake, PreExecute, PreThrow, infer, post, Drained
<1>4. CASE InferTake \/ PostTake
    BY <1>4 DEF InferTake, PostTake, infer, post, Drained
<1>5. ASSUME NEW k \in Formed, Batch(k) \/ Throws(k) PROVE Drained'
    BY <1>5 DEF Batch, Throws, InferPreFailed, InferAcquire, InferRun, InferThrow, PostExecute, PostThrow,
                PostReturns, infer, post, Drained
<1> QED BY <1>1, <1>2, <1>3, <1>4, <1>5 DEF Next, Formed

\* When the thread has left there is less than a batch in the queue, and when the
\* destructor has returned no future is pending.
THEOREM CloseSettles == Spec => []CloseSettlesAll
<1>1. Init => Awaited /\ Drained
    BY DEF Init, Awaited, Drained
<1>2. Inv /\ Awaited /\ Drained => CloseSettlesAll
  <2> SUFFICES ASSUME Inv, Awaited, Drained PROVE CloseSettlesAll
    OBVIOUS
  <2>1. life = "gone" => Unsettled = {}
    BY DEF Drained, Unsettled, InferQueued, InferBusy, PostQueued, Items
  <2>2. life = "gone" => \A r \in Items(inputs) : outcome[r] = "broken"
    BY DEF Inv, Promises
  <2> QED BY <2>1, <2>2 DEF Awaited, Inv, Closing, CloseSettlesAll
<1> QED BY <1>1, <1>2, NextAwaited, NextDrained, Invariant, PTL DEF Spec

\* (comment on the exit test: "if there is nothing to infer and it has stopped, leave")
\* The comment is right of a scheduler whose batches are single images.
THEOREM NothingLeftOfSingles ==
    ASSUME BatchSize = 1
    PROVE  Spec => []NothingToInferAtExit
<1>1. Inv => NothingToInferAtExit
  <2> SUFFICES ASSUME Inv, workerPc = "exited" PROVE inputs = <<>>
    BY DEF NothingToInferAtExit
  <2>1. inputs \in Seq(Requests) /\ Len(inputs) < 1
    BY DEF Inv, Types, Closing
  <2> QED BY <2>1
<1> QED BY <1>1, Invariant, PTL
==============================================================================
