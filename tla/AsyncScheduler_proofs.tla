------------------------ MODULE AsyncScheduler_proofs ------------------------
(***************************************************************************)
(* Theorems about AsyncScheduler for any requests and any buffer_size.     *)
(*                                                                         *)
(* The inductive invariant is Inv.  Apart says that a request is in one    *)
(* place of the pipeline, and that only a closure it has left behind may   *)
(* be kept by an idle worker; Promises, that a request on its way is       *)
(* pending.  The two need each other: a stage settles the promise of a     *)
(* request that is nowhere else.  Staff counts each pool's workers.        *)
(* OutputsApart is what exclusive output buffers need, and holds only if   *)
(* postprocess makes no copy of the output tensor.                         *)
(***************************************************************************)
EXTENDS AsyncScheduler, QueueLemmas

Distinct(q) == \A i, k \in DOMAIN q : q[i] = q[k] => i = k

PreQueued == Elements(preQ)
InferQueued == Elements(inferQ)
PostQueued == Elements(postQ)
PreBusy == preparing \union prepared
InferBusy == acquiring \union running \union inferred

\* The requests on their way, and those some closure refers to.
Active == PreQueued \union PreBusy \union InferQueued \union InferBusy \union PostQueued \union posting
Known == Active \union preKept \union inferKept \union postKept

Types ==
    /\ outcome \in [Requests -> {"none", "pending", "value", "exception", "broken"}]
    /\ preQ \in Seq(Requests) /\ inferQ \in Seq(Requests) /\ postQ \in Seq(Requests)
    /\ Known \subseteq Requests
    /\ inFree \in Nat
    /\ outFree \in Seq(OutputBuffers)
    /\ output \in [Requests -> OutputBuffers \union {None}]
    /\ thrown \in 0 .. InferThrows
    /\ postThrew \subseteq Requests
    /\ refused \in Nat /\ waited \in BOOLEAN /\ stray \in BOOLEAN
    /\ life \in {"alive", "stages", "postPool", "inferPool", "prePool", "gone"}

\* What follows a place in the pipeline, the idle workers' closures included.
AfterPre == InferQueued \union InferBusy \union inferKept \union PostQueued \union posting \union postKept
AfterInfer == PostQueued \union posting \union postKept

Apart ==
    /\ Distinct(preQ) /\ Distinct(inferQ) /\ Distinct(postQ)
    /\ PreQueued \intersect (PreBusy \union preKept \union AfterPre) = {}
    /\ preparing \intersect prepared = {}
    /\ PreBusy \intersect (preKept \union AfterPre) = {}
    /\ InferQueued \intersect (InferBusy \union inferKept \union AfterInfer) = {}
    /\ acquiring \intersect (running \union inferred) = {}
    /\ running \intersect inferred = {}
    /\ InferBusy \intersect (inferKept \union AfterInfer) = {}
    /\ PostQueued \intersect (posting \union postKept) = {}
    /\ posting \intersect postKept = {}

Promises ==
    /\ \A r \in Active : outcome[r] = "pending"
    /\ \A r \in Known : outcome[r] # "none"

Staffed(busy, kept) ==
    /\ IsFiniteSet(busy) /\ IsFiniteSet(kept)
    /\ Cardinality(busy) + Cardinality(kept) <= BufferSize

Staff == Staffed(PreBusy, preKept) /\ Staffed(InferBusy, inferKept) /\ Staffed(posting, postKept)

\* The requests with an output buffer.
Holders == running \union inferred \union PostQueued \union posting \union postKept

Outputs == \A r \in Holders : output[r] \in OutputBuffers

\* An owner that waited for its futures left nothing on its way.
Stopped == waited => life # "alive" /\ Active = {} /\ ~stray

Inv ==
    /\ Types /\ Apart /\ Promises /\ Staff /\ Outputs /\ Stopped
    /\ InputBuffersAccountedFor

OutputsApart ==
    /\ Distinct(outFree)
    /\ \A r \in Holders : output[r] \notin Elements(outFree)
    /\ \A r, s \in Holders : output[r] = output[s] => r = s

------------------------------------------------------------------------------
(* Pools of workers, and sets put into a queue. *)

\* A worker takes a job: it had kept a closure that dies, or none.
LEMMA WorkerTakes ==
    ASSUME NEW busy, NEW kept, Staffed(busy, kept), NEW r, r \notin busy,
           NEW dying \in Idle(busy, kept)
    PROVE  /\ Staffed(busy \union {r}, kept \ dying)
           /\ dying \subseteq kept
<1>1. /\ IsFiniteSet(busy \union {r})
      /\ Cardinality(busy \union {r}) = Cardinality(busy) + 1
      /\ Cardinality(busy) \in Nat /\ Cardinality(kept) \in Nat
    BY FS_AddElement, FS_CardinalityType DEF Staffed
<1>2. CASE \E k \in kept : dying = {k}
  <2>1. PICK k \in kept : dying = {k}
    BY <1>2
  <2>2. IsFiniteSet(kept \ {k}) /\ Cardinality(kept \ {k}) = Cardinality(kept) - 1
    BY FS_RemoveElement DEF Staffed
  <2> QED BY <1>1, <2>1, <2>2, SizeAssumption DEF Staffed
<1>3. CASE dying = {} /\ Cardinality(busy) + Cardinality(kept) < BufferSize
  <2>1. kept \ dying = kept
    BY <1>3
  <2> QED BY <1>1, <1>3, <2>1, SizeAssumption DEF Staffed
<1>4. (\E k \in kept : dying = {k}) \/ (dying = {} /\ Cardinality(busy) + Cardinality(kept) < BufferSize)
    BY DEF Idle
<1> QED BY <1>2, <1>3, <1>4

\* A worker has done its job, and keeps the closure.
LEMMA WorkerKeeps ==
    ASSUME NEW busy, NEW kept, Staffed(busy, kept), NEW r \in busy, r \notin kept
    PROVE  Staffed(busy \ {r}, kept \union {r})
<1>1. /\ IsFiniteSet(busy \ {r}) /\ Cardinality(busy \ {r}) = Cardinality(busy) - 1
      /\ IsFiniteSet(kept \union {r}) /\ Cardinality(kept \union {r}) = Cardinality(kept) + 1
      /\ Cardinality(busy) \in Nat /\ Cardinality(kept) \in Nat
    BY FS_AddElement, FS_RemoveElement, FS_CardinalityType DEF Staffed
<1> QED BY <1>1, SizeAssumption DEF Staffed

\* SetToSeq of a finite set holds each of its elements once.
LEMMA SetToSeqDistinct ==
    ASSUME NEW T, IsFiniteSet(T)
    PROVE  /\ SetToSeq(T) \in Seq(T)
           /\ Distinct(SetToSeq(T))
           /\ Elements(SetToSeq(T)) = T
<1> DEFINE n == Cardinality(T)
           q == SetToSeq(T)
<1>1. \E f \in [1 .. n -> T] : \A i, k \in 1 .. n : f[i] = f[k] => i = k
    BY Enumeration
<1>2. q \in [1 .. n -> T] /\ \A i, k \in 1 .. n : q[i] = q[k] => i = k
  <2>1. \E f \in [1 .. n -> T] : IsInjective(f)
    BY <1>1 DEF IsInjective
  <2>2. q \in [1 .. n -> T] /\ IsInjective(q)
    BY <2>1 DEF SetToSeq
  <2> QED BY <2>2 DEF IsInjective
<1> HIDE DEF q
<1>3. q \in Seq(T) /\ Items(q) = T
    BY <1>2, Enumeration
<1> QED BY <1>2, <1>3 DEF q, Items, Distinct, Elements

\* ReleaseOutputs puts buffers back; nothing in a queue stays None.
LEMMA Released ==
    ASSUME Types, NEW rs, rs \subseteq Requests, ReleaseOutputs(rs)
    PROVE  LET T == {output[r] : r \in rs} \ {None}
           IN  /\ outFree' \in Seq(OutputBuffers)
               /\ output' \in [Requests -> OutputBuffers \union {None}]
               /\ \A r \in Requests \ rs : output'[r] = output[r]
               /\ Distinct(outFree) /\ T \intersect Elements(outFree) = {} =>
                    Distinct(outFree') /\ Elements(outFree') = Elements(outFree) \union T
<1> DEFINE T == {output[r] : r \in rs} \ {None}
           q == SetToSeq(T)
<1>1. T \subseteq OutputBuffers
    BY DEF Types
<1>2. IsFiniteSet(T)
  <2>1. IsFiniteSet(OutputBuffers)
    BY SizeAssumption, FS_Interval DEF OutputBuffers
  <2> QED BY <1>1, <2>1, FS_Subset
<1>3. q \in Seq(T) /\ Distinct(q) /\ Elements(q) = T
    BY <1>2, SetToSeqDistinct
<1>4. outFree' = outFree \o q /\ output' = [r \in Requests |-> IF r \in rs THEN None ELSE output[r]]
    BY DEF ReleaseOutputs
<1> HIDE DEF T, q
<1>5. q \in Seq(OutputBuffers) /\ outFree \in Seq(OutputBuffers)
    BY <1>1, <1>3, SeqMonotonic DEF Types
<1>6. outFree' \in Seq(OutputBuffers)
    BY <1>4, <1>5, ConcatProperties
<1>7. ASSUME Distinct(outFree), T \intersect Elements(outFree) = {}
      PROVE  Distinct(outFree') /\ Elements(outFree') = Elements(outFree) \union T
  <2>1. \A i \in DOMAIN outFree, k \in DOMAIN q : outFree[i] # q[k]
    BY <1>3, <1>7 DEF Elements
  <2>2. (\A i, k \in DOMAIN outFree : outFree[i] = outFree[k] => i = k)
        /\ (\A i, k \in DOMAIN q : q[i] = q[k] => i = k)
    BY <1>3, <1>7 DEF Distinct
  <2>3. /\ \A i, k \in DOMAIN (outFree \o q) : (outFree \o q)[i] = (outFree \o q)[k] => i = k
        /\ {(outFree \o q)[i] : i \in DOMAIN (outFree \o q)}
            = {outFree[i] : i \in DOMAIN outFree} \union {q[i] : i \in DOMAIN q}
    BY <1>5, <2>1, <2>2, ConcatDistinct
  <2> QED BY <1>3, <1>4, <2>3, ZenonT(30) DEF Distinct, Elements
<1>8. output' \in [Requests -> OutputBuffers \union {None}] /\ \A r \in Requests \ rs : output'[r] = output[r]
    BY <1>4 DEF Types
<1> QED BY <1>6, <1>7, <1>8 DEF T
\* The sets InputBuffersAccountedFor counts are finite.
LEMMA Counted ==
    ASSUME Types, Staff
    PROVE  /\ IsFiniteSet(prepared) /\ IsFiniteSet(acquiring) /\ IsFiniteSet(running)
           /\ Cardinality(prepared) \in Nat /\ Cardinality(acquiring) \in Nat
           /\ Cardinality(running) \in Nat /\ Len(inferQ) \in Nat
<1>1. IsFiniteSet(PreBusy) /\ IsFiniteSet(InferBusy)
    BY DEF Staff, Staffed
<1>2. prepared \subseteq PreBusy /\ acquiring \subseteq InferBusy /\ running \subseteq InferBusy
    BY DEF PreBusy, InferBusy
<1>3. IsFiniteSet(prepared) /\ IsFiniteSet(acquiring) /\ IsFiniteSet(running)
    BY <1>1, <1>2, FS_Subset
<1>4. Len(inferQ) \in Nat
    BY LenProperties DEF Types
<1> QED BY <1>3, <1>4, FS_CardinalityType

------------------------------------------------------------------------------
(* The invariant. *)

\* submit: a request nobody has heard of gets in line.
LEMMA SubmitInv ==
    ASSUME Inv, NEW r \in Requests, Submit(r)
    PROVE  Inv'
<1> USE DEF Inv
<1>1. r \notin Known /\ life = "alive"
    BY DEF Submit, Promises
<1>2. preQ' \in Seq(Requests) /\ Distinct(preQ') /\ PreQueued' = PreQueued \union {r} /\ Len(preQ') = Len(preQ) + 1 /\ Len(preQ) \in Nat
  <2>1. preQ \in Seq(Requests) /\ Distinct(preQ) /\ r \notin PreQueued /\ r \in Requests
    BY <1>1 DEF Types, Apart, Active, Known, PreBusy, InferBusy, AfterPre, AfterInfer
  <2>2. preQ' = Append(preQ, r)
    BY DEF Submit
  <2> QED BY <2>1, <2>2, PushDistinct DEF Distinct, PreQueued, Elements
<1>3. InferQueued' = InferQueued /\ PostQueued' = PostQueued
    BY DEF Submit, infer, post, InferQueued, PostQueued
<1>4. Types'
    BY <1>1, <1>2, <1>3, BoundAssumption DEF Submit, closing, pre, infer, post, Types, Settle, Abandon, PreBusy, InferBusy, AfterPre, AfterInfer, Active, Known
<1>5. Apart'
    BY <1>1, <1>2, <1>3 DEF Submit, pre, infer, post, Apart, PreBusy, InferBusy, AfterPre, AfterInfer, Active, Known
<1>6. Promises'
    BY <1>1, <1>2, <1>3 DEF Submit, pre, infer, post, Promises, Types, Apart, Settle, PreBusy, InferBusy, AfterPre, AfterInfer, Active, Known
<1>7. Staff'
    BY <1>1, <1>2, <1>3 DEF Submit, pre, infer, post, Staff, PreBusy, InferBusy, AfterPre, AfterInfer, Active, Known
<1>8. Outputs'
    BY <1>1, <1>2, <1>3 DEF Submit, pre, infer, post, Outputs, Types, Holders, Apart, PreBusy, InferBusy, AfterPre, AfterInfer, Active, Known
<1>9. Stopped'
    BY <1>1, <1>2, <1>3 DEF Submit, closing, pre, infer, post, Stopped, PreBusy, InferBusy, AfterPre, AfterInfer, Active, Known
<1>10. InputBuffersAccountedFor'
    BY <1>1, <1>2, <1>3, SizeAssumption, BoundAssumption DEF Submit, closing, pre, infer, post, InputBuffersAccountedFor, Types
<1> QED BY <1>4, <1>5, <1>6, <1>7, <1>8, <1>9, <1>10

\* A pre worker takes the first request; the closure it kept dies.
LEMMA PreTakeInv ==
    ASSUME Inv, PreTake
    PROVE  Inv'
<1> USE DEF Inv
<1>1. /\ preQ' \in Seq(Requests) /\ Distinct(preQ') /\ Head(preQ) \in PreQueued /\ Head(preQ) \in Requests
      /\ PreQueued' = PreQueued \ {Head(preQ)} /\ Len(preQ') = Len(preQ) - 1 /\ Len(preQ) \in Nat
  <2>1. preQ \in Seq(Requests) /\ Distinct(preQ) /\ preQ # <<>>
    BY DEF PreTake, Types, Apart
  <2>2. preQ' = Dequeued(preQ)
    BY DEF PreTake, Dequeued
  <2>3. \A i, k \in DOMAIN preQ : preQ[i] = preQ[k] => i = k
    BY <2>1 DEF Distinct
  <2>4. /\ Head(preQ) \in Requests /\ Head(preQ) \in Items(preQ)
        /\ preQ' \in Seq(Requests) /\ Len(preQ') = Len(preQ) - 1 /\ Len(preQ) \in Nat \ {0}
    BY <2>1, <2>2, <2>3, PopDistinct
  <2>5. \A i, k \in DOMAIN preQ' : preQ'[i] = preQ'[k] => i = k
    BY <2>1, <2>2, <2>3, PopDistinct
  <2>6. Items(preQ') = Items(preQ) \ {Head(preQ)}
    BY <2>1, <2>2, <2>3, PopDistinct
  <2> QED BY <2>4, <2>5, <2>6 DEF Distinct, PreQueued, Elements, Items
<1>2. InferQueued' = InferQueued /\ PostQueued' = PostQueued
    BY DEF PreTake, infer, post, InferQueued, PostQueued
<1>3. Head(preQ) \notin PreBusy \union preKept \union AfterPre
    BY <1>1 DEF Apart
<1>4. Staffed(PreBusy', preKept') /\ preKept' \subseteq preKept
  <2>1. PICK dying \in Idle(PreBusy, preKept) : preKept' = preKept \ dying
    BY DEF PreTake, PreBusy
  <2>2. PreBusy' = PreBusy \union {Head(preQ)}
    BY DEF PreTake, PreBusy
  <2> QED BY <1>3, <2>1, <2>2, WorkerTakes DEF Staff
<1>5. ~waited
    BY <1>1 DEF Stopped, Active
<1>6. outcome' = Abandon(Known')
  <2>1. Referenced' = Known'
    BY DEF Referenced, PreBusy, InferBusy, AfterPre, AfterInfer, Active, Known, PreQueued, InferQueued, PostQueued
  <2> QED BY <2>1 DEF PreTake, Abandon
<1>7. Types'
    BY <1>1, <1>2, <1>3, <1>4, <1>5, <1>6, BoundAssumption DEF PreTake, CallsStage, pre, infer, post, Types, Settle, Abandon, PreBusy, InferBusy, AfterPre, AfterInfer, Active, Known
<1>8. Apart'
    BY <1>1, <1>2, <1>3, <1>4, <1>5, <1>6 DEF PreTake, pre, infer, post, Apart, PreBusy, InferBusy, AfterPre, AfterInfer, Active, Known
<1>9. Promises'
  <2>1. Active' \subseteq Active /\ Known' \subseteq Known /\ Active' \subseteq Known' /\ Known \subseteq Requests
    BY <1>1, <1>2, <1>3, <1>4, <1>5, <1>6 DEF PreTake, pre, infer, post, Types, PreBusy, InferBusy, AfterPre, AfterInfer, Active, Known
  <2>2. outcome' = Abandon(Known')
    BY <1>1, <1>2, <1>3, <1>4, <1>5, <1>6
  <2> HIDE DEF Active, Known
  <2>3. \A r \in Known' : outcome'[r] = outcome[r]
    BY <2>1, <2>2 DEF Abandon, Types
  <2> QED BY <2>1, <2>3 DEF Promises
<1>10. Staff'
    BY <1>1, <1>2, <1>3, <1>4, <1>5, <1>6 DEF PreTake, pre, infer, post, Staff, PreBusy, InferBusy, AfterPre, AfterInfer, Active, Known
<1>11. Outputs'
    BY <1>1, <1>2, <1>3, <1>4, <1>5, <1>6 DEF PreTake, pre, infer, post, Outputs, Types, Holders, Apart, PreBusy, InferBusy, AfterPre, AfterInfer, Active, Known
<1>12. Stopped'
    BY <1>1, <1>2, <1>3, <1>4, <1>5, <1>6 DEF PreTake, CallsStage, pre, infer, post, Stopped, PreBusy, InferBusy, AfterPre, AfterInfer, Active, Known
<1>13. InputBuffersAccountedFor'
    BY <1>1, <1>2, <1>3, <1>4, <1>5, <1>6, SizeAssumption, BoundAssumption DEF PreTake, CallsStage, pre, infer, post, InputBuffersAccountedFor, Types
<1> QED BY <1>7, <1>8, <1>9, <1>10, <1>11, <1>12, <1>13

\* preprocess throws: the promise hears of it.
LEMMA PreThrowInv ==
    ASSUME Inv, NEW r \in Requests, PreThrow(r)
    PROVE  Inv'
<1> USE DEF Inv
<1>1. PreQueued' = PreQueued /\ InferQueued' = InferQueued /\ PostQueued' = PostQueued
    BY DEF PreThrow, pre, infer, post, PreQueued, InferQueued, PostQueued
<1>2. ~waited
    BY DEF PreThrow, Stopped, Active, PreBusy, InferBusy
<1>3. Staffed(PreBusy', preKept')
  <2>1. PreBusy' = PreBusy \ {r} /\ preKept' = preKept \union {r}
    BY DEF PreThrow, Apart, PreBusy
  <2>2. r \in PreBusy /\ r \notin preKept
    BY DEF PreThrow, Apart, PreBusy, InferBusy, AfterPre, AfterInfer, Active, Known
  <2> QED BY <2>1, <2>2, WorkerKeeps DEF Staff
<1>4. Types'
    BY <1>1, <1>2, <1>3, BoundAssumption DEF PreThrow, closing, pre, infer, post, Types, Settle, Abandon, PreBusy, InferBusy, AfterPre, AfterInfer, Active, Known
<1>5. Apart'
    BY <1>1, <1>2, <1>3 DEF PreThrow, pre, infer, post, Apart, PreBusy, InferBusy, AfterPre, AfterInfer, Active, Known
<1>6. Promises'
    BY <1>1, <1>2, <1>3 DEF PreThrow, pre, infer, post, Promises, Types, Apart, Settle, PreBusy, InferBusy, AfterPre, AfterInfer, Active, Known
<1>7. Staff'
    BY <1>1, <1>2, <1>3 DEF PreThrow, pre, infer, post, Staff, PreBusy, InferBusy, AfterPre, AfterInfer, Active, Known
<1>8. Outputs'
    BY <1>1, <1>2, <1>3 DEF PreThrow, pre, infer, post, Outputs, Types, Holders, Apart, PreBusy, InferBusy, AfterPre, AfterInfer, Active, Known
<1>9. Stopped'
    BY <1>1, <1>2, <1>3 DEF PreThrow, closing, pre, infer, post, Stopped, PreBusy, InferBusy, AfterPre, AfterInfer, Active, Known
<1>10. InputBuffersAccountedFor'
    BY <1>1, <1>2, <1>3, SizeAssumption, BoundAssumption DEF PreThrow, closing, pre, infer, post, InputBuffersAccountedFor, Types
<1> QED BY <1>4, <1>5, <1>6, <1>7, <1>8, <1>9, <1>10

\* preprocess takes an input buffer.
LEMMA PreExecuteInv ==
    ASSUME Inv, NEW r \in Requests, PreExecute(r)
    PROVE  Inv'
<1> USE DEF Inv
<1>1. PreQueued' = PreQueued /\ InferQueued' = InferQueued /\ PostQueued' = PostQueued
    BY DEF PreExecute, pre, infer, post, PreQueued, InferQueued, PostQueued
<1>2. ~waited
    BY DEF PreExecute, Stopped, Active, PreBusy, InferBusy
<1>3. PreBusy' = PreBusy
    BY DEF PreExecute, PreBusy
<1>4. /\ IsFiniteSet(prepared) /\ IsFiniteSet(acquiring) /\ IsFiniteSet(running)
      /\ Cardinality(prepared) \in Nat /\ Cardinality(acquiring) \in Nat /\ Cardinality(running) \in Nat /\ Len(inferQ) \in Nat
    BY Counted
<1>5. Cardinality(prepared') = Cardinality(prepared) + 1
  <2>1. r \notin prepared
    BY DEF PreExecute, Apart
  <2> QED BY <1>4, <2>1, FS_AddElement DEF PreExecute
<1>6. Types'
    BY <1>1, <1>2, <1>3, <1>4, <1>5, BoundAssumption DEF PreExecute, closing, pre, infer, post, Types, Settle, Abandon, PreBusy, InferBusy, AfterPre, AfterInfer, Active, Known
<1>7. Apart'
    BY <1>1, <1>2, <1>3, <1>4, <1>5 DEF PreExecute, pre, infer, post, Apart, PreBusy, InferBusy, AfterPre, AfterInfer, Active, Known
<1>8. Promises'
    BY <1>1, <1>2, <1>3, <1>4, <1>5 DEF PreExecute, pre, infer, post, Promises, Types, Apart, Settle, PreBusy, InferBusy, AfterPre, AfterInfer, Active, Known
<1>9. Staff'
    BY <1>1, <1>2, <1>3, <1>4, <1>5 DEF PreExecute, pre, infer, post, Staff, PreBusy, InferBusy, AfterPre, AfterInfer, Active, Known
<1>10. Outputs'
    BY <1>1, <1>2, <1>3, <1>4, <1>5 DEF PreExecute, pre, infer, post, Outputs, Types, Holders, Apart, PreBusy, InferBusy, AfterPre, AfterInfer, Active, Known
<1>11. Stopped'
    BY <1>1, <1>2, <1>3, <1>4, <1>5 DEF PreExecute, closing, pre, infer, post, Stopped, PreBusy, InferBusy, AfterPre, AfterInfer, Active, Known
<1>12. InputBuffersAccountedFor'
    BY <1>1, <1>2, <1>3, <1>4, <1>5, SizeAssumption, BoundAssumption DEF PreExecute, closing, pre, infer, post, InputBuffersAccountedFor, Types
<1> QED BY <1>6, <1>7, <1>8, <1>9, <1>10, <1>11, <1>12

\* The request and its input buffer go on to the infer pool.
LEMMA PreHandOverInv ==
    ASSUME Inv, NEW r \in Requests, PreHandOver(r), life \in {"alive", "stages", "postPool"}
    PROVE  Inv'
<1> USE DEF Inv
<1>1. ~waited
    BY DEF PreHandOver, Stopped, Active, PreBusy, InferBusy
<1>2. r \in PreBusy /\ r \notin AfterPre /\ r \notin preKept
    BY DEF PreHandOver, Apart, PreBusy
<1>3. inferQ' \in Seq(Requests) /\ Distinct(inferQ') /\ InferQueued' = InferQueued \union {r} /\ Len(inferQ') = Len(inferQ) + 1 /\ Len(inferQ) \in Nat
  <2>1. inferQ \in Seq(Requests) /\ Distinct(inferQ) /\ r \notin InferQueued /\ r \in Requests
    BY <1>2 DEF Types, Apart, Active, Known, PreBusy, InferBusy, AfterPre, AfterInfer
  <2>2. inferQ' = Append(inferQ, r)
    BY DEF PreHandOver
  <2> QED BY <2>1, <2>2, PushDistinct DEF Distinct, InferQueued, Elements
<1>4. PreQueued' = PreQueued /\ PostQueued' = PostQueued /\ outcome' = outcome /\ refused' = refused
    BY DEF PreHandOver, post, PreQueued, PostQueued
<1>5. Staffed(PreBusy', preKept')
  <2>1. PreBusy' = PreBusy \ {r} /\ preKept' = preKept \union {r}
    BY DEF PreHandOver, Apart, PreBusy
  <2>2. r \in PreBusy /\ r \notin preKept
    BY DEF PreHandOver, Apart, PreBusy, InferBusy, AfterPre, AfterInfer, Active, Known
  <2> QED BY <2>1, <2>2, WorkerKeeps DEF Staff
<1>6. /\ IsFiniteSet(prepared) /\ IsFiniteSet(acquiring) /\ IsFiniteSet(running)
      /\ Cardinality(prepared) \in Nat /\ Cardinality(acquiring) \in Nat /\ Cardinality(running) \in Nat /\ Len(inferQ) \in Nat
    BY Counted
<1>7. Cardinality(prepared') = Cardinality(prepared) - 1
    BY <1>6, FS_RemoveElement DEF PreHandOver
<1>8. Types'
    BY <1>1, <1>2, <1>3, <1>4, <1>5, <1>6, <1>7, BoundAssumption DEF PreHandOver, pre, infer, post, Types, Settle, Abandon, PreBusy, InferBusy, AfterPre, AfterInfer, Active, Known
<1>9. Apart'
    BY <1>1, <1>2, <1>3, <1>4, <1>5, <1>6, <1>7 DEF PreHandOver, pre, infer, post, Apart, PreBusy, InferBusy, AfterPre, AfterInfer, Active, Known
<1>10. Promises'
    BY <1>1, <1>2, <1>3, <1>4, <1>5, <1>6, <1>7 DEF PreHandOver, pre, infer, post, Promises, Types, Apart, Settle, PreBusy, InferBusy, AfterPre, AfterInfer, Active, Known
<1>11. Staff'
    BY <1>1, <1>2, <1>3, <1>4, <1>5, <1>6, <1>7 DEF PreHandOver, pre, infer, post, Staff, PreBusy, InferBusy, AfterPre, AfterInfer, Active, Known
<1>12. Outputs'
    BY <1>1, <1>2, <1>3, <1>4, <1>5, <1>6, <1>7 DEF PreHandOver, pre, infer, post, Outputs, Types, Holders, Apart, PreBusy, InferBusy, AfterPre, AfterInfer, Active, Known
<1>13. Stopped'
    BY <1>1, <1>2, <1>3, <1>4, <1>5, <1>6, <1>7 DEF PreHandOver, pre, infer, post, Stopped, PreBusy, InferBusy, AfterPre, AfterInfer, Active, Known
<1>14. InputBuffersAccountedFor'
  <2>1. inFree + thrown + refused + Cardinality(prepared) + Len(inferQ) + Cardinality(acquiring) + Cardinality(running) = BufferSize
    BY DEF InputBuffersAccountedFor
  <2>2. inFree' = inFree /\ thrown' = thrown /\ refused' = refused /\ acquiring' = acquiring /\ running' = running
    BY <1>4 DEF PreHandOver
  <2>3. inFree \in Nat /\ thrown \in Nat /\ refused \in Nat
    BY BoundAssumption DEF Types
  <2> DEFINE ready == Cardinality(prepared)  queued == Len(inferQ)
             next == Cardinality(acquiring)  busy == Cardinality(running)
  <2>4. ready \in Nat /\ queued \in Nat /\ next \in Nat /\ busy \in Nat
    BY <1>6
  <2>5. inFree + thrown + refused + ready + queued + next + busy = BufferSize
    BY <2>1
  <2>6. Cardinality(prepared') = ready - 1 /\ Len(inferQ') = queued + 1
    BY <1>3, <1>7
  <2>7. Cardinality(acquiring') = next /\ Cardinality(running') = busy
    BY <2>2
  <2> HIDE DEF ready, queued, next, busy
  <2>8. inFree + thrown + refused + (ready - 1) + (queued + 1) + next + busy = BufferSize
    BY <2>3, <2>4, <2>5
  <2> QED BY <2>2, <2>6, <2>7, <2>8 DEF InputBuffersAccountedFor
<1> QED BY <1>8, <1>9, <1>10, <1>11, <1>12, <1>13, <1>14

\* The infer pool takes no more: the promise hears of it, the input buffer is lost.
LEMMA PreRefusedInv ==
    ASSUME Inv, NEW r \in Requests, PreHandOver(r), life \notin {"alive", "stages", "postPool"}
    PROVE  Inv'
<1> USE DEF Inv
<1>1. ~waited
    BY DEF PreHandOver, Stopped, Active, PreBusy, InferBusy
<1>2. /\ r \in prepared /\ prepared' = prepared \ {r} /\ preKept' = preKept \union {r}
      /\ Settle(r, "exception") /\ refused' = refused + 1
      /\ UNCHANGED <<preQ, preparing, infer, post, inFree, outFree, output, thrown, postThrew, waited,
                    stray, life>>
    BY DEF PreHandOver, infer
<1>3. PreQueued' = PreQueued /\ InferQueued' = InferQueued /\ PostQueued' = PostQueued
    BY <1>2 DEF infer, post, PreQueued, InferQueued, PostQueued
<1>4. PreBusy' = PreBusy \ {r} /\ r \in PreBusy /\ r \notin preKept
    BY <1>2 DEF Apart, PreBusy
<1>5. Staffed(PreBusy', preKept')
    BY <1>2, <1>4, WorkerKeeps DEF Staff
<1>6. Types'
    BY <1>2, <1>3, <1>4, BoundAssumption DEF infer, post, Types, Settle, InferBusy, Active, Known
<1>7. Apart'
    BY <1>2, <1>3, <1>4 DEF infer, post, Apart, PreBusy, InferBusy, AfterPre, AfterInfer
<1>8. Promises'
    BY <1>2, <1>3, <1>4 DEF infer, post, Promises, Types, Apart, Settle, InferBusy, AfterPre, AfterInfer, Active, Known
<1>9. Staff'
    BY <1>2, <1>5 DEF infer, post, Staff, InferBusy
<1>10. Outputs' /\ Stopped'
    BY <1>1, <1>2, <1>3 DEF infer, post, Outputs, Holders, Stopped
<1>11. InputBuffersAccountedFor'
  <2>1. Cardinality(prepared') = Cardinality(prepared) - 1
    BY <1>2, Counted, FS_RemoveElement
  <2> QED BY <1>2, <2>1, Counted, SizeAssumption, BoundAssumption DEF infer, InputBuffersAccountedFor, Types
<1> QED BY <1>6, <1>7, <1>8, <1>9, <1>10, <1>11

\* An infer worker takes the first request; the closure it kept dies.
LEMMA InferTakeInv ==
    ASSUME Inv, InferTake
    PROVE  Inv'
<1> USE DEF Inv
<1>1. /\ inferQ' \in Seq(Requests) /\ Distinct(inferQ') /\ Head(inferQ) \in InferQueued /\ Head(inferQ) \in Requests
      /\ InferQueued' = InferQueued \ {Head(inferQ)} /\ Len(inferQ') = Len(inferQ) - 1 /\ Len(inferQ) \in Nat
  <2>1. inferQ \in Seq(Requests) /\ Distinct(inferQ) /\ inferQ # <<>>
    BY DEF InferTake, Types, Apart
  <2>2. inferQ' = Dequeued(inferQ)
    BY DEF InferTake, Dequeued
  <2>3. \A i, k \in DOMAIN inferQ : inferQ[i] = inferQ[k] => i = k
    BY <2>1 DEF Distinct
  <2>4. /\ Head(inferQ) \in Requests /\ Head(inferQ) \in Items(inferQ)
        /\ inferQ' \in Seq(Requests) /\ Len(inferQ') = Len(inferQ) - 1 /\ Len(inferQ) \in Nat \ {0}
    BY <2>1, <2>2, <2>3, PopDistinct
  <2>5. \A i, k \in DOMAIN inferQ' : inferQ'[i] = inferQ'[k] => i = k
    BY <2>1, <2>2, <2>3, PopDistinct
  <2>6. Items(inferQ') = Items(inferQ) \ {Head(inferQ)}
    BY <2>1, <2>2, <2>3, PopDistinct
  <2> QED BY <2>4, <2>5, <2>6 DEF Distinct, InferQueued, Elements, Items
<1>2. PreQueued' = PreQueued /\ PostQueued' = PostQueued
    BY DEF InferTake, pre, post, PreQueued, PostQueued
<1>3. Head(inferQ) \notin InferBusy \union inferKept \union AfterInfer
    BY <1>1 DEF Apart
<1>4. Staffed(InferBusy', inferKept') /\ inferKept' \subseteq inferKept
  <2>1. PICK dying \in Idle(InferBusy, inferKept) : inferKept' = inferKept \ dying
    BY DEF InferTake, InferBusy
  <2>2. InferBusy' = InferBusy \union {Head(inferQ)}
    BY DEF InferTake, InferBusy
  <2> QED BY <1>3, <2>1, <2>2, WorkerTakes DEF Staff
<1>5. ~waited
    BY <1>1 DEF Stopped, Active
<1>6. outcome' = Abandon(Known')
  <2>1. Referenced' = Known'
    BY DEF Referenced, PreBusy, InferBusy, AfterPre, AfterInfer, Active, Known, PreQueued, InferQueued, PostQueued
  <2> QED BY <2>1 DEF InferTake, Abandon
<1>7. /\ IsFiniteSet(prepared) /\ IsFiniteSet(acquiring) /\ IsFiniteSet(running)
      /\ Cardinality(prepared) \in Nat /\ Cardinality(acquiring) \in Nat /\ Cardinality(running) \in Nat /\ Len(inferQ) \in Nat
    BY Counted
<1>8. Cardinality(acquiring') = Cardinality(acquiring) + 1
  <2>1. Head(inferQ) \notin acquiring
    BY <1>3 DEF InferBusy
  <2> QED BY <1>7, <2>1, FS_AddElement DEF InferTake
<1>9. Types'
    BY <1>1, <1>2, <1>3, <1>4, <1>5, <1>6, <1>7, <1>8, BoundAssumption DEF InferTake, CallsStage, pre, infer, post, Types, Settle, Abandon, PreBusy, InferBusy, AfterPre, AfterInfer, Active, Known
<1>10. Apart'
    BY <1>1, <1>2, <1>3, <1>4, <1>5, <1>6, <1>7, <1>8 DEF InferTake, pre, infer, post, Apart, PreBusy, InferBusy, AfterPre, AfterInfer, Active, Known
<1>11. Promises'
  <2>1. Active' \subseteq Active /\ Known' \subseteq Known /\ Active' \subseteq Known' /\ Known \subseteq Requests
    BY <1>1, <1>2, <1>3, <1>4, <1>5, <1>6, <1>7, <1>8 DEF InferTake, pre, infer, post, Types, PreBusy, InferBusy, AfterPre, AfterInfer, Active, Known
  <2>2. outcome' = Abandon(Known')
    BY <1>1, <1>2, <1>3, <1>4, <1>5, <1>6, <1>7, <1>8
  <2> HIDE DEF Active, Known
  <2>3. \A r \in Known' : outcome'[r] = outcome[r]
    BY <2>1, <2>2 DEF Abandon, Types
  <2> QED BY <2>1, <2>3 DEF Promises
<1>12. Staff'
    BY <1>1, <1>2, <1>3, <1>4, <1>5, <1>6, <1>7, <1>8 DEF InferTake, pre, infer, post, Staff, PreBusy, InferBusy, AfterPre, AfterInfer, Active, Known
<1>13. Outputs'
    BY <1>1, <1>2, <1>3, <1>4, <1>5, <1>6, <1>7, <1>8 DEF InferTake, pre, infer, post, Outputs, Types, Holders, Apart, PreBusy, InferBusy, AfterPre, AfterInfer, Active, Known
<1>14. Stopped'
    BY <1>1, <1>2, <1>3, <1>4, <1>5, <1>6, <1>7, <1>8 DEF InferTake, CallsStage, pre, infer, post, Stopped, PreBusy, InferBusy, AfterPre, AfterInfer, Active, Known
<1>15. InputBuffersAccountedFor'
    BY <1>1, <1>2, <1>3, <1>4, <1>5, <1>6, <1>7, <1>8, SizeAssumption, BoundAssumption DEF InferTake, CallsStage, pre, infer, post, InputBuffersAccountedFor, Types
<1> QED BY <1>9, <1>10, <1>11, <1>12, <1>13, <1>14, <1>15

\* infer takes an output buffer.
LEMMA InferAcquireInv ==
    ASSUME Inv, NEW r \in Requests, InferAcquire(r)
    PROVE  Inv'
<1> USE DEF Inv
<1>1. PreQueued' = PreQueued /\ InferQueued' = InferQueued /\ PostQueued' = PostQueued
    BY DEF InferAcquire, pre, post, PreQueued, InferQueued, PostQueued
<1>2. ~waited
    BY DEF InferAcquire, Stopped, Active, PreBusy, InferBusy
<1>3. InferBusy' = InferBusy
    BY DEF InferAcquire, InferBusy
<1>4. /\ IsFiniteSet(prepared) /\ IsFiniteSet(acquiring) /\ IsFiniteSet(running)
      /\ Cardinality(prepared) \in Nat /\ Cardinality(acquiring) \in Nat /\ Cardinality(running) \in Nat /\ Len(inferQ) \in Nat
    BY Counted
<1>5. Cardinality(acquiring') = Cardinality(acquiring) - 1 /\ Cardinality(running') = Cardinality(running) + 1
  <2>1. r \in acquiring /\ r \notin running
    BY DEF InferAcquire, Apart
  <2> QED BY <1>4, <2>1, FS_AddElement, FS_RemoveElement DEF InferAcquire
<1>6. outFree' \in Seq(OutputBuffers) /\ output'[r] \in OutputBuffers
  <2>1. Head(outFree) \in OutputBuffers /\ Tail(outFree) \in Seq(OutputBuffers)
    BY TailElements DEF InferAcquire, Types
  <2> QED BY <2>1 DEF InferAcquire, Types
<1>7. Types'
    BY <1>1, <1>2, <1>3, <1>4, <1>5, <1>6, BoundAssumption DEF InferAcquire, closing, pre, infer, post, Types, Settle, Abandon, PreBusy, InferBusy, AfterPre, AfterInfer, Active, Known
<1>8. Apart'
    BY <1>1, <1>2, <1>3, <1>4, <1>5, <1>6 DEF InferAcquire, pre, infer, post, Apart, PreBusy, InferBusy, AfterPre, AfterInfer, Active, Known
<1>9. Promises'
    BY <1>1, <1>2, <1>3, <1>4, <1>5, <1>6 DEF InferAcquire, pre, infer, post, Promises, Types, Apart, Settle, PreBusy, InferBusy, AfterPre, AfterInfer, Active, Known
<1>10. Staff'
    BY <1>1, <1>2, <1>3, <1>4, <1>5, <1>6 DEF InferAcquire, pre, infer, post, Staff, PreBusy, InferBusy, AfterPre, AfterInfer, Active, Known
<1>11. Outputs'
    BY <1>1, <1>2, <1>3, <1>4, <1>5, <1>6 DEF InferAcquire, pre, infer, post, Outputs, Types, Holders, Apart, PreBusy, InferBusy, AfterPre, AfterInfer, Active, Known
<1>12. Stopped'
    BY <1>1, <1>2, <1>3, <1>4, <1>5, <1>6 DEF InferAcquire, closing, pre, infer, post, Stopped, PreBusy, InferBusy, AfterPre, AfterInfer, Active, Known
<1>13. InputBuffersAccountedFor'
    BY <1>1, <1>2, <1>3, <1>4, <1>5, <1>6, SizeAssumption, BoundAssumption DEF InferAcquire, closing, pre, infer, post, InputBuffersAccountedFor, Types
<1> QED BY <1>7, <1>8, <1>9, <1>10, <1>11, <1>12, <1>13

\* Run throws, and both buffers are lost.
LEMMA InferThrowInv ==
    ASSUME Inv, NEW r \in Requests, InferThrow(r)
    PROVE  Inv'
<1> USE DEF Inv
<1>1. PreQueued' = PreQueued /\ InferQueued' = InferQueued /\ PostQueued' = PostQueued
    BY DEF InferThrow, pre, post, PreQueued, InferQueued, PostQueued
<1>2. ~waited
    BY DEF InferThrow, Stopped, Active, PreBusy, InferBusy
<1>3. Staffed(InferBusy', inferKept')
  <2>1. InferBusy' = InferBusy \ {r} /\ inferKept' = inferKept \union {r}
    BY DEF InferThrow, Apart, InferBusy
  <2>2. r \in InferBusy /\ r \notin inferKept
    BY DEF InferThrow, Apart, PreBusy, InferBusy, AfterPre, AfterInfer, Active, Known
  <2> QED BY <2>1, <2>2, WorkerKeeps DEF Staff
<1>4. /\ IsFiniteSet(prepared) /\ IsFiniteSet(acquiring) /\ IsFiniteSet(running)
      /\ Cardinality(prepared) \in Nat /\ Cardinality(acquiring) \in Nat /\ Cardinality(running) \in Nat /\ Len(inferQ) \in Nat
    BY Counted
<1>5. Cardinality(running') = Cardinality(running) - 1
    BY <1>4, FS_RemoveElement DEF InferThrow
<1>6. Types'
    BY <1>1, <1>2, <1>3, <1>4, <1>5, BoundAssumption DEF InferThrow, closing, pre, infer, post, Types, Settle, Abandon, PreBusy, InferBusy, AfterPre, AfterInfer, Active, Known
<1>7. Apart'
    BY <1>1, <1>2, <1>3, <1>4, <1>5 DEF InferThrow, pre, infer, post, Apart, PreBusy, InferBusy, AfterPre, AfterInfer, Active, Known
<1>8. Promises'
    BY <1>1, <1>2, <1>3, <1>4, <1>5 DEF InferThrow, pre, infer, post, Promises, Types, Apart, Settle, PreBusy, InferBusy, AfterPre, AfterInfer, Active, Known
<1>9. Staff'
    BY <1>1, <1>2, <1>3, <1>4, <1>5 DEF InferThrow, pre, infer, post, Staff, PreBusy, InferBusy, AfterPre, AfterInfer, Active, Known
<1>10. Outputs'
    BY <1>1, <1>2, <1>3, <1>4, <1>5 DEF InferThrow, pre, infer, post, Outputs, Types, Holders, Apart, PreBusy, InferBusy, AfterPre, AfterInfer, Active, Known
<1>11. Stopped'
    BY <1>1, <1>2, <1>3, <1>4, <1>5 DEF InferThrow, closing, pre, infer, post, Stopped, PreBusy, InferBusy, AfterPre, AfterInfer, Active, Known
<1>12. InputBuffersAccountedFor'
    BY <1>1, <1>2, <1>3, <1>4, <1>5, SizeAssumption, BoundAssumption, SMTT(30) DEF InferThrow, closing, pre, infer, post, InputBuffersAccountedFor, Types
<1> QED BY <1>6, <1>7, <1>8, <1>9, <1>10, <1>11, <1>12

\* Run returns, and the input buffer goes back.
LEMMA InferRunInv ==
    ASSUME Inv, NEW r \in Requests, InferRun(r)
    PROVE  Inv'
<1> USE DEF Inv
<1>1. PreQueued' = PreQueued /\ InferQueued' = InferQueued /\ PostQueued' = PostQueued
    BY DEF InferRun, pre, post, PreQueued, InferQueued, PostQueued
<1>2. ~waited
    BY DEF InferRun, Stopped, Active, PreBusy, InferBusy
<1>3. InferBusy' = InferBusy
    BY DEF InferRun, InferBusy
<1>4. /\ IsFiniteSet(prepared) /\ IsFiniteSet(acquiring) /\ IsFiniteSet(running)
      /\ Cardinality(prepared) \in Nat /\ Cardinality(acquiring) \in Nat /\ Cardinality(running) \in Nat /\ Len(inferQ) \in Nat
    BY Counted
<1>5. Cardinality(running') = Cardinality(running) - 1
    BY <1>4, FS_RemoveElement DEF InferRun
<1>6. Types'
    BY <1>1, <1>2, <1>3, <1>4, <1>5, BoundAssumption DEF InferRun, closing, pre, infer, post, Types, Settle, Abandon, PreBusy, InferBusy, AfterPre, AfterInfer, Active, Known
<1>7. Apart'
    BY <1>1, <1>2, <1>3, <1>4, <1>5 DEF InferRun, pre, infer, post, Apart, PreBusy, InferBusy, AfterPre, AfterInfer, Active, Known
<1>8. Promises'
    BY <1>1, <1>2, <1>3, <1>4, <1>5 DEF InferRun, pre, infer, post, Promises, Types, Apart, Settle, PreBusy, InferBusy, AfterPre, AfterInfer, Active, Known
<1>9. Staff'
    BY <1>1, <1>2, <1>3, <1>4, <1>5 DEF InferRun, pre, infer, post, Staff, PreBusy, InferBusy, AfterPre, AfterInfer, Active, Known
<1>10. Outputs'
    BY <1>1, <1>2, <1>3, <1>4, <1>5 DEF InferRun, pre, infer, post, Outputs, Types, Holders, Apart, PreBusy, InferBusy, AfterPre, AfterInfer, Active, Known
<1>11. Stopped'
    BY <1>1, <1>2, <1>3, <1>4, <1>5 DEF InferRun, closing, pre, infer, post, Stopped, PreBusy, InferBusy, AfterPre, AfterInfer, Active, Known
<1>12. InputBuffersAccountedFor'
    BY <1>1, <1>2, <1>3, <1>4, <1>5, SizeAssumption, BoundAssumption, SMTT(30) DEF InferRun, closing, pre, infer, post, InputBuffersAccountedFor, Types
<1> QED BY <1>6, <1>7, <1>8, <1>9, <1>10, <1>11, <1>12

\* The request and its output buffer go on to the post pool.
LEMMA InferHandOverInv ==
    ASSUME Inv, NEW r \in Requests, InferHandOver(r), life \in {"alive", "stages"}
    PROVE  Inv'
<1> USE DEF Inv
<1>1. ~waited
    BY DEF InferHandOver, Stopped, Active, PreBusy, InferBusy
<1>2. r \in InferBusy /\ r \notin AfterInfer /\ r \notin inferKept
    BY DEF InferHandOver, Apart, InferBusy
<1>3. postQ' \in Seq(Requests) /\ Distinct(postQ') /\ PostQueued' = PostQueued \union {r} /\ Len(postQ') = Len(postQ) + 1 /\ Len(postQ) \in Nat
  <2>1. postQ \in Seq(Requests) /\ Distinct(postQ) /\ r \notin PostQueued /\ r \in Requests
    BY <1>2 DEF Types, Apart, Active, Known, PreBusy, InferBusy, AfterPre, AfterInfer
  <2>2. postQ' = Append(postQ, r)
    BY DEF InferHandOver
  <2> QED BY <2>1, <2>2, PushDistinct DEF Distinct, PostQueued, Elements
<1>4. PreQueued' = PreQueued /\ InferQueued' = InferQueued /\ outcome' = outcome /\ outFree' = outFree /\ output' = output
    BY DEF InferHandOver, pre, PreQueued, InferQueued
<1>5. Staffed(InferBusy', inferKept')
  <2>1. InferBusy' = InferBusy \ {r} /\ inferKept' = inferKept \union {r}
    BY DEF InferHandOver, Apart, InferBusy
  <2>2. r \in InferBusy /\ r \notin inferKept
    BY DEF InferHandOver, Apart, PreBusy, InferBusy, AfterPre, AfterInfer, Active, Known
  <2> QED BY <2>1, <2>2, WorkerKeeps DEF Staff
<1>6. Types'
    BY <1>1, <1>2, <1>3, <1>4, <1>5, BoundAssumption DEF InferHandOver, closing, pre, infer, post, Types, Settle, Abandon, PreBusy, InferBusy, AfterPre, AfterInfer, Active, Known
<1>7. Apart'
    BY <1>1, <1>2, <1>3, <1>4, <1>5 DEF InferHandOver, pre, infer, post, Apart, PreBusy, InferBusy, AfterPre, AfterInfer, Active, Known
<1>8. Promises'
    BY <1>1, <1>2, <1>3, <1>4, <1>5 DEF InferHandOver, pre, infer, post, Promises, Types, Apart, Settle, PreBusy, InferBusy, AfterPre, AfterInfer, Active, Known
<1>9. Staff'
    BY <1>1, <1>2, <1>3, <1>4, <1>5 DEF InferHandOver, pre, infer, post, Staff, PreBusy, InferBusy, AfterPre, AfterInfer, Active, Known
<1>10. Outputs'
    BY <1>1, <1>2, <1>3, <1>4, <1>5 DEF InferHandOver, pre, infer, post, Outputs, Types, Holders, Apart, PreBusy, InferBusy, AfterPre, AfterInfer, Active, Known
<1>11. Stopped'
    BY <1>1, <1>2, <1>3, <1>4, <1>5 DEF InferHandOver, closing, pre, infer, post, Stopped, PreBusy, InferBusy, AfterPre, AfterInfer, Active, Known
<1>12. InputBuffersAccountedFor'
    BY <1>1, <1>2, <1>3, <1>4, <1>5, SizeAssumption, BoundAssumption DEF InferHandOver, closing, pre, infer, post, InputBuffersAccountedFor, Types
<1> QED BY <1>6, <1>7, <1>8, <1>9, <1>10, <1>11, <1>12

\* The post pool takes no more: the closure dies with its output buffer, the promise
\* hears of it.
LEMMA InferRefusedInv ==
    ASSUME Inv, NEW r \in Requests, InferHandOver(r), life \notin {"alive", "stages"}
    PROVE  Inv'
<1> USE DEF Inv
<1>1. ~waited
    BY DEF InferHandOver, Stopped, Active, InferBusy
<1>2. /\ r \in inferred /\ inferred' = inferred \ {r} /\ inferKept' = inferKept \union {r}
      /\ Settle(r, "exception") /\ ReleaseOutputs({r})
      /\ UNCHANGED <<pre, inferQ, acquiring, running, post, inFree, thrown, postThrew, closing>>
    BY DEF InferHandOver, post
<1>3. PreQueued' = PreQueued /\ InferQueued' = InferQueued /\ PostQueued' = PostQueued
    BY <1>2 DEF pre, post, PreQueued, InferQueued, PostQueued
<1>4. InferBusy' = InferBusy \ {r} /\ r \in InferBusy /\ r \notin inferKept
    BY <1>2 DEF Apart, InferBusy
<1>5. Staffed(InferBusy', inferKept')
    BY <1>2, <1>4, WorkerKeeps DEF Staff
<1>6. /\ outFree' \in Seq(OutputBuffers)
      /\ output' \in [Requests -> OutputBuffers \union {None}]
      /\ \A q \in Requests \ {r} : output'[q] = output[q]
    BY <1>2, Released
<1>7. Types'
  <2>1. Known' \subseteq Known /\ Known \subseteq Requests
    BY <1>2, <1>3, <1>4 DEF pre, post, Types, PreBusy, Active, Known
  <2>2. outcome' \in [Requests -> {"none", "pending", "value", "exception", "broken"}]
    BY <1>2 DEF Settle, Types
  <2>3. /\ preQ' = preQ /\ inferQ' = inferQ /\ postQ' = postQ /\ inFree' = inFree
        /\ thrown' = thrown /\ postThrew' = postThrew
        /\ refused' = refused /\ waited' = waited /\ stray' = stray /\ life' = life
    BY <1>2 DEF pre, post, closing
  <2> HIDE DEF Known
  <2> QED BY <1>6, <2>1, <2>2, <2>3 DEF Types
<1>8. Apart'
    BY <1>2, <1>3, <1>4 DEF pre, post, Apart, PreBusy, InferBusy, AfterPre, AfterInfer
<1>9. Promises'
    BY <1>2, <1>3, <1>4 DEF pre, post, Promises, Types, Apart, Settle, PreBusy, AfterPre, AfterInfer, Active, Known
<1>10. Staff'
    BY <1>2, <1>5 DEF pre, post, Staff, PreBusy
<1>11. Outputs'
  <2>1. Holders' \subseteq Holders \ {r} /\ Holders \subseteq Requests
    BY <1>2, <1>3 DEF post, Holders, Apart, InferBusy, AfterInfer, Types, Known, Active
  <2> QED BY <1>6, <2>1 DEF Outputs
<1>12. Stopped'
    BY <1>1, <1>2 DEF closing, Stopped
<1>13. InputBuffersAccountedFor'
    BY <1>2 DEF pre, closing, InputBuffersAccountedFor
<1> QED BY <1>7, <1>8, <1>9, <1>10, <1>11, <1>12, <1>13

\* A post worker takes the first request; the closure it kept dies, and the
\* output buffer goes back with it.
LEMMA PostTakeInv ==
    ASSUME Inv, PostTake
    PROVE  Inv'
<1> USE DEF Inv
<1>1. /\ postQ' \in Seq(Requests) /\ Distinct(postQ') /\ Head(postQ) \in PostQueued /\ Head(postQ) \in Requests
      /\ PostQueued' = PostQueued \ {Head(postQ)} /\ Len(postQ') = Len(postQ) - 1 /\ Len(postQ) \in Nat
  <2>1. postQ \in Seq(Requests) /\ Distinct(postQ) /\ postQ # <<>>
    BY DEF PostTake, Types, Apart
  <2>2. postQ' = Dequeued(postQ)
    BY DEF PostTake, Dequeued
  <2>3. \A i, k \in DOMAIN postQ : postQ[i] = postQ[k] => i = k
    BY <2>1 DEF Distinct
  <2>4. /\ Head(postQ) \in Requests /\ Head(postQ) \in Items(postQ)
        /\ postQ' \in Seq(Requests) /\ Len(postQ') = Len(postQ) - 1 /\ Len(postQ) \in Nat \ {0}
    BY <2>1, <2>2, <2>3, PopDistinct
  <2>5. \A i, k \in DOMAIN postQ' : postQ'[i] = postQ'[k] => i = k
    BY <2>1, <2>2, <2>3, PopDistinct
  <2>6. Items(postQ') = Items(postQ) \ {Head(postQ)}
    BY <2>1, <2>2, <2>3, PopDistinct
  <2> QED BY <2>4, <2>5, <2>6 DEF Distinct, PostQueued, Elements, Items
<1>2. PreQueued' = PreQueued /\ InferQueued' = InferQueued
    BY DEF PostTake, pre, infer, PreQueued, InferQueued
<1>3. Head(postQ) \notin posting \union postKept
    BY <1>1 DEF Apart
<1>4. Staffed(posting', postKept') /\ postKept' \subseteq postKept
  <2>1. PICK dying \in Idle(posting, postKept) : postKept' = postKept \ dying
    BY DEF PostTake
  <2>2. posting' = posting \union {Head(postQ)}
    BY DEF PostTake
  <2> QED BY <1>3, <2>1, <2>2, WorkerTakes DEF Staff
<1>5. ~waited
    BY <1>1 DEF Stopped, Active
<1>6. outcome' = Abandon(Known')
  <2>1. Referenced' = Known'
    BY DEF Referenced, PreBusy, InferBusy, AfterPre, AfterInfer, Active, Known, PreQueued, InferQueued, PostQueued
  <2> QED BY <2>1 DEF PostTake, Abandon
<1>7. /\ outFree' \in Seq(OutputBuffers)
      /\ output' \in [Requests -> OutputBuffers \union {None}]
      /\ \A r \in Holders' : output'[r] = output[r]
  <2>1. PICK dying \in Idle(posting, postKept) : postKept' = postKept \ dying /\ ReleaseOutputs(dying)
    BY DEF PostTake
  <2>2. dying \subseteq postKept
    BY <1>3, <2>1, WorkerTakes DEF Staff
  <2>3. Holders' \subseteq Requests \ dying
    BY <1>1, <1>3, <2>1, <2>2 DEF PostTake, infer, Holders, Types, Apart, PreBusy, InferBusy, AfterPre, AfterInfer, Active, Known
  <2>4. dying \subseteq Requests
    BY <2>2 DEF Types, Known
  <2> QED BY <2>1, <2>3, <2>4, Released
<1>8. Types'
    BY <1>1, <1>2, <1>3, <1>4, <1>5, <1>6, <1>7, BoundAssumption DEF PostTake, CallsStage, pre, infer, post, Types, Settle, Abandon, PreBusy, InferBusy, AfterPre, AfterInfer, Active, Known
<1>9. Apart'
    BY <1>1, <1>2, <1>3, <1>4, <1>5, <1>6, <1>7 DEF PostTake, pre, infer, post, Apart, PreBusy, InferBusy, AfterPre, AfterInfer, Active, Known
<1>10. Promises'
  <2>1. Active' \subseteq Active /\ Known' \subseteq Known /\ Active' \subseteq Known' /\ Known \subseteq Requests
    BY <1>1, <1>2, <1>3, <1>4, <1>5, <1>6, <1>7 DEF PostTake, pre, infer, post, Types, PreBusy, InferBusy, AfterPre, AfterInfer, Active, Known
  <2>2. outcome' = Abandon(Known')
    BY <1>1, <1>2, <1>3, <1>4, <1>5, <1>6, <1>7
  <2> HIDE DEF Active, Known
  <2>3. \A r \in Known' : outcome'[r] = outcome[r]
    BY <2>1, <2>2 DEF Abandon, Types
  <2> QED BY <2>1, <2>3 DEF Promises
<1>11. Staff'
    BY <1>1, <1>2, <1>3, <1>4, <1>5, <1>6, <1>7 DEF PostTake, pre, infer, post, Staff, PreBusy, InferBusy, AfterPre, AfterInfer, Active, Known
<1>12. Outputs'
    BY <1>1, <1>2, <1>3, <1>4, <1>5, <1>6, <1>7 DEF PostTake, pre, infer, post, Outputs, Types, Holders, Apart, PreBusy, InferBusy, AfterPre, AfterInfer, Active, Known
<1>13. Stopped'
    BY <1>1, <1>2, <1>3, <1>4, <1>5, <1>6, <1>7 DEF PostTake, CallsStage, pre, infer, post, Stopped, PreBusy, InferBusy, AfterPre, AfterInfer, Active, Known
<1>14. InputBuffersAccountedFor'
    BY <1>1, <1>2, <1>3, <1>4, <1>5, <1>6, <1>7, SizeAssumption, BoundAssumption DEF PostTake, CallsStage, pre, infer, post, InputBuffersAccountedFor, Types
<1> QED BY <1>8, <1>9, <1>10, <1>11, <1>12, <1>13, <1>14

\* postprocess returns: the value is set.
LEMMA PostExecuteInv ==
    ASSUME Inv, NEW r \in Requests, PostExecute(r)
    PROVE  Inv'
<1> USE DEF Inv
<1>1. PreQueued' = PreQueued /\ InferQueued' = InferQueued /\ PostQueued' = PostQueued
    BY DEF PostExecute, PostReturns, pre, infer, PreQueued, InferQueued, PostQueued
<1>2. ~waited
    BY DEF PostExecute, PostReturns, Stopped, Active
<1>3. Staffed(posting', postKept')
  <2>1. r \in posting /\ r \notin postKept /\ posting' = posting \ {r} /\ postKept' = postKept \union {r}
    BY DEF PostExecute, PostReturns, Apart
  <2> QED BY <2>1, WorkerKeeps DEF Staff
<1>4. outFree' \in Seq(OutputBuffers)
  <2>1. output[r] \in OutputBuffers
    BY DEF PostExecute, PostReturns, Outputs, Holders
  <2> QED BY <2>1 DEF PostExecute, PostReturns, Types
<1>5. Types'
    BY <1>1, <1>2, <1>3, <1>4, BoundAssumption DEF PostExecute, closing, pre, infer, post, PostReturns, Types, Settle, Abandon, PreBusy, InferBusy, AfterPre, AfterInfer, Active, Known
<1>6. Apart'
    BY <1>1, <1>2, <1>3, <1>4 DEF PostExecute, pre, infer, post, PostReturns, Apart, PreBusy, InferBusy, AfterPre, AfterInfer, Active, Known
<1>7. Promises'
    BY <1>1, <1>2, <1>3, <1>4 DEF PostExecute, pre, infer, post, PostReturns, Promises, Types, Apart, Settle, PreBusy, InferBusy, AfterPre, AfterInfer, Active, Known
<1>8. Staff'
    BY <1>1, <1>2, <1>3, <1>4 DEF PostExecute, pre, infer, post, PostReturns, Staff, PreBusy, InferBusy, AfterPre, AfterInfer, Active, Known
<1>9. Outputs'
    BY <1>1, <1>2, <1>3, <1>4 DEF PostExecute, pre, infer, post, PostReturns, Outputs, Types, Holders, Apart, PreBusy, InferBusy, AfterPre, AfterInfer, Active, Known
<1>10. Stopped'
    BY <1>1, <1>2, <1>3, <1>4 DEF PostExecute, closing, pre, infer, post, PostReturns, Stopped, PreBusy, InferBusy, AfterPre, AfterInfer, Active, Known
<1>11. InputBuffersAccountedFor'
    BY <1>1, <1>2, <1>3, <1>4, SizeAssumption, BoundAssumption DEF PostExecute, closing, pre, infer, post, PostReturns, InputBuffersAccountedFor, Types
<1> QED BY <1>5, <1>6, <1>7, <1>8, <1>9, <1>10, <1>11

\* postprocess throws: nobody hears of it, and the request stays pending.
LEMMA PostThrowInv ==
    ASSUME Inv, NEW r \in Requests, PostThrow(r)
    PROVE  Inv'
<1> USE DEF Inv
<1>1. PreQueued' = PreQueued /\ InferQueued' = InferQueued /\ PostQueued' = PostQueued
    BY DEF PostThrow, PostReturns, pre, infer, PreQueued, InferQueued, PostQueued
<1>2. ~waited
    BY DEF PostThrow, PostReturns, Stopped, Active
<1>3. Staffed(posting', postKept')
  <2>1. r \in posting /\ r \notin postKept /\ posting' = posting \ {r} /\ postKept' = postKept \union {r}
    BY DEF PostThrow, PostReturns, Apart
  <2> QED BY <2>1, WorkerKeeps DEF Staff
<1>4. outFree' \in Seq(OutputBuffers)
  <2>1. output[r] \in OutputBuffers
    BY DEF PostThrow, PostReturns, Outputs, Holders
  <2> QED BY <2>1 DEF PostThrow, PostReturns, Types
<1>5. Types'
    BY <1>1, <1>2, <1>3, <1>4, BoundAssumption DEF PostThrow, closing, pre, infer, post, PostReturns, Types, Settle, Abandon, PreBusy, InferBusy, AfterPre, AfterInfer, Active, Known
<1>6. Apart'
    BY <1>1, <1>2, <1>3, <1>4 DEF PostThrow, pre, infer, post, PostReturns, Apart, PreBusy, InferBusy, AfterPre, AfterInfer, Active, Known
<1>7. Promises'
    BY <1>1, <1>2, <1>3, <1>4 DEF PostThrow, pre, infer, post, PostReturns, Promises, Types, Apart, Settle, PreBusy, InferBusy, AfterPre, AfterInfer, Active, Known
<1>8. Staff'
    BY <1>1, <1>2, <1>3, <1>4 DEF PostThrow, pre, infer, post, PostReturns, Staff, PreBusy, InferBusy, AfterPre, AfterInfer, Active, Known
<1>9. Outputs'
    BY <1>1, <1>2, <1>3, <1>4 DEF PostThrow, pre, infer, post, PostReturns, Outputs, Types, Holders, Apart, PreBusy, InferBusy, AfterPre, AfterInfer, Active, Known
<1>10. Stopped'
    BY <1>1, <1>2, <1>3, <1>4 DEF PostThrow, closing, pre, infer, post, PostReturns, Stopped, PreBusy, InferBusy, AfterPre, AfterInfer, Active, Known
<1>11. InputBuffersAccountedFor'
    BY <1>1, <1>2, <1>3, <1>4, SizeAssumption, BoundAssumption DEF PostThrow, closing, pre, infer, post, PostReturns, InputBuffersAccountedFor, Types
<1> QED BY <1>5, <1>6, <1>7, <1>8, <1>9, <1>10, <1>11

\* The stages die, whatever is on its way; nothing is, for an owner that waited.
LEMMA DestroyInv ==
    ASSUME Inv, Destroy
    PROVE  Inv'
<1> USE DEF Inv
<1>1. PreQueued' = PreQueued /\ InferQueued' = InferQueued /\ PostQueued' = PostQueued
    BY DEF Destroy, pre, infer, post, PreQueued, InferQueued, PostQueued
<1>2. Active' = Active /\ Known' = Known /\ Holders' = Holders
    BY <1>1 DEF Destroy, pre, infer, post, Active, Known, Holders, PreBusy, InferBusy
<1>3. waited' => Active = {}
    BY DEF Destroy, Promises, Types, Known
<1>4. Types'
    BY <1>2 DEF Destroy, pre, infer, post, Types
<1>5. Apart'
    BY <1>1 DEF Destroy, pre, infer, post, Apart, PreBusy, InferBusy, AfterPre, AfterInfer
<1>6. Promises' /\ Outputs'
    BY <1>2 DEF Destroy, Promises, Outputs
<1>7. Staff'
    BY DEF Destroy, pre, infer, post, Staff, PreBusy, InferBusy
<1>8. Stopped'
  <2>1. Active = {} => preparing \union acquiring \union posting = {}
    BY DEF Active, PreBusy, InferBusy
  <2> QED BY <1>2, <1>3, <2>1 DEF Destroy, Stopped
<1>9. InputBuffersAccountedFor'
    BY DEF Destroy, pre, infer, InputBuffersAccountedFor
<1> QED BY <1>4, <1>5, <1>6, <1>7, <1>8, <1>9

\* The post pool's destructor begins.
LEMMA PostPoolStopsInv ==
    ASSUME Inv, PostPoolStops
    PROVE  Inv'
<1> USE DEF Inv
<1>1. /\ UNCHANGED <<outcome, pre, infer, post, inFree, outFree, output, thrown, postThrew, refused,
                     waited, stray>>
      /\ life' = "postPool"
    BY DEF PostPoolStops
<1>2. PreQueued' = PreQueued /\ InferQueued' = InferQueued /\ PostQueued' = PostQueued
    BY <1>1 DEF pre, infer, post, PreQueued, InferQueued, PostQueued
<1>3. Active' = Active /\ Known' = Known /\ Holders' = Holders
    BY <1>1, <1>2 DEF pre, infer, post, Active, Known, Holders, PreBusy, InferBusy
<1>4. Types'
    BY <1>1, <1>3 DEF pre, infer, post, Types
<1>5. Apart'
    BY <1>1, <1>2 DEF pre, infer, post, Apart, PreBusy, InferBusy, AfterPre, AfterInfer
<1>6. Promises' /\ Outputs' /\ Stopped'
    BY <1>1, <1>3 DEF Promises, Outputs, Stopped
<1>7. Staff' /\ InputBuffersAccountedFor'
    BY <1>1 DEF pre, infer, post, Staff, PreBusy, InferBusy, InputBuffersAccountedFor
<1> QED BY <1>4, <1>5, <1>6, <1>7

\* The post pool is joined: the closures its workers kept are gone.
LEMMA PostPoolJoinedInv ==
    ASSUME Inv, PostPoolJoined
    PROVE  Inv'
<1> USE DEF Inv
<1>1. PreQueued' = PreQueued /\ InferQueued' = InferQueued /\ PostQueued' = PostQueued
    BY DEF PostPoolJoined, pre, infer, post, PreQueued, InferQueued, PostQueued
<1>2. outcome' = Abandon(Known')
  <2>1. Referenced' = Known'
    BY DEF Referenced, PreBusy, InferBusy, AfterPre, AfterInfer, Active, Known, PreQueued, InferQueued, PostQueued
  <2> QED BY <2>1 DEF PostPoolJoined, Abandon
<1>3. Staffed(posting, {})
  <2>1. IsFiniteSet({}) /\ Cardinality({}) = 0
    BY FS_EmptySet
  <2>2. IsFiniteSet(posting) /\ Cardinality(posting) \in Nat /\ Cardinality(postKept) \in Nat
    BY FS_CardinalityType DEF Staff, Staffed
  <2> QED BY <2>1, <2>2, SizeAssumption DEF Staff, Staffed
<1>4. /\ outFree' \in Seq(OutputBuffers)
      /\ output' \in [Requests -> OutputBuffers \union {None}]
      /\ \A r \in Requests \ postKept : output'[r] = output[r]
    BY Released DEF PostPoolJoined, Types, Known
<1>5. Types'
    BY <1>1, <1>2, <1>3, <1>4, BoundAssumption DEF PostPoolJoined, pre, infer, post, Types, Settle, Abandon, PreBusy, InferBusy, AfterPre, AfterInfer, Active, Known
<1>6. Apart'
    BY <1>1, <1>2, <1>3, <1>4 DEF PostPoolJoined, pre, infer, post, Apart, PreBusy, InferBusy, AfterPre, AfterInfer, Active, Known
<1>7. Promises'
  <2>1. Active' \subseteq Active /\ Known' \subseteq Known /\ Active' \subseteq Known' /\ Known \subseteq Requests
    BY <1>1, <1>2, <1>3, <1>4 DEF PostPoolJoined, pre, infer, post, Types, PreBusy, InferBusy, AfterPre, AfterInfer, Active, Known
  <2>2. outcome' = Abandon(Known')
    BY <1>1, <1>2, <1>3, <1>4
  <2> HIDE DEF Active, Known
  <2>3. \A r \in Known' : outcome'[r] = outcome[r]
    BY <2>1, <2>2 DEF Abandon, Types
  <2> QED BY <2>1, <2>3 DEF Promises
<1>8. Staff'
    BY <1>1, <1>2, <1>3, <1>4 DEF PostPoolJoined, pre, infer, post, Staff, PreBusy, InferBusy, AfterPre, AfterInfer, Active, Known
<1>9. Outputs'
    BY <1>1, <1>2, <1>3, <1>4 DEF PostPoolJoined, pre, infer, post, Outputs, Types, Holders, Apart, PreBusy, InferBusy, AfterPre, AfterInfer, Active, Known
<1>10. Stopped'
    BY <1>1, <1>2, <1>3, <1>4 DEF PostPoolJoined, pre, infer, post, Stopped, PreBusy, InferBusy, AfterPre, AfterInfer, Active, Known
<1>11. InputBuffersAccountedFor'
    BY <1>1, <1>2, <1>3, <1>4, SizeAssumption, BoundAssumption DEF PostPoolJoined, pre, infer, post, InputBuffersAccountedFor, Types
<1> QED BY <1>5, <1>6, <1>7, <1>8, <1>9, <1>10, <1>11

\* The infer pool is joined.
LEMMA InferPoolJoinedInv ==
    ASSUME Inv, InferPoolJoined
    PROVE  Inv'
<1> USE DEF Inv
<1>1. PreQueued' = PreQueued /\ InferQueued' = InferQueued /\ PostQueued' = PostQueued
    BY DEF InferPoolJoined, pre, infer, post, PreQueued, InferQueued, PostQueued
<1>2. outcome' = Abandon(Known')
  <2>1. Referenced' = Known'
    BY DEF Referenced, PreBusy, InferBusy, AfterPre, AfterInfer, Active, Known, PreQueued, InferQueued, PostQueued
  <2> QED BY <2>1 DEF InferPoolJoined, Abandon
<1>3. Staffed(InferBusy, {})
  <2>1. IsFiniteSet({}) /\ Cardinality({}) = 0
    BY FS_EmptySet
  <2>2. IsFiniteSet(InferBusy) /\ Cardinality(InferBusy) \in Nat /\ Cardinality(inferKept) \in Nat
    BY FS_CardinalityType DEF Staff, Staffed
  <2> QED BY <2>1, <2>2, SizeAssumption DEF Staff, Staffed
<1>4. Types'
    BY <1>1, <1>2, <1>3, BoundAssumption DEF InferPoolJoined, pre, infer, post, Types, Settle, Abandon, PreBusy, InferBusy, AfterPre, AfterInfer, Active, Known
<1>5. Apart'
    BY <1>1, <1>2, <1>3 DEF InferPoolJoined, pre, infer, post, Apart, PreBusy, InferBusy, AfterPre, AfterInfer, Active, Known
<1>6. Promises'
  <2>1. Active' \subseteq Active /\ Known' \subseteq Known /\ Active' \subseteq Known' /\ Known \subseteq Requests
    BY <1>1, <1>2, <1>3 DEF InferPoolJoined, pre, infer, post, Types, PreBusy, InferBusy, AfterPre, AfterInfer, Active, Known
  <2>2. outcome' = Abandon(Known')
    BY <1>1, <1>2, <1>3
  <2> HIDE DEF Active, Known
  <2>3. \A r \in Known' : outcome'[r] = outcome[r]
    BY <2>1, <2>2 DEF Abandon, Types
  <2> QED BY <2>1, <2>3 DEF Promises
<1>7. Staff'
    BY <1>1, <1>2, <1>3 DEF InferPoolJoined, pre, infer, post, Staff, PreBusy, InferBusy, AfterPre, AfterInfer, Active, Known
<1>8. Outputs'
    BY <1>1, <1>2, <1>3 DEF InferPoolJoined, pre, infer, post, Outputs, Types, Holders, Apart, PreBusy, InferBusy, AfterPre, AfterInfer, Active, Known
<1>9. Stopped'
    BY <1>1, <1>2, <1>3 DEF InferPoolJoined, pre, infer, post, Stopped, PreBusy, InferBusy, AfterPre, AfterInfer, Active, Known
<1>10. InputBuffersAccountedFor'
    BY <1>1, <1>2, <1>3, SizeAssumption, BoundAssumption DEF InferPoolJoined, pre, infer, post, InputBuffersAccountedFor, Types
<1> QED BY <1>4, <1>5, <1>6, <1>7, <1>8, <1>9, <1>10

\* The pre pool is joined.
LEMMA PrePoolJoinedInv ==
    ASSUME Inv, PrePoolJoined
    PROVE  Inv'
<1> USE DEF Inv
<1>1. PreQueued' = PreQueued /\ InferQueued' = InferQueued /\ PostQueued' = PostQueued
    BY DEF PrePoolJoined, pre, infer, post, PreQueued, InferQueued, PostQueued
<1>2. outcome' = Abandon(Known')
  <2>1. Referenced' = Known'
    BY DEF Referenced, PreBusy, InferBusy, AfterPre, AfterInfer, Active, Known, PreQueued, InferQueued, PostQueued
  <2> QED BY <2>1 DEF PrePoolJoined, Abandon
<1>3. Staffed(PreBusy, {})
  <2>1. IsFiniteSet({}) /\ Cardinality({}) = 0
    BY FS_EmptySet
  <2>2. IsFiniteSet(PreBusy) /\ Cardinality(PreBusy) \in Nat /\ Cardinality(preKept) \in Nat
    BY FS_CardinalityType DEF Staff, Staffed
  <2> QED BY <2>1, <2>2, SizeAssumption DEF Staff, Staffed
<1>4. Types'
    BY <1>1, <1>2, <1>3, BoundAssumption DEF PrePoolJoined, pre, infer, post, Types, Settle, Abandon, PreBusy, InferBusy, AfterPre, AfterInfer, Active, Known
<1>5. Apart'
    BY <1>1, <1>2, <1>3 DEF PrePoolJoined, pre, infer, post, Apart, PreBusy, InferBusy, AfterPre, AfterInfer, Active, Known
<1>6. Promises'
  <2>1. Active' \subseteq Active /\ Known' \subseteq Known /\ Active' \subseteq Known' /\ Known \subseteq Requests
    BY <1>1, <1>2, <1>3 DEF PrePoolJoined, pre, infer, post, Types, PreBusy, InferBusy, AfterPre, AfterInfer, Active, Known
  <2>2. outcome' = Abandon(Known')
    BY <1>1, <1>2, <1>3
  <2> HIDE DEF Active, Known
  <2>3. \A r \in Known' : outcome'[r] = outcome[r]
    BY <2>1, <2>2 DEF Abandon, Types
  <2> QED BY <2>1, <2>3 DEF Promises
<1>7. Staff'
    BY <1>1, <1>2, <1>3 DEF PrePoolJoined, pre, infer, post, Staff, PreBusy, InferBusy, AfterPre, AfterInfer, Active, Known
<1>8. Outputs'
    BY <1>1, <1>2, <1>3 DEF PrePoolJoined, pre, infer, post, Outputs, Types, Holders, Apart, PreBusy, InferBusy, AfterPre, AfterInfer, Active, Known
<1>9. Stopped'
    BY <1>1, <1>2, <1>3 DEF PrePoolJoined, pre, infer, post, Stopped, PreBusy, InferBusy, AfterPre, AfterInfer, Active, Known
<1>10. InputBuffersAccountedFor'
    BY <1>1, <1>2, <1>3, SizeAssumption, BoundAssumption DEF PrePoolJoined, pre, infer, post, InputBuffersAccountedFor, Types
<1> QED BY <1>4, <1>5, <1>6, <1>7, <1>8, <1>9, <1>10

\* Nothing has been submitted, and every output buffer is on offer.
LEMMA InitInv == Init => Inv /\ OutputsApart
<1> SUFFICES ASSUME Init PROVE Inv /\ OutputsApart
    OBVIOUS
<1>1. IsFiniteSet({}) /\ Cardinality({}) = 0
    BY FS_EmptySet
<1>2. outFree \in Seq(OutputBuffers) /\ Distinct(outFree)
  <2>1. IsFiniteSet(OutputBuffers)
    BY SizeAssumption, FS_Interval DEF OutputBuffers
  <2> QED BY <2>1, SetToSeqDistinct DEF Init
<1>3. PreQueued = {} /\ InferQueued = {} /\ PostQueued = {} /\ PreBusy = {} /\ InferBusy = {}
    BY DEF Init, PreQueued, InferQueued, PostQueued, Elements, PreBusy, InferBusy
<1>4. preQ = <<>> /\ inferQ = <<>> /\ postQ = <<>> /\ Len(inferQ) = 0
    BY DEF Init
<1>5. Types
  <2>1. Known = {}
    BY <1>3 DEF Init, Known, Active
  <2>2. waited \in BOOLEAN /\ stray \in BOOLEAN
    BY Zenon DEF Init
  <2>3. thrown = 0 /\ refused = 0
    BY DEF Init
  <2>4. refused \in Nat /\ thrown \in 0 .. InferThrows
    BY <2>3, BoundAssumption
  <2> HIDE DEF Known
  <2> QED BY <1>2, <2>1, <2>2, <2>4, SizeAssumption DEF Init, Types
<1>6. Apart
    BY <1>3, <1>4 DEF Init, Apart, Distinct, AfterPre, AfterInfer
<1>7. Promises
    BY <1>3 DEF Init, Promises, Known, Active
<1>8. Staff
    BY <1>1, <1>3, SizeAssumption DEF Init, Staff, Staffed
<1>9. Outputs /\ Stopped /\ OutputsApart
    BY <1>2, <1>3 DEF Init, Outputs, Stopped, OutputsApart, Holders
<1>10. InputBuffersAccountedFor
  <2>1. /\ Cardinality(prepared) = 0 /\ Cardinality(acquiring) = 0 /\ Cardinality(running) = 0
        /\ Len(inferQ) = 0 /\ inFree = BufferSize /\ thrown = 0 /\ refused = 0
    BY <1>1, <1>4 DEF Init
  <2> QED BY <2>1, SizeAssumption DEF InputBuffersAccountedFor
<1> QED BY <1>5, <1>6, <1>7, <1>8, <1>9, <1>10 DEF Inv

\* Every step keeps the invariant.
LEMMA NextInv == Inv /\ [Next]_vars => Inv'
<1> SUFFICES ASSUME Inv, [Next]_vars PROVE Inv'
    OBVIOUS
<1>1. CASE PreTake \/ InferTake \/ PostTake \/ Destroy
    BY <1>1, PreTakeInv, InferTakeInv, PostTakeInv, DestroyInv
<1>2. CASE Joins
    BY <1>2, PostPoolStopsInv, PostPoolJoinedInv, InferPoolJoinedInv, PrePoolJoinedInv DEF Joins
<1>3. ASSUME NEW r \in Requests,
             Submit(r) \/ PreStage(r) \/ InferStage(r) \/ PostExecute(r) \/ Throws(r)
      PROVE  Inv'
  <2>1. CASE Submit(r) \/ PreStage(r)
    BY <2>1, SubmitInv, PreExecuteInv, PreHandOverInv, PreRefusedInv DEF PreStage
  <2>2. CASE InferStage(r)
    BY <2>2, InferAcquireInv, InferRunInv, InferHandOverInv, InferRefusedInv DEF InferStage
  <2>3. CASE PostExecute(r) \/ Throws(r)
    BY <2>3, PostExecuteInv, PreThrowInv, InferThrowInv, PostThrowInv DEF Throws
  <2> QED BY <1>3, <2>1, <2>2, <2>3
<1>4. CASE UNCHANGED vars
  <2> USE <1>4 DEF vars, pre, infer, post, closing
  <2>1. /\ PreQueued' = PreQueued /\ InferQueued' = InferQueued /\ PostQueued' = PostQueued
        /\ PreBusy' = PreBusy /\ InferBusy' = InferBusy
    BY DEF PreQueued, InferQueued, PostQueued, Elements, PreBusy, InferBusy
  <2>2. /\ Active' = Active /\ Known' = Known /\ Holders' = Holders
        /\ AfterPre' = AfterPre /\ AfterInfer' = AfterInfer
    BY <2>1 DEF Active, Known, Holders, AfterPre, AfterInfer
  <2>3. Types' /\ Promises' /\ Outputs' /\ Stopped'
    BY <2>2 DEF Inv, Types, Promises, Outputs, Stopped
  <2>4. Apart' /\ Staff' /\ InputBuffersAccountedFor'
    BY <2>1, <2>2 DEF Inv, Apart, Distinct, Staff, InputBuffersAccountedFor
  <2> QED BY <2>3, <2>4 DEF Inv
<1> QED BY <1>1, <1>2, <1>3, <1>4 DEF Next

\* The inductive invariant holds of every behaviour.
THEOREM Invariant == Spec => []Inv
<1>1. Init => Inv
    BY InitInv
<1>2. Inv /\ [Next]_vars => Inv'
    BY NextInv
<1> QED BY <1>1, <1>2, PTL DEF Spec

\* What the invariant says of the input buffers: none is made up, and none goes
\* missing but by a Run that threw or a hand-over refused.
LEMMA InputsInRange == Inv => inFree \in 0 .. BufferSize /\ refused \in 0 .. BufferSize
<1> SUFFICES ASSUME Inv PROVE inFree \in 0 .. BufferSize /\ refused \in 0 .. BufferSize
    OBVIOUS
<1>1. /\ Cardinality(prepared) \in Nat /\ Cardinality(acquiring) \in Nat /\ Cardinality(running) \in Nat
      /\ Len(inferQ) \in Nat
    BY Counted DEF Inv
<1>2. inFree \in Nat /\ thrown \in Nat /\ refused \in Nat
    BY BoundAssumption DEF Inv, Types
<1> QED BY <1>1, <1>2, SizeAssumption DEF Inv, InputBuffersAccountedFor

\* The workers a pool's busy and kept requests occupy are different ones.
LEMMA StaffUnion ==
    ASSUME NEW busy, NEW kept, Staffed(busy, kept), busy \intersect kept = {}
    PROVE  Cardinality(busy \union kept) <= BufferSize
<1>1. Cardinality(busy \union kept) = Cardinality(busy) + Cardinality(kept) - Cardinality(busy \intersect kept)
    BY FS_Union DEF Staffed
<1>2. Cardinality(busy \intersect kept) = 0
    BY FS_EmptySet
<1>3. Cardinality(busy) \in Nat /\ Cardinality(kept) \in Nat
    BY FS_CardinalityType DEF Staffed
<1> QED BY <1>1, <1>2, <1>3, SizeAssumption DEF Staffed

\* The variables keep their types; a stage pool never has more than buffer_size
\* requests in its workers' hands, and pool_ never more than its buffers.
THEOREM TypeCorrect == Spec => []TypeOK
<1>1. Inv => TypeOK
  <2> SUFFICES ASSUME Inv PROVE TypeOK
    OBVIOUS
  <2>1. inFree \in 0 .. BufferSize /\ refused \in 0 .. BufferSize
    BY InputsInRange
  <2>2. /\ Cardinality(PreBusy \union preKept) <= BufferSize
        /\ Cardinality(InferBusy \union inferKept) <= BufferSize
        /\ Cardinality(posting \union postKept) <= BufferSize
    BY StaffUnion DEF Inv, Staff, Apart
  <2>3. /\ PreBusy \union preKept = preparing \union prepared \union preKept
        /\ InferBusy \union inferKept = acquiring \union running \union inferred \union inferKept
    BY DEF PreBusy, InferBusy
  <2>4. \A pool \in {preparing \union prepared \union preKept,
                     acquiring \union running \union inferred \union inferKept,
                     posting \union postKept} :
            pool \subseteq Requests /\ Cardinality(pool) <= BufferSize
    BY <2>2, <2>3 DEF Inv, Types, Known, Active, PreBusy, InferBusy
  <2>5. \A q \in {preQ, inferQ, postQ} : q \in Seq(Requests)
    BY DEF Inv, Types
  <2> QED BY <2>1, <2>4, <2>5 DEF Inv, Types, TypeOK
<1> QED BY <1>1, Invariant, PTL

\* Each input buffer is free, on its way with one request, or lost to a Run
\* that threw or to a refused hand-over.
THEOREM InputBuffers == Spec => []InputBuffersAccountedFor
<1>1. Inv => InputBuffersAccountedFor
    BY DEF Inv
<1> QED BY <1>1, Invariant, PTL

\* The stages are destroyed before the pools that use them, at any time; but an owner
\* that has waited for its futures leaves no closure that would still call one.
THEOREM StagesOutlivePools == Spec => []NoStageCalledAfterDestroy
<1>1. Inv => NoStageCalledAfterDestroy
    BY DEF Inv, Stopped, NoStageCalledAfterDestroy
<1> QED BY <1>1, Invariant, PTL

\* A step that settles some pending promises is a step of the service.
LEMMA SettlesMany ==
    ASSUME Types, Types', (life' = "alive") = (life = "alive"),
           \A r \in Requests :
               outcome'[r] = outcome[r]
               \/ (outcome[r] = "pending" /\ outcome'[r] \in {"value", "exception", "broken"})
    PROVE  [Service!SchedulerNext]_(Service!schedulerVars)
BY DEF Types, Service!SchedulerNext, Service!Settle, Service!Settled, Service!schedulerVars

\* AsyncScheduler keeps what InferenceScheduler.h promises: the future of a
\* submitted request becomes ready at most once, and never in two ways.  The
\* mapping is open <- life = "alive"; what the stages do to a promise settles
\* one that is pending, because only a request on its way is in a stage's hands.
THEOREM Refinement == Spec => ImplementsScheduler
<1>1. Init => Service!SchedulerInit
    BY DEF Init, Service!SchedulerInit
<1>2. Inv /\ Inv' /\ [Next]_vars => [Service!SchedulerNext]_(Service!schedulerVars)
  <2> SUFFICES ASSUME Inv, Inv', [Next]_vars
               PROVE  [Service!SchedulerNext]_(Service!schedulerVars)
    OBVIOUS
  <2>1. Types /\ Types' /\ Promises
    BY DEF Inv
  <2>2. CASE UNCHANGED outcome /\ (life' = "alive") = (life = "alive")
    BY <2>1, <2>2, SettlesMany
  <2>3. ASSUME NEW kept, outcome' = Abandon(kept), (life' = "alive") = (life = "alive")
        PROVE  [Service!SchedulerNext]_(Service!schedulerVars)
    <3>1. \A r \in Requests :
            outcome'[r] = outcome[r]
            \/ (outcome[r] = "pending" /\ outcome'[r] \in {"value", "exception", "broken"})
      BY <2>3 DEF Abandon
    <3> QED BY <2>1, <2>3, <3>1, SettlesMany
  <2>4. ASSUME NEW r \in Active, NEW result \in {"value", "exception", "broken"},
               Settle(r, result), life' = life
        PROVE  [Service!SchedulerNext]_(Service!schedulerVars)
    <3>1. outcome[r] = "pending"
      BY <2>1 DEF Promises
    <3>2. \A s \in Requests :
            outcome'[s] = outcome[s]
            \/ (outcome[s] = "pending" /\ outcome'[s] \in {"value", "exception", "broken"})
      BY <2>1, <2>4, <3>1 DEF Settle, Types
    <3> QED BY <2>1, <2>4, <3>2, SettlesMany
  <2>5. CASE UNCHANGED vars
    BY <2>2, <2>5 DEF vars, closing
  <2>6. CASE PreTake \/ InferTake \/ PostTake
    BY <2>3, <2>6 DEF PreTake, InferTake, PostTake, CallsStage
  <2>7. CASE Joins
    BY <2>2, <2>3, <2>7 DEF Joins, PostPoolStops, PostPoolJoined, InferPoolJoined, PrePoolJoined
  <2>8. CASE Destroy
    BY <2>8 DEF Destroy, Service!SchedulerNext, Service!Stop
  <2>9. ASSUME NEW r \in Requests,
               Submit(r) \/ PreStage(r) \/ InferStage(r) \/ PostExecute(r) \/ Throws(r)
        PROVE  [Service!SchedulerNext]_(Service!schedulerVars)
    <3>1. CASE Submit(r)
      BY <3>1, <2>1 DEF Submit, Settle, closing, Service!SchedulerNext, Service!Submit
    <3>2. CASE PreExecute(r) \/ InferAcquire(r) \/ InferRun(r) \/ PostThrow(r)
      BY <3>2, <2>2 DEF PreExecute, InferAcquire, InferRun, PostThrow, PostReturns, closing
    <3>3. CASE PreHandOver(r)
      <4>1. r \in Active
        BY <3>3 DEF PreHandOver, Active, PreBusy
      <4>2. UNCHANGED outcome \/ Settle(r, "exception")
        BY <3>3 DEF PreHandOver
      <4> QED BY <2>2, <2>4, <3>3, <4>1, <4>2 DEF PreHandOver
    <3>4. CASE InferHandOver(r)
      <4>1. r \in Active
        BY <3>4 DEF InferHandOver, Active, InferBusy
      <4>2. UNCHANGED outcome \/ Settle(r, "exception")
        BY <3>4 DEF InferHandOver
      <4> QED BY <2>2, <2>4, <3>4, <4>1, <4>2 DEF InferHandOver, closing
    <3>5. CASE PreThrow(r) \/ InferThrow(r)
      BY <2>4, <3>5 DEF PreThrow, InferThrow, Active, PreBusy, InferBusy, closing
    <3>6. CASE PostExecute(r)
      BY <2>4, <3>6 DEF PostExecute, PostReturns, Active, closing
    <3> QED BY <2>9, <3>1, <3>2, <3>3, <3>4, <3>5, <3>6 DEF PreStage, InferStage, Throws
  <2> QED BY <2>5, <2>6, <2>7, <2>8, <2>9 DEF Next
<1> QED BY <1>1, <1>2, Invariant, PTL DEF Spec, ImplementsScheduler, Service!SchedulerSpec

------------------------------------------------------------------------------
(* Every promise is accounted for. *)

\* A future that is not ready belongs to a request on its way; only a request
\* whose postprocess threw can wait for nothing, or find its promise broken.
Answered ==
    \A r \in Requests :
        /\ outcome[r] = "pending" => r \in Active \union postThrew
        /\ outcome[r] = "broken" => r \in postThrew

\* A step after which each request that was on its way still is, or has been
\* answered, or has thrown in postprocess.
LEMMA StillAnswered ==
    ASSUME Answered, Promises', postThrew \subseteq postThrew',
           \A r \in Requests :
               \/ outcome'[r] = outcome[r]
               \/ outcome'[r] \in {"value", "exception"}
               \/ outcome[r] = "pending" /\ outcome'[r] = "broken"
               \/ r \in Active' /\ outcome'[r] = "pending",
           \A r \in Active :
               r \in Active' \union postThrew' \/ outcome'[r] \in {"value", "exception"}
    PROVE  Answered'
<1> SUFFICES ASSUME NEW r \in Requests
             PROVE  /\ outcome'[r] = "pending" => r \in Active' \union postThrew'
                    /\ outcome'[r] = "broken" => r \in postThrew'
    BY DEF Answered
<1>1. r \in Active' => outcome'[r] = "pending"
    BY DEF Promises
<1>2. CASE outcome'[r] = outcome[r]
    BY <1>2 DEF Answered
<1>3. CASE outcome[r] = "pending" /\ outcome'[r] = "broken"
    BY <1>1, <1>3 DEF Answered
<1> QED BY <1>2, <1>3

\* A worker takes a request, a pool is joined: closures die, but no request is
\* off its way.
LEMMA AbandonAnswered ==
    ASSUME Types, Answered, Promises', NEW kept, outcome' = Abandon(kept),
           Active \subseteq Active', UNCHANGED postThrew
    PROVE  Answered'
<1>1. \A r \in Requests :
        outcome'[r] = outcome[r] \/ (outcome[r] = "pending" /\ outcome'[r] = "broken")
    BY DEF Abandon
<1> HIDE DEF Active
<1> QED BY <1>1, StillAnswered

\* A stage settles the promise of the request it lets go.
LEMMA SettleAnswered ==
    ASSUME Types, Answered, Promises', NEW r \in Requests, NEW how \in {"value", "exception"},
           Settle(r, how), Active \subseteq Active' \union {r}, UNCHANGED postThrew
    PROVE  Answered'
<1>1. outcome'[r] = how /\ \A s \in Requests : s # r => outcome'[s] = outcome[s]
    BY DEF Settle, Types
<1> HIDE DEF Active
<1> QED BY <1>1, StillAnswered

\* A stage hands a request on, or keeps it.
LEMMA PassedOnAnswered ==
    ASSUME Answered, Promises', UNCHANGED outcome, postThrew \subseteq postThrew',
           Active \subseteq Active' \union postThrew'
    PROVE  Answered'
<1> HIDE DEF Active
<1> QED BY StillAnswered

\* Every step keeps the account.
LEMMA NextAnswered ==
    ASSUME Inv, Inv', Answered, [Next]_vars
    PROVE  Answered'
<1>1. Types /\ Promises'
    BY DEF Inv
<1>2. PreQueued = Items(preQ) /\ InferQueued = Items(inferQ) /\ PostQueued = Items(postQ)
    BY DEF PreQueued, InferQueued, PostQueued, Elements, Items
<1>3. PreQueued' = Items(preQ') /\ InferQueued' = Items(inferQ') /\ PostQueued' = Items(postQ')
    BY DEF PreQueued, InferQueued, PostQueued, Elements, Items
<1> USE DEF Active, PreBusy, InferBusy, pre, infer, post
<1>4. CASE UNCHANGED vars \/ Destroy \/ PostPoolStops
  <2>1. UNCHANGED <<outcome, pre, infer, post, postThrew>>
    BY <1>4 DEF vars, Destroy, PostPoolStops
  <2> QED BY <1>1, <1>2, <1>3, <2>1, PassedOnAnswered
<1>5. CASE PreTake
  <2>1. PreQueued = PreQueued' \union {Head(preQ)}
    BY <1>1, <1>2, <1>3, <1>5, ItemsTaken DEF PreTake, Types
  <2> QED BY <1>1, <1>2, <1>3, <1>5, <2>1, AbandonAnswered DEF PreTake
<1>6. CASE InferTake
  <2>1. InferQueued = InferQueued' \union {Head(inferQ)}
    BY <1>1, <1>2, <1>3, <1>6, ItemsTaken DEF InferTake, Types
  <2> QED BY <1>1, <1>2, <1>3, <1>6, <2>1, AbandonAnswered DEF InferTake
<1>7. CASE PostTake
  <2>1. PostQueued = PostQueued' \union {Head(postQ)}
    BY <1>1, <1>2, <1>3, <1>7, ItemsTaken DEF PostTake, Types
  <2> QED BY <1>1, <1>2, <1>3, <1>7, <2>1, AbandonAnswered DEF PostTake
<1>8. CASE PostPoolJoined \/ InferPoolJoined \/ PrePoolJoined
    BY <1>1, <1>2, <1>3, <1>8, AbandonAnswered
       DEF PostPoolJoined, InferPoolJoined, PrePoolJoined
<1>9. ASSUME NEW r \in Requests,
             Submit(r) \/ PreStage(r) \/ InferStage(r) \/ PostExecute(r) \/ Throws(r)
      PROVE  Answered'
  <2>1. CASE Submit(r)
    <3>1. outcome'[r] = "pending" /\ \A s \in Requests : s # r => outcome'[s] = outcome[s]
      BY <1>1, <2>1 DEF Submit, Settle, Types
    <3>2. PreQueued' = PreQueued \union {r}
      BY <1>1, <1>2, <1>3, <2>1, ItemsPushed DEF Submit, Types
    <3>3. Active' = Active \union {r} /\ UNCHANGED postThrew
      BY <1>2, <1>3, <2>1, <3>2 DEF Submit
    <3> QED BY <1>1, <3>1, <3>3, StillAnswered
  <2>2. CASE PreExecute(r) \/ InferAcquire(r) \/ InferRun(r)
    BY <1>1, <1>2, <1>3, <2>2, PassedOnAnswered DEF PreExecute, InferAcquire, InferRun
  <2>3. CASE PreHandOver(r)
    <3>1. CASE life \in {"alive", "stages", "postPool"}
      <4>1. InferQueued' = InferQueued \union {r}
        <5>1. inferQ' = Append(inferQ, r) /\ inferQ \in Seq(Requests)
          BY <1>1, <2>3, <3>1 DEF PreHandOver, Types
        <5> QED BY <1>2, <1>3, <5>1, ItemsPushed
      <4> QED BY <1>1, <1>2, <1>3, <2>3, <3>1, <4>1, PassedOnAnswered DEF PreHandOver
    <3>2. CASE life \notin {"alive", "stages", "postPool"}
      BY <1>1, <1>2, <1>3, <2>3, <3>2, SettleAnswered DEF PreHandOver
    <3> QED BY <3>1, <3>2
  <2>4. CASE InferHandOver(r)
    <3>1. CASE life \in {"alive", "stages"}
      <4>1. PostQueued' = PostQueued \union {r}
        <5>1. postQ' = Append(postQ, r) /\ postQ \in Seq(Requests)
          BY <1>1, <2>4, <3>1 DEF InferHandOver, Types
        <5> QED BY <1>2, <1>3, <5>1, ItemsPushed
      <4> QED BY <1>1, <1>2, <1>3, <2>4, <3>1, <4>1, PassedOnAnswered DEF InferHandOver
    <3>2. CASE life \notin {"alive", "stages"}
      BY <1>1, <1>2, <1>3, <2>4, <3>2, SettleAnswered DEF InferHandOver
    <3> QED BY <3>1, <3>2
  <2>5. CASE PreThrow(r) \/ InferThrow(r)
    BY <1>1, <1>2, <1>3, <2>5, SettleAnswered DEF PreThrow, InferThrow
  <2>6. CASE PostExecute(r)
    BY <1>1, <1>2, <1>3, <2>6, SettleAnswered DEF PostExecute, PostReturns
  <2>7. CASE PostThrow(r)
    BY <1>1, <1>2, <1>3, <2>7, PassedOnAnswered DEF PostThrow, PostReturns
  <2> QED BY <1>9, <2>1, <2>2, <2>3, <2>4, <2>5, <2>6, <2>7 DEF PreStage, InferStage, Throws
<1> QED BY <1>4, <1>5, <1>6, <1>7, <1>8, <1>9 DEF Next, Joins

\* The last closure's missing handler is the only way to lose an answer: what
\* preprocess and Run throw reaches the future, and so does a refused hand-over.
THEOREM EveryPromiseAccountedFor == Spec => []Answered
<1>1. Init => Inv /\ Answered
    BY InitInv DEF Init, Answered
<1>2. Inv /\ Answered /\ [Next]_vars => Inv' /\ Answered'
    BY NextInv, NextAnswered
<1> QED BY <1>1, <1>2, PTL DEF Spec

------------------------------------------------------------------------------
(* Exclusive output buffers. *)

\* A step that leaves the buffers alone, and after which nobody new holds one.
LEMMA BuffersUntouched ==
    ASSUME OutputsApart, UNCHANGED <<outFree, output>>, Holders' \subseteq Holders
    PROVE  OutputsApart'
BY DEF OutputsApart, Distinct, Elements

\* Buffers come back, and those who held them hold none any more.
LEMMA BuffersReturned ==
    ASSUME Types, Outputs, OutputsApart, NEW rs, rs \subseteq Holders, Holders \subseteq Requests,
           ReleaseOutputs(rs), Holders' \subseteq Holders \ rs
    PROVE  OutputsApart'
<1> DEFINE T == {output[r] : r \in rs} \ {None}
<1>1. T \intersect Elements(outFree) = {}
    BY DEF OutputsApart
<1>2. /\ \A r \in Requests \ rs : output'[r] = output[r]
      /\ Distinct(outFree') /\ Elements(outFree') = Elements(outFree) \union T
    BY <1>1, Released DEF OutputsApart
<1>3. \A r \in Holders' : r \in Holders /\ r \notin rs /\ output'[r] = output[r]
    BY <1>2
<1>4. \A r \in Holders' : output[r] \notin T
    BY <1>3 DEF OutputsApart
<1> HIDE DEF T
<1>5. \A r \in Holders' : output'[r] \notin Elements(outFree')
    BY <1>2, <1>3, <1>4 DEF OutputsApart
<1>6. \A r, s \in Holders' : output'[r] = output'[s] => r = s
    BY <1>3 DEF OutputsApart
<1> QED BY <1>2, <1>5, <1>6 DEF OutputsApart

\* infer takes the first buffer on offer, which nobody holds.
LEMMA BufferTaken ==
    ASSUME Inv, OutputsApart, NEW r \in Requests, InferAcquire(r)
    PROVE  OutputsApart'
<1>1. /\ outFree \in Seq(OutputBuffers) /\ outFree # <<>>
      /\ \A i, k \in DOMAIN outFree : outFree[i] = outFree[k] => i = k
    BY DEF Inv, Types, OutputsApart, Distinct, InferAcquire
<1>2. outFree' = Dequeued(outFree)
    BY DEF InferAcquire, Dequeued
<1>3. Head(outFree) \in Items(outFree) /\ Items(outFree') = Items(outFree) \ {Head(outFree)}
    BY <1>1, <1>2, PopDistinct
<1>4. \A i, k \in DOMAIN outFree' : outFree'[i] = outFree'[k] => i = k
    BY <1>1, <1>2, PopDistinct
<1>5. Items(outFree) = Elements(outFree) /\ Items(outFree') = Elements(outFree')
    BY DEF Items, Elements
<1>6. output'[r] = Head(outFree) /\ \A s \in Requests \ {r} : output'[s] = output[s]
    BY DEF InferAcquire, Inv, Types
<1>7. Holders' \subseteq Holders \union {r} /\ Holders \subseteq Requests
    BY DEF InferAcquire, post, Holders, PostQueued, Inv, Types, Known, Active, InferBusy
<1>8. r \notin Holders
    BY DEF InferAcquire, Holders, Inv, Apart, InferBusy, AfterInfer
<1>9. \A s \in Holders' : output'[s] \notin Elements(outFree')
    BY <1>3, <1>5, <1>6, <1>7 DEF OutputsApart
<1>10. \A s, t \in Holders' : output'[s] = output'[t] => s = t
    BY <1>3, <1>5, <1>6, <1>7 DEF OutputsApart
<1> QED BY <1>4, <1>9, <1>10 DEF OutputsApart, Distinct

\* No step makes two requests share an output buffer, or offers one in use,
\* unless postprocess makes a copy of the output tensor.
LEMMA NextApart ==
    ASSUME ~PostCopies, Inv, OutputsApart, [Next]_vars
    PROVE  OutputsApart'
<1>1. Holders \subseteq Requests
    BY DEF Holders, Inv, Types, Known, Active, InferBusy
<1>2. CASE UNCHANGED vars
    BY <1>2, BuffersUntouched DEF vars, infer, post, Holders, PostQueued, Elements
<1>3. CASE PreTake \/ Destroy \/ PostPoolStops \/ InferPoolJoined \/ PrePoolJoined
    BY <1>3, BuffersUntouched
       DEF PreTake, Destroy, PostPoolStops, InferPoolJoined, PrePoolJoined, infer, post, Holders, PostQueued, Elements
<1>4. CASE InferTake
    BY <1>4, BuffersUntouched DEF InferTake, post, Holders, PostQueued, Elements
<1>5. CASE PostTake
  <2>1. PICK dying \in Idle(posting, postKept) : postKept' = postKept \ dying /\ ReleaseOutputs(dying)
    BY <1>5 DEF PostTake
  <2>2. Head(postQ) \notin posting /\ Head(postQ) \notin postKept /\ PostQueued' \subseteq PostQueued
        /\ Head(postQ) \in PostQueued
    <3>1. postQ \in Seq(Requests) /\ postQ # <<>> /\ postQ' = Dequeued(postQ)
          /\ \A i, k \in DOMAIN postQ : postQ[i] = postQ[k] => i = k
      BY <1>5 DEF PostTake, Dequeued, Inv, Types, Apart, Distinct
    <3>2. Head(postQ) \in Items(postQ) /\ Items(postQ') = Items(postQ) \ {Head(postQ)}
      BY <3>1, PopDistinct
    <3> QED BY <3>2 DEF Items, PostQueued, Elements, Inv, Apart
  <2>3. dying \subseteq postKept
    BY <2>1, <2>2, WorkerTakes DEF Inv, Staff
  <2>4. /\ postKept' = postKept \ dying /\ posting' = posting \union {Head(postQ)}
        /\ running' = running /\ inferred' = inferred
    BY <1>5, <2>1 DEF PostTake, infer
  <2>5. postKept \intersect (running \union inferred \union PostQueued \union posting) = {}
    BY DEF Inv, Apart, InferBusy, AfterInfer
  <2>6. dying \subseteq Holders /\ Holders' \subseteq Holders \ dying
    BY <2>2, <2>3, <2>4, <2>5 DEF Holders
  <2> QED BY <1>1, <2>1, <2>6, BuffersReturned DEF Inv
<1>6. CASE PostPoolJoined
  <2>1. ReleaseOutputs(postKept) /\ postKept' = {} /\ UNCHANGED <<running, inferred, postQ, posting>>
    BY <1>6 DEF PostPoolJoined, infer
  <2>2. postKept \intersect (running \union inferred \union PostQueued \union posting) = {}
    BY DEF Inv, Apart, InferBusy, AfterInfer
  <2>3. postKept \subseteq Holders /\ Holders' \subseteq Holders \ postKept
    BY <2>1, <2>2 DEF Holders, PostQueued, Elements
  <2> QED BY <1>1, <2>1, <2>3, BuffersReturned DEF Inv
<1>7. ASSUME NEW r \in Requests,
             Submit(r) \/ PreStage(r) \/ InferStage(r) \/ PostExecute(r) \/ Throws(r)
      PROVE  OutputsApart'
  <2>1. CASE Submit(r) \/ PreThrow(r) \/ PreExecute(r)
    BY <2>1, BuffersUntouched
       DEF Submit, PreThrow, PreExecute, infer, post, Holders, PostQueued, Elements
  <2>2. CASE PreHandOver(r)
    BY <2>2, BuffersUntouched DEF PreHandOver, post, Holders, PostQueued, Elements
  <2>3. CASE InferRun(r)
    BY <2>3, BuffersUntouched DEF InferRun, post, Holders, PostQueued, Elements
  <2>4. CASE InferHandOver(r)
    <3>1. postQ \in Seq(Requests) /\ r \in inferred /\ inferred' = inferred \ {r}
          /\ UNCHANGED <<running, posting, postKept>>
      BY <2>4 DEF InferHandOver, Inv, Types
    <3>2. CASE life \in {"alive", "stages"}
      <4>1. postQ' = Append(postQ, r) /\ UNCHANGED <<outFree, output>>
        BY <2>4, <3>2 DEF InferHandOver
      <4>2. PostQueued' = PostQueued \union {r}
        BY <3>1, <4>1, AppendElements DEF PostQueued, Elements
      <4>3. Holders' \subseteq Holders
        BY <3>1, <4>2 DEF Holders
      <4> QED BY <4>1, <4>3, BuffersUntouched
    <3>3. CASE life \notin {"alive", "stages"}
      <4>1. ReleaseOutputs({r}) /\ PostQueued' = PostQueued
        BY <2>4, <3>3 DEF InferHandOver, PostQueued
      <4>2. r \notin running \union PostQueued \union posting \union postKept
        BY <3>1 DEF Inv, Apart, InferBusy, AfterInfer
      <4>3. {r} \subseteq Holders /\ Holders' \subseteq Holders \ {r}
        BY <3>1, <4>1, <4>2 DEF Holders
      <4> QED BY <1>1, <4>1, <4>3, BuffersReturned DEF Inv
    <3> QED BY <3>2, <3>3
  <2>5. CASE PostExecute(r) \/ PostThrow(r)
    BY <2>5, BuffersUntouched
       DEF PostExecute, PostThrow, PostReturns, infer, Holders, PostQueued, Elements
  <2>6. CASE InferThrow(r)
    <3>1. /\ Holders' \subseteq Holders \ {r} /\ outFree' = outFree
          /\ \A s \in Requests \ {r} : output'[s] = output[s]
      BY <2>6 DEF InferThrow, post, Holders, PostQueued, Elements, Inv, Apart, Types, InferBusy, AfterInfer
    <3> QED BY <1>1, <3>1 DEF OutputsApart, Distinct, Elements
  <2> QED BY <1>7, <2>1, <2>2, <2>3, <2>4, <2>5, <2>6, BufferTaken DEF PreStage, InferStage, Throws
<1> QED BY <1>2, <1>3, <1>4, <1>5, <1>6, <1>7 DEF Next, Joins

\* With a runner whose postprocess only refers to the output tensor, as ResNet's
\* does, no two requests share an output buffer and none in use is on offer.
THEOREM BuffersExclusive ==
    ASSUME ~PostCopies
    PROVE  Spec => []OutputBufferExclusive
<1>1. Init => Inv /\ OutputsApart
    BY InitInv
<1>2. Inv /\ OutputsApart /\ [Next]_vars => Inv' /\ OutputsApart'
    BY NextInv, NextApart
<1>3. OutputsApart => OutputBufferExclusive
    BY DEF OutputsApart, OutputBufferExclusive, OutputInUse, Holders, PostQueued
<1> QED BY <1>1, <1>2, <1>3, PTL DEF Spec

\* Nor does the free list ever outgrow the buffers there are.
THEOREM OutputsWithinCapacity ==
    ASSUME ~PostCopies
    PROVE  Spec => []FreeOutputsWithinCapacity
<1>1. Init => Inv /\ OutputsApart
    BY InitInv
<1>2. Inv /\ OutputsApart /\ [Next]_vars => Inv' /\ OutputsApart'
    BY NextInv, NextApart
<1>3. Inv /\ OutputsApart => FreeOutputsWithinCapacity
  <2> SUFFICES ASSUME Inv, OutputsApart PROVE Len(outFree) <= Cardinality(OutputBuffers)
    BY DEF FreeOutputsWithinCapacity
  <2>1. outFree \in Seq(OutputBuffers) /\ DOMAIN outFree = 1 .. Len(outFree) /\ Len(outFree) \in Nat
    BY DEF Inv, Types
  <2>2. outFree \in Injection(1 .. Len(outFree), OutputBuffers)
    BY <2>1 DEF OutputsApart, Distinct, Injection, IsInjective
  <2>3. IsFiniteSet(OutputBuffers)
    BY SizeAssumption, FS_Interval DEF OutputBuffers
  <2>4. Cardinality(1 .. Len(outFree)) = Len(outFree)
    BY <2>1, FS_Interval
  <2>5. Cardinality(1 .. Len(outFree)) <= Cardinality(OutputBuffers)
    BY <2>2, <2>3, FS_Injection
  <2> QED BY <2>4, <2>5
<1> QED BY <1>1, <1>2, <1>3, PTL DEF Spec
==============================================================================
