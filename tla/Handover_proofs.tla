----------------------------- MODULE Handover_proofs -----------------------------
(***************************************************************************)
(* Theorems about the three other ways in which the library hands          *)
(* something from thread to thread, as MCInferTensorBufferPool puts them   *)
(* beside InferTensorBufferPool: for any capacities, frames, threads and   *)
(* objects.                                                                *)
(*                                                                         *)
(* SPSCQueue (Video): VideoIndices says that the producer's view of head_, *)
(* however old, is less than one round behind tail_: then the slot at      *)
(* tail_ is none of those the consumer may be copying.  VideoContents says *)
(* that these slots hold the frames accepted and not yet shown.            *)
(*                                                                         *)
(* ThreadSafeQueue (Channel) and the two pools of smart pointers (Lending) *)
(* are proved by counting: what lies in the queue is matched by threads    *)
(* that are awake in the call and by notifications that are owed, and each *)
(* step that breaks one such pair makes another.                           *)
(***************************************************************************)
EXTENDS MCInferTensorBufferPool, QueueLemmas

------------------------------------------------------------------------------
(* SPSCQueue, the frames of video_infer.cpp. *)

VideoSpec == Video!Init /\ [][Video!Next]_(Video!vars)

VideoIndices ==
    /\ ringCapacity \in Nat \ {0}
    /\ head \in Nat /\ tail \in Nat /\ headSeen \in Nat /\ tailSeen \in Nat
    /\ headSeen <= head /\ head <= tailSeen /\ tailSeen <= tail
    /\ tail - headSeen < ringCapacity
    /\ producer = "push" => tail + 1 - headSeen < ringCapacity
    /\ consumer = "copy" => head < tailSeen

VideoContents ==
    /\ ring \in [0 .. ringCapacity - 1 -> Nat]
    /\ accepted \in Seq(Nat) /\ Len(accepted) = tail
    /\ shown \in Seq(Nat) /\ Len(shown) = head
    /\ \A i \in 1 .. head : shown[i] = accepted[i]
    /\ \A i \in head .. tail - 1 : ring[Video!Index(i)] = accepted[i + 1]
    /\ consumer = "copy" => item = accepted[head + 1]

VideoFrame ==
    /\ ringCapacity \in {Video!RoundUp(n) : n \in Requested}
    /\ ring \in [0 .. ringCapacity - 1 -> 0 .. Frames]
    /\ grabbed \in 0 .. Frames
    /\ tail <= grabbed /\ (producer = "push" => tail < grabbed)
    /\ producer \in {"grab", "push", "join"}
    /\ consumer \in {"pop", "copy", "failed", "left"}
    /\ isRunning = (producer # "join")
    /\ item \in 0 .. Frames

VideoInv == VideoIndices /\ VideoContents /\ VideoFrame

------------------------------------------------------------------------------
(* Indices in the ring. *)

\* Totals less than one round apart have indices of their own.
LEMMA IndicesApart ==
    ASSUME NEW c \in Nat \ {0}, NEW a \in Nat, NEW b \in Nat, a < b, b - a < c
    PROVE  a % c # b % c
<1>1. /\ a % c \in 0 .. c - 1 /\ a \div c \in Nat /\ a = (a \div c) * c + (a % c)
      /\ b % c \in 0 .. c - 1 /\ b \div c \in Nat /\ b = (b \div c) * c + (b % c)
  <2>1. a % c \in 0 .. c - 1
    OBVIOUS
  <2>2. a \div c \in Nat
    OBVIOUS
  <2>3. a = (a \div c) * c + (a % c)
    BY SMTT(60)
  <2>4. b % c \in 0 .. c - 1
    OBVIOUS
  <2>5. b \div c \in Nat
    OBVIOUS
  <2>6. b = (b \div c) * c + (b % c)
    BY SMTT(60)
  <2> QED BY <2>1, <2>2, <2>3, <2>4, <2>5, <2>6
<1> DEFINE p == a \div c
           q == b \div c
<1>2. SUFFICES ASSUME a % c = b % c PROVE FALSE
    OBVIOUS
<1> HIDE DEF p, q
<1>3. q * c - p * c = b - a
    BY <1>1, <1>2 DEF p, q
<1>4. p \in Nat /\ q \in Nat
    BY <1>1 DEF p, q
<1>5. CASE q <= p
  <2>1. q * c <= p * c
    BY <1>4, <1>5
  <2>2. q * c \in Nat /\ p * c \in Nat
    BY <1>4
  <2> QED BY <1>3, <2>1, <2>2
<1>6. CASE p < q
  <2>1. PICK d \in Nat : q = p + 1 + d
    <3>1. q - p - 1 \in Nat /\ q = p + 1 + (q - p - 1)
      BY <1>4, <1>6
    <3> QED BY <3>1
  <2>2. q * c = p * c + c + d * c
    BY <1>4, <2>1
  <2>3. d * c \in Nat /\ q * c \in Nat /\ p * c \in Nat
    BY <1>4
  <2> QED BY <1>3, <2>2, <2>3
<1> QED BY <1>4, <1>5, <1>6

\* One round further is the same index.
LEMMA OneRound ==
    ASSUME NEW c \in Nat \ {0}, NEW a \in Nat
    PROVE  (a + c) % c = a % c
<1>1. a % c \in 0 .. c - 1
    OBVIOUS
<1>2. a \div c \in Nat
    OBVIOUS
<1>3. a = (a \div c) * c + (a % c)
    BY SMTT(60)
<1> DEFINE p == a \div c
           r == a % c
<1> HIDE DEF p, r
<1>4. a + c = (p + 1) * c + r
    BY <1>2, <1>3 DEF p, r
<1>5. (p + 1) * c + r \in Nat /\ p + 1 \in Nat /\ r \in 0 .. c - 1
    BY <1>1, <1>2, <1>4 DEF p, r
<1>6. ((p + 1) * c + r) % c = r
  <2>1. \A q \in Nat, t \in 0 .. c - 1 : (q * c + t) % c = t
    BY SMTT(60)
  <2> QED BY <1>5, <2>1
<1> QED BY <1>4, <1>6 DEF r

\* What is on offer: the frames from head on, at indices of their own.
LEMMA SlotsApart ==
    ASSUME VideoInv
    PROVE  /\ Video!Index(tail) \in 0 .. ringCapacity - 1
           /\ \A i \in head .. tail - 1 :
                i \in Nat /\ i + 1 \in 1 .. tail /\ Video!Index(i) \in 0 .. ringCapacity - 1 /\ Video!Index(i) # Video!Index(tail)
<1>1. /\ ringCapacity \in Nat \ {0} /\ head \in Nat /\ tail \in Nat /\ headSeen \in Nat
      /\ headSeen <= head /\ tail - headSeen < ringCapacity
    BY DEF VideoInv, VideoIndices
<1>2. \A a \in Nat : Video!Index(a) \in 0 .. ringCapacity - 1
    BY <1>1 DEF Video!Index
<1>3. ASSUME NEW i \in head .. tail - 1
      PROVE  i \in Nat /\ i + 1 \in 1 .. tail /\ Video!Index(i) # Video!Index(tail)
  <2>1. i \in Nat /\ i < tail /\ tail - i < ringCapacity /\ i + 1 \in 1 .. tail
    BY <1>1
  <2> QED BY <1>1, <2>1, IndicesApart DEF Video!Index
<1> QED BY <1>1, <1>2, <1>3

------------------------------------------------------------------------------
(* The invariant. *)

\* The ring is empty.
LEMMA VideoInitInv ==
    ASSUME Video!Init
    PROVE  VideoInv
<1>1. ringCapacity \in Nat \ {0} /\ ringCapacity \in {Video!RoundUp(n) : n \in Requested} /\ Frames \in Nat
    BY VideoAssumption DEF Video!Init
<1>2. VideoIndices
    BY <1>1 DEF Video!Init, VideoIndices
<1>3. VideoContents
    BY <1>1 DEF Video!Init, VideoContents, Video!Blank
<1>4. VideoFrame
    BY <1>1 DEF Video!Init, VideoFrame, Video!Blank
<1> QED BY <1>2, <1>3, <1>4 DEF VideoInv

\* push refuses the frame, or blanks a slot the consumer cannot be copying.
LEMMA VideoPushInv ==
    ASSUME VideoInv, Video!Push
    PROVE  VideoInv'
<1> USE DEF VideoInv
<1>1. PICK view \in headSeen .. head :
        /\ headSeen' = view
        /\ IF Video!Index(tail + 1) = Video!Index(view)
           THEN UNCHANGED <<producer, ring>>
           ELSE producer' = "push" /\ ring' = [ring EXCEPT ![Video!Index(tail)] = Video!Blank]
    BY DEF Video!Push
<1>2. /\ UNCHANGED <<head, tailSeen, consumer, item, shown, ringCapacity, tail, isRunning, accepted>>
      /\ producer = "grab" /\ grabbed < Frames /\ grabbed' = grabbed + 1
    BY DEF Video!Push, Video!consumerVars
<1>3. /\ ringCapacity \in Nat \ {0} /\ head \in Nat /\ tail \in Nat /\ headSeen \in Nat
      /\ tail - headSeen < ringCapacity
    BY DEF VideoIndices
<1>4. view \in Nat /\ view <= head /\ tail - view < ringCapacity /\ headSeen <= view
    BY <1>1, <1>3
<1>5. CASE Video!Index(tail + 1) = Video!Index(view)
  <2>1. VideoIndices'
    BY <1>1, <1>2, <1>3, <1>4, <1>5 DEF VideoIndices
  <2>2. VideoContents'
    BY <1>1, <1>2, <1>5 DEF VideoContents, Video!Index
  <2>3. VideoFrame'
    <3>1. grabbed' \in 0 .. Frames /\ tail' <= grabbed'
      BY <1>2, <1>3, VideoAssumption DEF VideoFrame
    <3> QED BY <1>1, <1>2, <1>5, <3>1 DEF VideoFrame
  <2> QED BY <2>1, <2>2, <2>3
<1>6. CASE Video!Index(tail + 1) # Video!Index(view)
  <2>1. tail + 1 - view # ringCapacity
    <3> SUFFICES ASSUME tail + 1 - view = ringCapacity PROVE FALSE
      OBVIOUS
    <3>1. tail + 1 = view + ringCapacity
      BY <1>3, <1>4
    <3>2. Video!Index(tail + 1) = Video!Index(view)
      BY <1>3, <1>4, <3>1, OneRound DEF Video!Index
    <3> QED BY <1>6, <3>2
  <2>2. VideoIndices'
    BY <1>1, <1>2, <1>3, <1>4, <1>6, <2>1 DEF VideoIndices
  <2>3. VideoContents'
    <3>1. ring' \in [0 .. ringCapacity' - 1 -> Nat]
      BY <1>1, <1>2, <1>6, SlotsApart DEF VideoContents, Video!Blank
    <3>2. \A i \in head' .. tail' - 1 : ring'[Video!Index(i)'] = accepted'[i + 1]
      BY <1>1, <1>2, <1>6, SlotsApart DEF VideoContents, Video!Index
    <3> QED BY <1>2, <3>1, <3>2 DEF VideoContents
  <2>4. VideoFrame'
    <3>1. grabbed' \in 0 .. Frames /\ tail' < grabbed' /\ tail' <= grabbed'
      BY <1>2, <1>3, VideoAssumption DEF VideoFrame
    <3>2. ring' \in [0 .. ringCapacity' - 1 -> 0 .. Frames]
      BY <1>1, <1>2, <1>6, SlotsApart, VideoAssumption DEF VideoFrame, Video!Blank
    <3> QED BY <1>1, <1>2, <1>6, <3>1, <3>2 DEF VideoFrame
  <2> QED BY <2>2, <2>3, <2>4
<1> QED BY <1>5, <1>6

\* The slot at tail has its frame, and is offered.
LEMMA VideoPushStoreInv ==
    ASSUME VideoInv, Video!PushStore
    PROVE  VideoInv'
<1> USE DEF VideoInv
<1>1. /\ producer = "push" /\ producer' = "grab" /\ tail' = tail + 1
      /\ ring' = [ring EXCEPT ![Video!Index(tail)] = grabbed] /\ accepted' = Append(accepted, grabbed)
      /\ UNCHANGED <<head, tailSeen, consumer, item, shown, ringCapacity, headSeen, grabbed, isRunning>>
    BY DEF Video!PushStore, Video!consumerVars
<1>2. /\ head \in Nat /\ tail \in Nat /\ head <= tail /\ grabbed \in Nat /\ Frames \in Nat
      /\ accepted \in Seq(Nat) /\ Len(accepted) = tail
    BY VideoAssumption DEF VideoIndices, VideoContents, VideoFrame
<1>3. /\ accepted' \in Seq(Nat) /\ Len(accepted') = tail + 1 /\ accepted'[tail + 1] = grabbed
      /\ \A i \in 1 .. tail : accepted'[i] = accepted[i]
    BY <1>1, <1>2, AppendElements
<1>4. VideoIndices'
    BY <1>1 DEF VideoIndices
<1>5. VideoContents'
  <2>1. ring' \in [0 .. ringCapacity' - 1 -> Nat]
    BY <1>1, <1>2, SlotsApart DEF VideoContents
  <2>2. \A i \in head .. tail - 1 : ring'[Video!Index(i)] = accepted'[i + 1]
    BY <1>1, <1>3, SlotsApart DEF VideoContents
  <2>3. ring'[Video!Index(tail)] = accepted'[tail + 1]
    BY <1>1, <1>3, SlotsApart DEF VideoContents
  <2>4. \A i \in head' .. tail' - 1 : ring'[Video!Index(i)'] = accepted'[i + 1]
    <3>1. \A i \in head .. tail : i \in head .. tail - 1 \/ i = tail
      BY <1>2
    <3>2. tail' - 1 = tail /\ head' = head /\ \A i : Video!Index(i)' = Video!Index(i)
      BY <1>1, <1>2 DEF Video!Index
    <3> QED BY <2>2, <2>3, <3>1, <3>2
  <2>5. \A i \in 1 .. head' : shown'[i] = accepted'[i]
    BY <1>1, <1>2, <1>3 DEF VideoContents
  <2>6. consumer' = "copy" => item' = accepted'[head' + 1]
    BY <1>1, <1>2, <1>3 DEF VideoContents, VideoIndices
  <2> QED BY <1>1, <1>3, <2>1, <2>4, <2>5, <2>6 DEF VideoContents
<1>6. VideoFrame'
    BY <1>1, <1>2, SlotsApart DEF VideoFrame
<1> QED BY <1>4, <1>5, <1>6

\* pop finds the ring empty, or the frame at head.
LEMMA VideoPopInv ==
    ASSUME VideoInv, Video!Pop
    PROVE  VideoInv'
<1> USE DEF VideoInv
<1>1. PICK view \in tailSeen .. tail :
        /\ tailSeen' = view
        /\ IF Video!Index(head) = Video!Index(view)
           THEN consumer' = "failed" /\ UNCHANGED item
           ELSE consumer' = "copy" /\ item' = ring[Video!Index(head)]
    BY DEF Video!Pop
<1>2. UNCHANGED <<ringCapacity, ring, tail, headSeen, producer, grabbed, isRunning, accepted, head, shown>>
    BY DEF Video!Pop, Video!producerVars
<1>3. /\ head \in Nat /\ tail \in Nat /\ tailSeen \in Nat /\ view \in Nat /\ head <= view /\ view <= tail
    BY <1>1 DEF VideoIndices
<1>4. Video!Index(head) # Video!Index(view) => head \in head .. tail - 1 /\ head < view
    BY <1>3
<1>5. VideoIndices'
    BY <1>1, <1>2, <1>3, <1>4 DEF VideoIndices
<1>6. VideoContents'
    BY <1>1, <1>2, <1>4 DEF VideoContents, Video!Index
<1>7. VideoFrame'
    BY <1>1, <1>2, <1>4, SlotsApart DEF VideoFrame
<1> QED BY <1>5, <1>6, <1>7

\* The slot has not changed under the copy.
LEMMA VideoPopStoreInv ==
    ASSUME VideoInv, Video!PopStore
    PROVE  VideoInv'
<1> USE DEF VideoInv
<1>1. /\ consumer = "copy" /\ consumer' = "pop" /\ head' = head + 1
      /\ shown' = Append(shown, IF ring[Video!Index(head)] = item THEN item ELSE Video!Blank)
      /\ UNCHANGED <<ringCapacity, ring, tail, headSeen, producer, grabbed, isRunning, accepted, tailSeen, item>>
    BY DEF Video!PopStore, Video!producerVars
<1>2. /\ head \in Nat /\ tail \in Nat /\ head < tailSeen /\ tailSeen \in Nat /\ head < tail
      /\ shown \in Seq(Nat) /\ Len(shown) = head /\ item \in Nat
    BY <1>1, VideoAssumption DEF VideoIndices, VideoContents, VideoFrame
<1>3. ring[Video!Index(head)] = item /\ item = accepted[head + 1]
    BY <1>1, <1>2 DEF VideoContents
<1>4. /\ shown' \in Seq(Nat) /\ Len(shown') = head + 1 /\ shown'[head + 1] = item
      /\ \A i \in 1 .. head : shown'[i] = shown[i]
    BY <1>1, <1>2, <1>3, AppendElements
<1>5. VideoIndices'
    BY <1>1, <1>2 DEF VideoIndices
<1>6. VideoContents'
  <2>1. \A i \in 1 .. head' : shown'[i] = accepted'[i]
    <3>1. \A i \in 1 .. head + 1 : i \in 1 .. head \/ i = head + 1
      BY <1>2
    <3> QED BY <1>1, <1>3, <1>4, <3>1 DEF VideoContents
  <2>2. \A i \in head' .. tail' - 1 : ring'[Video!Index(i)'] = accepted'[i + 1]
    BY <1>1, <1>2 DEF VideoContents, Video!Index
  <2> QED BY <1>1, <1>4, <2>1, <2>2 DEF VideoContents
<1>7. VideoFrame'
    BY <1>1 DEF VideoFrame
<1> QED BY <1>5, <1>6, <1>7

\* Every step keeps the invariant.
LEMMA VideoNextInv == VideoInv /\ [Video!Next]_(Video!vars) => VideoInv'
<1> SUFFICES ASSUME VideoInv, [Video!Next]_(Video!vars) PROVE VideoInv'
    OBVIOUS
<1>1. CASE Video!Push \/ Video!PushStore \/ Video!Pop \/ Video!PopStore
    BY <1>1, VideoPushInv, VideoPushStoreInv, VideoPopInv, VideoPopStoreInv
<1>2. CASE Video!EndOfVideo \/ Video!LookAtRunning
  <2>1. UNCHANGED <<ringCapacity, ring, head, tail, headSeen, tailSeen, grabbed, accepted, item, shown>>
    BY <1>2 DEF Video!EndOfVideo, Video!LookAtRunning, Video!consumerVars, Video!producerVars
  <2>2. VideoIndices'
    BY <1>2, <2>1 DEF VideoInv, VideoIndices, Video!EndOfVideo, Video!LookAtRunning, Video!consumerVars, Video!producerVars
  <2>3. VideoContents'
    BY <1>2, <2>1 DEF VideoInv, VideoContents, Video!Index, Video!EndOfVideo, Video!LookAtRunning, Video!consumerVars, Video!producerVars
  <2>4. VideoFrame'
    BY <1>2, <2>1 DEF VideoInv, VideoFrame, Video!EndOfVideo, Video!LookAtRunning, Video!consumerVars, Video!producerVars
  <2> QED BY <2>2, <2>3, <2>4 DEF VideoInv
<1>3. CASE Video!Joined \/ UNCHANGED Video!vars
  <2>1. UNCHANGED Video!vars
    BY <1>3 DEF Video!Joined
  <2>2. VideoIndices' /\ VideoFrame'
    BY <2>1 DEF Video!vars, VideoInv, VideoIndices, VideoFrame
  <2>3. VideoContents'
    BY <2>1 DEF Video!vars, VideoInv, VideoContents, Video!Index
  <2> QED BY <2>2, <2>3 DEF VideoInv
<1> QED BY <1>1, <1>2, <1>3 DEF Video!Next

\* The inductive invariant holds of every behaviour, whatever the capacities asked
\* for and the length of the video.
THEOREM VideoInvariant == VideoSpec => []VideoInv
<1>1. Video!Init => VideoInv
    BY VideoInitInv
<1>2. VideoInv /\ [Video!Next]_(Video!vars) => VideoInv'
    BY VideoNextInv
<1> QED BY <1>1, <1>2, PTL DEF VideoSpec

\* The views never overtake what they are views of, and display shows the accepted
\* frames, whole and in order, however old the indices are that push and pop see
\* (SPSCQueue.h, video_infer.cpp).
THEOREM FramesInOrder == VideoSpec => []VideoInOrder
<1>1. ASSUME VideoInv PROVE Video!TypeOK
    BY <1>1, VideoAssumption DEF VideoInv, VideoIndices, VideoFrame, Video!TypeOK
<1>2. ASSUME VideoInv PROVE Video!Fifo
  <2>1. /\ head \in Nat /\ tail \in Nat /\ head <= tail /\ tail - head < ringCapacity
    BY <1>2 DEF VideoInv, VideoIndices
  <2>2. /\ shown \in Seq(Nat) /\ accepted \in Seq(Nat) /\ Len(shown) = head /\ Len(accepted) = tail
        /\ \A i \in 1 .. head : shown[i] = accepted[i]
    BY <1>2 DEF VideoInv, VideoContents
  <2>3. SubSeq(shown, 1, head) = SubSeq(accepted, 1, head)
    BY <2>1, <2>2
  <2> QED BY <2>1, <2>2, <2>3 DEF Video!Fifo, Video!IsPrefix
<1> QED BY <1>1, <1>2, VideoInvariant, PTL DEF VideoInOrder

------------------------------------------------------------------------------
(* ThreadSafeQueue. *)

ChannelSpec == Channel!Init /\ [][Channel!Next]_(Channel!vars)

ChannelInv == Channel!TypeOK /\ Channel!NobodyWaitsBesideWork

\* The consumers awake in Pop, and the notifications owed to consumers.
Poppers == Channel!At(Consumers, "pop") \ notEmpty
OwedToConsumers == Channel!At(Producers, "notify")

\* The producers awake in Push, and the notifications owed to producers.
Pushers == Channel!At(Producers, "push") \ notFull
OwedToProducers == Channel!At(Consumers, "notify")

Matched ==
    /\ notEmpty # {} /\ ~isClose =>
        size <= Cardinality(Poppers) + Cardinality(OwedToConsumers)
    /\ notFull # {} /\ ~isClose =>
        capacity - size <= Cardinality(Pushers) + Cardinality(OwedToProducers)

AwakeAtClose ==
    /\ channelCloser \in {"notFull", "done"} => notEmpty = {}
    /\ channelCloser = "done" => notFull = {}

------------------------------------------------------------------------------
\* ThreadSafeQueue counts with the Cardinality of this module.
LEMMA ChannelCount == \A S : Channel!Cardinality(S) = Cardinality(S)
BY DEF Channel!Cardinality, Cardinality

\* The two parts of the property.
LEMMA PartsOfInv == Channel!NobodyWaitsBesideWork <=> Matched /\ AwakeAtClose
BY ChannelCount DEF Channel!NobodyWaitsBesideWork, Matched, AwakeAtClose, Poppers, OwedToConsumers, Pushers, OwedToProducers, Channel!At

\* The four sets are finite, and can be counted.
LEMMA Countable ==
    /\ IsFiniteSet(Poppers) /\ IsFiniteSet(OwedToConsumers)
           /\ IsFiniteSet(Pushers) /\ IsFiniteSet(OwedToProducers)
           /\ Cardinality(Poppers) \in Nat /\ Cardinality(OwedToConsumers) \in Nat
           /\ Cardinality(Pushers) \in Nat /\ Cardinality(OwedToProducers) \in Nat
<1>1. /\ Poppers \subseteq Consumers /\ OwedToConsumers \subseteq Producers
      /\ Pushers \subseteq Producers /\ OwedToProducers \subseteq Consumers
    BY DEF Poppers, OwedToConsumers, Pushers, OwedToProducers, Channel!At
<1>2. /\ IsFiniteSet(Poppers) /\ IsFiniteSet(OwedToConsumers)
      /\ IsFiniteSet(Pushers) /\ IsFiniteSet(OwedToProducers)
    BY <1>1, FS_Subset, ChannelAssumption
<1> QED BY <1>2, FS_CardinalityType

\* One more, or one less.
LEMMA OneMore ==
    ASSUME NEW S, IsFiniteSet(S), NEW t, t \notin S
    PROVE  Cardinality(S \union {t}) = Cardinality(S) + 1
BY FS_AddElement

\* The same for a member that leaves.
LEMMA OneLess ==
    ASSUME NEW S, IsFiniteSet(S), NEW t \in S
    PROVE  Cardinality(S \ {t}) = Cardinality(S) - 1 /\ Cardinality(S) - 1 \in Nat
<1>1. IsFiniteSet(S \ {t}) /\ Cardinality(S \ {t}) = Cardinality(S) - 1
    BY FS_RemoveElement
<1> QED BY <1>1, FS_CardinalityType

\* What the types say of the queue.
LEMMA Numbers ==
    ASSUME Channel!TypeOK
    PROVE  capacity \in Nat /\ size \in Nat
BY ChannelAssumption DEF Channel!TypeOK, Channel!kUnbounded

------------------------------------------------------------------------------
(* Every step keeps the invariant. *)

\* A producer calls Push.
LEMMA ChannelCallPushInv ==
    ASSUME ChannelInv, NEW t \in Producers, Channel!Call(t, "push")
    PROVE  ChannelInv'
<1>1. Channel!TypeOK /\ Matched /\ AwakeAtClose
    BY PartsOfInv DEF ChannelInv
<1>2. /\ Poppers' = Poppers
      /\ OwedToConsumers' = OwedToConsumers
      /\ Pushers' = Pushers \union {t} /\ t \notin Pushers
      /\ OwedToProducers' = OwedToProducers
    BY <1>1, ChannelAssumption DEF Channel!Call, Channel!Goto, Channel!TypeOK, Poppers, OwedToConsumers, Pushers, OwedToProducers, Channel!At
<1>3. /\ Cardinality(Poppers') = Cardinality(Poppers)
      /\ Cardinality(OwedToConsumers') = Cardinality(OwedToConsumers)
      /\ Cardinality(Pushers') = Cardinality(Pushers) + 1
      /\ Cardinality(OwedToProducers') = Cardinality(OwedToProducers)
    BY <1>2, Countable, OneMore, OneLess
<1>4. Channel!TypeOK'
    BY <1>1, ChannelAssumption DEF Channel!Call, Channel!Goto, Channel!TypeOK, Channel!Full, Channel!kUnbounded
<1>5. Matched'
    BY <1>1, <1>3, Countable, Numbers DEF Channel!Call, Channel!Goto, Matched, Channel!Full, Channel!TypeOK
<1>6. AwakeAtClose'
    BY <1>1 DEF Channel!Call, Channel!Goto, AwakeAtClose, Channel!TypeOK
<1> QED BY <1>4, <1>5, <1>6, PartsOfInv, PTL DEF ChannelInv

\* A consumer calls Pop.
LEMMA ChannelCallPopInv ==
    ASSUME ChannelInv, NEW t \in Consumers, Channel!Call(t, "pop")
    PROVE  ChannelInv'
<1>1. Channel!TypeOK /\ Matched /\ AwakeAtClose
    BY PartsOfInv DEF ChannelInv
<1>2. /\ Poppers' = Poppers \union {t} /\ t \notin Poppers
      /\ OwedToConsumers' = OwedToConsumers
      /\ Pushers' = Pushers
      /\ OwedToProducers' = OwedToProducers
    BY <1>1, ChannelAssumption DEF Channel!Call, Channel!Goto, Channel!TypeOK, Poppers, OwedToConsumers, Pushers, OwedToProducers, Channel!At
<1>3. /\ Cardinality(Poppers') = Cardinality(Poppers) + 1
      /\ Cardinality(OwedToConsumers') = Cardinality(OwedToConsumers)
      /\ Cardinality(Pushers') = Cardinality(Pushers)
      /\ Cardinality(OwedToProducers') = Cardinality(OwedToProducers)
    BY <1>2, Countable, OneMore, OneLess
<1>4. Channel!TypeOK'
    BY <1>1, ChannelAssumption DEF Channel!Call, Channel!Goto, Channel!TypeOK, Channel!Full, Channel!kUnbounded
<1>5. Matched'
    BY <1>1, <1>3, Countable, Numbers DEF Channel!Call, Channel!Goto, Matched, Channel!Full, Channel!TypeOK
<1>6. AwakeAtClose'
    BY <1>1 DEF Channel!Call, Channel!Goto, AwakeAtClose, Channel!TypeOK
<1> QED BY <1>4, <1>5, <1>6, PartsOfInv, PTL DEF ChannelInv

\* The queue is full, and a producer goes to sleep.
LEMMA ChannelPushSleepInv ==
    ASSUME ChannelInv, NEW t \in Producers, Channel!PushSleep(t)
    PROVE  ChannelInv'
<1>1. Channel!TypeOK /\ Matched /\ AwakeAtClose
    BY PartsOfInv DEF ChannelInv
<1>2. /\ Poppers' = Poppers
      /\ OwedToConsumers' = OwedToConsumers
      /\ Pushers' = Pushers \ {t} /\ t \in Pushers
      /\ OwedToProducers' = OwedToProducers
    BY <1>1, ChannelAssumption DEF Channel!PushSleep, Channel!Goto, Channel!TypeOK, Poppers, OwedToConsumers, Pushers, OwedToProducers, Channel!At
<1>3. /\ Cardinality(Poppers') = Cardinality(Poppers)
      /\ Cardinality(OwedToConsumers') = Cardinality(OwedToConsumers)
      /\ Cardinality(Pushers') = Cardinality(Pushers) - 1 /\ Cardinality(Pushers') \in Nat
      /\ Cardinality(OwedToProducers') = Cardinality(OwedToProducers)
    BY <1>2, Countable, OneMore, OneLess
<1>4. Channel!TypeOK'
    BY <1>1, ChannelAssumption DEF Channel!PushSleep, Channel!Goto, Channel!TypeOK, Channel!Full, Channel!kUnbounded
<1>5. Matched'
    BY <1>1, <1>3, Countable, Numbers DEF Channel!PushSleep, Channel!Goto, Matched, Channel!Full, Channel!TypeOK
<1>6. AwakeAtClose'
    BY <1>1 DEF Channel!PushSleep, Channel!Goto, AwakeAtClose, Channel!TypeOK
<1> QED BY <1>4, <1>5, <1>6, PartsOfInv, PTL DEF ChannelInv

\* The queue is closed to a producer.
LEMMA ChannelPushRefusedInv ==
    ASSUME ChannelInv, NEW t \in Producers, Channel!PushRefused(t)
    PROVE  ChannelInv'
<1>1. Channel!TypeOK /\ Matched /\ AwakeAtClose
    BY PartsOfInv DEF ChannelInv
<1>2. /\ Poppers' = Poppers
      /\ OwedToConsumers' = OwedToConsumers
      /\ Pushers' = Pushers \ {t} /\ t \in Pushers
      /\ OwedToProducers' = OwedToProducers
    BY <1>1, ChannelAssumption DEF Channel!PushRefused, Channel!Goto, Channel!TypeOK, Poppers, OwedToConsumers, Pushers, OwedToProducers, Channel!At
<1>3. /\ Cardinality(Poppers') = Cardinality(Poppers)
      /\ Cardinality(OwedToConsumers') = Cardinality(OwedToConsumers)
      /\ Cardinality(Pushers') = Cardinality(Pushers) - 1 /\ Cardinality(Pushers') \in Nat
      /\ Cardinality(OwedToProducers') = Cardinality(OwedToProducers)
    BY <1>2, Countable, OneMore, OneLess
<1>4. Channel!TypeOK'
    BY <1>1, ChannelAssumption DEF Channel!PushRefused, Channel!Goto, Channel!TypeOK, Channel!Full, Channel!kUnbounded
<1>5. Matched'
    BY <1>1, <1>3, Countable, Numbers DEF Channel!PushRefused, Channel!Goto, Matched, Channel!Full, Channel!TypeOK
<1>6. AwakeAtClose'
    BY <1>1 DEF Channel!PushRefused, Channel!Goto, AwakeAtClose, Channel!TypeOK
<1> QED BY <1>4, <1>5, <1>6, PartsOfInv, PTL DEF ChannelInv

\* An element more, and a notification owed.
LEMMA ChannelPushInv ==
    ASSUME ChannelInv, NEW t \in Producers, Channel!Push(t)
    PROVE  ChannelInv'
<1>1. Channel!TypeOK /\ Matched /\ AwakeAtClose
    BY PartsOfInv DEF ChannelInv
<1>2. /\ Poppers' = Poppers
      /\ OwedToConsumers' = OwedToConsumers \union {t} /\ t \notin OwedToConsumers
      /\ Pushers' = Pushers \ {t} /\ t \in Pushers
      /\ OwedToProducers' = OwedToProducers
    BY <1>1, ChannelAssumption DEF Channel!Push, Channel!Goto, Channel!TypeOK, Poppers, OwedToConsumers, Pushers, OwedToProducers, Channel!At
<1>3. /\ Cardinality(Poppers') = Cardinality(Poppers)
      /\ Cardinality(OwedToConsumers') = Cardinality(OwedToConsumers) + 1
      /\ Cardinality(Pushers') = Cardinality(Pushers) - 1 /\ Cardinality(Pushers') \in Nat
      /\ Cardinality(OwedToProducers') = Cardinality(OwedToProducers)
    BY <1>2, Countable, OneMore, OneLess
<1>4. Channel!TypeOK'
    BY <1>1, ChannelAssumption DEF Channel!Push, Channel!Goto, Channel!TypeOK, Channel!Full, Channel!kUnbounded
<1>5. Matched'
    BY <1>1, <1>3, Countable, Numbers DEF Channel!Push, Channel!Goto, Matched, Channel!Full, Channel!TypeOK
<1>6. AwakeAtClose'
    BY <1>1 DEF Channel!Push, Channel!Goto, AwakeAtClose, Channel!TypeOK
<1> QED BY <1>4, <1>5, <1>6, PartsOfInv, PTL DEF ChannelInv

\* The queue is empty, and a consumer goes to sleep.
LEMMA ChannelPopSleepInv ==
    ASSUME ChannelInv, NEW t \in Consumers, Channel!PopSleep(t)
    PROVE  ChannelInv'
<1>1. Channel!TypeOK /\ Matched /\ AwakeAtClose
    BY PartsOfInv DEF ChannelInv
<1>2. /\ Poppers' = Poppers \ {t} /\ t \in Poppers
      /\ OwedToConsumers' = OwedToConsumers
      /\ Pushers' = Pushers
      /\ OwedToProducers' = OwedToProducers
    BY <1>1, ChannelAssumption DEF Channel!PopSleep, Channel!Goto, Channel!TypeOK, Poppers, OwedToConsumers, Pushers, OwedToProducers, Channel!At
<1>3. /\ Cardinality(Poppers') = Cardinality(Poppers) - 1 /\ Cardinality(Poppers') \in Nat
      /\ Cardinality(OwedToConsumers') = Cardinality(OwedToConsumers)
      /\ Cardinality(Pushers') = Cardinality(Pushers)
      /\ Cardinality(OwedToProducers') = Cardinality(OwedToProducers)
    BY <1>2, Countable, OneMore, OneLess
<1>4. Channel!TypeOK'
    BY <1>1, ChannelAssumption DEF Channel!PopSleep, Channel!Goto, Channel!TypeOK, Channel!Full, Channel!kUnbounded
<1>5. Matched'
    BY <1>1, <1>3, Countable, Numbers DEF Channel!PopSleep, Channel!Goto, Matched, Channel!Full, Channel!TypeOK
<1>6. AwakeAtClose'
    BY <1>1 DEF Channel!PopSleep, Channel!Goto, AwakeAtClose, Channel!TypeOK
<1> QED BY <1>4, <1>5, <1>6, PartsOfInv, PTL DEF ChannelInv

\* The queue is closed and empty.
LEMMA ChannelPopRefusedInv ==
    ASSUME ChannelInv, NEW t \in Consumers, Channel!PopRefused(t)
    PROVE  ChannelInv'
<1>1. Channel!TypeOK /\ Matched /\ AwakeAtClose
    BY PartsOfInv DEF ChannelInv
<1>2. /\ Poppers' = Poppers \ {t} /\ t \in Poppers
      /\ OwedToConsumers' = OwedToConsumers
      /\ Pushers' = Pushers
      /\ OwedToProducers' = OwedToProducers
    BY <1>1, ChannelAssumption DEF Channel!PopRefused, Channel!Goto, Channel!TypeOK, Poppers, OwedToConsumers, Pushers, OwedToProducers, Channel!At
<1>3. /\ Cardinality(Poppers') = Cardinality(Poppers) - 1 /\ Cardinality(Poppers') \in Nat
      /\ Cardinality(OwedToConsumers') = Cardinality(OwedToConsumers)
      /\ Cardinality(Pushers') = Cardinality(Pushers)
      /\ Cardinality(OwedToProducers') = Cardinality(OwedToProducers)
    BY <1>2, Countable, OneMore, OneLess
<1>4. Channel!TypeOK'
    BY <1>1, ChannelAssumption DEF Channel!PopRefused, Channel!Goto, Channel!TypeOK, Channel!Full, Channel!kUnbounded
<1>5. Matched'
    BY <1>1, <1>3, Countable, Numbers DEF Channel!PopRefused, Channel!Goto, Matched, Channel!Full, Channel!TypeOK
<1>6. AwakeAtClose'
    BY <1>1 DEF Channel!PopRefused, Channel!Goto, AwakeAtClose, Channel!TypeOK
<1> QED BY <1>4, <1>5, <1>6, PartsOfInv, PTL DEF ChannelInv

\* A place more, and a notification owed.
LEMMA ChannelPopInv ==
    ASSUME ChannelInv, NEW t \in Consumers, Channel!Pop(t)
    PROVE  ChannelInv'
<1>1. Channel!TypeOK /\ Matched /\ AwakeAtClose
    BY PartsOfInv DEF ChannelInv
<1>2. /\ Poppers' = Poppers \ {t} /\ t \in Poppers
      /\ OwedToConsumers' = OwedToConsumers
      /\ Pushers' = Pushers
      /\ OwedToProducers' = OwedToProducers \union {t} /\ t \notin OwedToProducers
    BY <1>1, ChannelAssumption DEF Channel!Pop, Channel!Goto, Channel!TypeOK, Poppers, OwedToConsumers, Pushers, OwedToProducers, Channel!At
<1>3. /\ Cardinality(Poppers') = Cardinality(Poppers) - 1 /\ Cardinality(Poppers') \in Nat
      /\ Cardinality(OwedToConsumers') = Cardinality(OwedToConsumers)
      /\ Cardinality(Pushers') = Cardinality(Pushers)
      /\ Cardinality(OwedToProducers') = Cardinality(OwedToProducers) + 1
    BY <1>2, Countable, OneMore, OneLess
<1>4. Channel!TypeOK'
    BY <1>1, ChannelAssumption DEF Channel!Pop, Channel!Goto, Channel!TypeOK, Channel!Full, Channel!kUnbounded
<1>5. Matched'
    BY <1>1, <1>3, Countable, Numbers DEF Channel!Pop, Channel!Goto, Matched, Channel!Full, Channel!TypeOK
<1>6. AwakeAtClose'
    BY <1>1 DEF Channel!Pop, Channel!Goto, AwakeAtClose, Channel!TypeOK
<1> QED BY <1>4, <1>5, <1>6, PartsOfInv, PTL DEF ChannelInv

\* The same without waiting.
LEMMA ChannelTryPopInv ==
    ASSUME ChannelInv, NEW t \in Consumers, Channel!TryPop(t)
    PROVE  ChannelInv'
<1>1. Channel!TypeOK /\ Matched /\ AwakeAtClose
    BY PartsOfInv DEF ChannelInv
<1>2. /\ Poppers' = Poppers
      /\ OwedToConsumers' = OwedToConsumers
      /\ Pushers' = Pushers
      /\ OwedToProducers' = OwedToProducers \union {t} /\ t \notin OwedToProducers
    BY <1>1, ChannelAssumption DEF Channel!TryPop, Channel!Goto, Channel!TypeOK, Poppers, OwedToConsumers, Pushers, OwedToProducers, Channel!At
<1>3. /\ Cardinality(Poppers') = Cardinality(Poppers)
      /\ Cardinality(OwedToConsumers') = Cardinality(OwedToConsumers)
      /\ Cardinality(Pushers') = Cardinality(Pushers)
      /\ Cardinality(OwedToProducers') = Cardinality(OwedToProducers) + 1
    BY <1>2, Countable, OneMore, OneLess
<1>4. Channel!TypeOK'
    BY <1>1, ChannelAssumption DEF Channel!TryPop, Channel!Goto, Channel!TypeOK, Channel!Full, Channel!kUnbounded
<1>5. Matched'
    BY <1>1, <1>3, Countable, Numbers DEF Channel!TryPop, Channel!Goto, Matched, Channel!Full, Channel!TypeOK
<1>6. AwakeAtClose'
    BY <1>1 DEF Channel!TryPop, Channel!Goto, AwakeAtClose, Channel!TypeOK
<1> QED BY <1>4, <1>5, <1>6, PartsOfInv, PTL DEF ChannelInv

\* Nobody goes to sleep any more.
LEMMA ChannelCloseFlagInv ==
    ASSUME ChannelInv, Channel!CloseFlag
    PROVE  ChannelInv'
<1>1. Channel!TypeOK /\ Matched /\ AwakeAtClose
    BY PartsOfInv DEF ChannelInv
<1>2. /\ Poppers' = Poppers
      /\ OwedToConsumers' = OwedToConsumers
      /\ Pushers' = Pushers
      /\ OwedToProducers' = OwedToProducers
    BY <1>1, ChannelAssumption DEF Channel!CloseFlag, Channel!Goto, Channel!TypeOK, Poppers, OwedToConsumers, Pushers, OwedToProducers, Channel!At
<1>3. /\ Cardinality(Poppers') = Cardinality(Poppers)
      /\ Cardinality(OwedToConsumers') = Cardinality(OwedToConsumers)
      /\ Cardinality(Pushers') = Cardinality(Pushers)
      /\ Cardinality(OwedToProducers') = Cardinality(OwedToProducers)
    BY <1>2, Countable, OneMore, OneLess
<1>4. Channel!TypeOK'
    BY <1>1, ChannelAssumption DEF Channel!CloseFlag, Channel!Goto, Channel!TypeOK, Channel!Full, Channel!kUnbounded
<1>5. Matched'
    BY <1>1, <1>3, Countable, Numbers DEF Channel!CloseFlag, Channel!Goto, Matched, Channel!Full, Channel!TypeOK
<1>6. AwakeAtClose'
    BY <1>1 DEF Channel!CloseFlag, Channel!Goto, AwakeAtClose, Channel!TypeOK
<1> QED BY <1>4, <1>5, <1>6, PartsOfInv, PTL DEF ChannelInv

\* A notification is paid: a consumer is awake again, or none was asleep.
LEMMA ChannelPushNotifyInv ==
    ASSUME ChannelInv, NEW t \in Producers, Channel!PushNotify(t)
    PROVE  ChannelInv'
<1>1. Channel!TypeOK /\ Matched /\ AwakeAtClose
    BY PartsOfInv DEF ChannelInv
<1>2. Channel!TypeOK'
    BY <1>1, ChannelAssumption DEF Channel!PushNotify, Channel!WakeOne, Channel!Goto, Channel!TypeOK, Channel!kUnbounded
<1>3. AwakeAtClose'
    BY <1>1 DEF Channel!PushNotify, Channel!WakeOne, AwakeAtClose
<1>4. /\ OwedToConsumers' = OwedToConsumers \ {t} /\ t \in OwedToConsumers
      /\ Pushers' = Pushers /\ OwedToProducers' = OwedToProducers
    BY <1>1, ChannelAssumption DEF Channel!PushNotify, Channel!Goto, Channel!TypeOK, OwedToConsumers, Pushers, OwedToProducers, Channel!At
<1>5. CASE notEmpty' = {}
  <2>1. Matched'
    BY <1>1, <1>4, <1>5 DEF Channel!PushNotify, Matched
  <2> QED BY <1>2, <1>3, <2>1, PartsOfInv, PTL DEF ChannelInv
<1>6. CASE notEmpty' # {}
  <2>1. PICK d \in notEmpty : notEmpty' = notEmpty \ {d}
    BY <1>6 DEF Channel!PushNotify, Channel!WakeOne
  <2>2. Poppers' = Poppers \union {d} /\ d \notin Poppers
    BY <1>1, <2>1, ChannelAssumption DEF Channel!PushNotify, Channel!Goto, Channel!TypeOK, Poppers, Channel!At
  <2>3. /\ Cardinality(Poppers') = Cardinality(Poppers) + 1
        /\ Cardinality(OwedToConsumers') = Cardinality(OwedToConsumers) - 1
        /\ Cardinality(Pushers') = Cardinality(Pushers)
        /\ Cardinality(OwedToProducers') = Cardinality(OwedToProducers)
    BY <1>4, <2>2, Countable, OneMore, OneLess
  <2>4. Matched'
    BY <1>1, <2>1, <2>3, Countable, Numbers DEF Channel!PushNotify, Matched
  <2> QED BY <1>2, <1>3, <2>4, PartsOfInv, PTL DEF ChannelInv
<1> QED BY <1>5, <1>6

\* The same the other way round.
LEMMA ChannelPopNotifyInv ==
    ASSUME ChannelInv, NEW t \in Consumers, Channel!PopNotify(t)
    PROVE  ChannelInv'
<1>1. Channel!TypeOK /\ Matched /\ AwakeAtClose
    BY PartsOfInv DEF ChannelInv
<1>2. Channel!TypeOK'
    BY <1>1, ChannelAssumption DEF Channel!PopNotify, Channel!WakeOne, Channel!Goto, Channel!TypeOK, Channel!kUnbounded
<1>3. AwakeAtClose'
    BY <1>1 DEF Channel!PopNotify, Channel!WakeOne, AwakeAtClose
<1>4. /\ OwedToProducers' = OwedToProducers \ {t} /\ t \in OwedToProducers
      /\ Poppers' = Poppers /\ OwedToConsumers' = OwedToConsumers
    BY <1>1, ChannelAssumption DEF Channel!PopNotify, Channel!Goto, Channel!TypeOK, OwedToProducers, Poppers, OwedToConsumers, Channel!At
<1>5. CASE notFull' = {}
  <2>1. Matched'
    BY <1>1, <1>4, <1>5 DEF Channel!PopNotify, Matched
  <2> QED BY <1>2, <1>3, <2>1, PartsOfInv, PTL DEF ChannelInv
<1>6. CASE notFull' # {}
  <2>1. PICK d \in notFull : notFull' = notFull \ {d}
    BY <1>6 DEF Channel!PopNotify, Channel!WakeOne
  <2>2. Pushers' = Pushers \union {d} /\ d \notin Pushers
    BY <1>1, <2>1, ChannelAssumption DEF Channel!PopNotify, Channel!Goto, Channel!TypeOK, Pushers, Channel!At
  <2>3. /\ Cardinality(Pushers') = Cardinality(Pushers) + 1
        /\ Cardinality(OwedToProducers') = Cardinality(OwedToProducers) - 1
        /\ Cardinality(Poppers') = Cardinality(Poppers)
        /\ Cardinality(OwedToConsumers') = Cardinality(OwedToConsumers)
    BY <1>4, <2>2, Countable, OneMore, OneLess
  <2>4. Matched'
    BY <1>1, <2>1, <2>3, Countable, Numbers DEF Channel!PopNotify, Matched
  <2> QED BY <1>2, <1>3, <2>4, PartsOfInv, PTL DEF ChannelInv
<1> QED BY <1>5, <1>6

\* A thread wakes up without having been notified.
LEMMA ChannelSpuriousWakeupInv ==
    ASSUME ChannelInv, NEW t \in Producers \union Consumers, Channel!SpuriousWakeup(t)
    PROVE  ChannelInv'
<1>1. Channel!TypeOK /\ Matched /\ AwakeAtClose
    BY PartsOfInv DEF ChannelInv
<1>2. Channel!TypeOK' /\ AwakeAtClose'
    BY <1>1 DEF Channel!SpuriousWakeup, Channel!TypeOK, AwakeAtClose, Channel!kUnbounded
<1>3. /\ Poppers \subseteq Poppers' /\ Pushers \subseteq Pushers'
      /\ OwedToConsumers' = OwedToConsumers /\ OwedToProducers' = OwedToProducers
    BY DEF Channel!SpuriousWakeup, Poppers, OwedToConsumers, Pushers, OwedToProducers, Channel!At
<1>4. /\ IsFiniteSet(Poppers') /\ IsFiniteSet(Pushers')
      /\ Cardinality(Poppers') \in Nat /\ Cardinality(Pushers') \in Nat
  <2>1. Poppers' \subseteq Consumers /\ Pushers' \subseteq Producers
    BY DEF Channel!SpuriousWakeup, Poppers, Pushers, Channel!At
  <2>2. IsFiniteSet(Poppers') /\ IsFiniteSet(Pushers')
    BY <2>1, FS_Subset, ChannelAssumption
  <2> QED BY <2>2, FS_CardinalityType
<1>5. Cardinality(Poppers) <= Cardinality(Poppers') /\ Cardinality(Pushers) <= Cardinality(Pushers')
    BY <1>3, <1>4, FS_Subset
<1>6. /\ UNCHANGED <<size, capacity, isClose>> /\ notEmpty' \subseteq notEmpty /\ notFull' \subseteq notFull
    BY DEF Channel!SpuriousWakeup
<1>7. Matched'
  <2>1. Cardinality(OwedToConsumers') = Cardinality(OwedToConsumers)
        /\ Cardinality(OwedToProducers') = Cardinality(OwedToProducers)
    BY <1>3
  <2> QED BY <1>1, <1>4, <1>5, <1>6, <2>1, Countable, Numbers DEF Matched
<1> QED BY <1>2, <1>7, PartsOfInv, PTL DEF ChannelInv

\* The two calls of notify_all.
LEMMA ChannelCloseNotifyInv ==
    ASSUME ChannelInv, Channel!CloseNotifyEmpty \/ Channel!CloseNotifyFull
    PROVE  ChannelInv'
<1>1. Channel!TypeOK /\ Matched /\ AwakeAtClose
    BY PartsOfInv DEF ChannelInv
<1>2. isClose' = TRUE
    BY <1>1 DEF Channel!CloseNotifyEmpty, Channel!CloseNotifyFull, Channel!TypeOK
<1>3. Channel!TypeOK'
    BY <1>1 DEF Channel!CloseNotifyEmpty, Channel!CloseNotifyFull, Channel!TypeOK, Channel!kUnbounded
<1>4. AwakeAtClose'
    BY <1>1 DEF Channel!CloseNotifyEmpty, Channel!CloseNotifyFull, AwakeAtClose
<1>5. Matched'
    BY <1>2 DEF Matched
<1> QED BY <1>3, <1>4, <1>5, PartsOfInv, PTL DEF ChannelInv

\* Every step keeps the invariant.
LEMMA ChannelNextInv == ChannelInv /\ [Channel!Next]_(Channel!vars) => ChannelInv'
<1> SUFFICES ASSUME ChannelInv, [Channel!Next]_(Channel!vars) PROVE ChannelInv'
    OBVIOUS
<1>1. ASSUME NEW t \in Producers,
             Channel!Call(t, "push") \/ Channel!PushSleep(t) \/ Channel!PushRefused(t) \/ Channel!Push(t) \/ Channel!PushNotify(t)
      PROVE  ChannelInv'
    BY <1>1, ChannelCallPushInv, ChannelPushSleepInv, ChannelPushRefusedInv, ChannelPushInv, ChannelPushNotifyInv
<1>2. ASSUME NEW t \in Consumers,
             \/ Channel!Call(t, "pop") \/ Channel!PopSleep(t) \/ Channel!PopRefused(t) \/ Channel!Pop(t)
             \/ Channel!TryPop(t) \/ Channel!PopNotify(t)
      PROVE  ChannelInv'
    BY <1>2, ChannelCallPopInv, ChannelPopSleepInv, ChannelPopRefusedInv, ChannelPopInv, ChannelTryPopInv, ChannelPopNotifyInv
<1>3. ASSUME NEW t \in Producers \union Consumers, Channel!SpuriousWakeup(t) PROVE ChannelInv'
    BY <1>3, ChannelSpuriousWakeupInv
<1>4. CASE Channel!CloseFlag \/ Channel!CloseNotifyEmpty \/ Channel!CloseNotifyFull
    BY <1>4, ChannelCloseFlagInv, ChannelCloseNotifyInv
<1>5. CASE UNCHANGED Channel!vars
    BY <1>5 DEF Channel!vars, ChannelInv, Channel!TypeOK, Channel!NobodyWaitsBesideWork, Channel!At, Channel!kUnbounded
<1> QED BY <1>1, <1>2, <1>3, <1>4, <1>5 DEF Channel!Next

\* An empty queue, and nobody in it.
LEMMA ChannelInitInv == Channel!Init => ChannelInv
<1> SUFFICES ASSUME Channel!Init PROVE ChannelInv
    OBVIOUS
<1>1. capacity \in Nat /\ MaxSize \in Nat
    BY ChannelAssumption DEF Channel!Init
<1>2. Channel!TypeOK
  <2>1. size \in 0 .. (IF capacity = Channel!kUnbounded THEN MaxSize ELSE capacity)
    <3>1. size = 0
      BY DEF Channel!Init
    <3>2. CASE capacity = Channel!kUnbounded
      BY <1>1, <3>1, <3>2
    <3>3. CASE capacity # Channel!kUnbounded
      BY <1>1, <3>1, <3>3
    <3> QED BY <3>2, <3>3
  <2>2. /\ capacity \in Capacities /\ isClose = (channelCloser # "none")
        /\ channelCloser \in {"none", "notEmpty", "notFull", "done"}
    BY DEF Channel!Init
  <2>3. pc \in [Producers \union Consumers -> {"idle", "push", "pop", "notify"}]
    BY DEF Channel!Init
  <2>4. /\ notFull \subseteq {t \in Producers : pc[t] = "push"}
        /\ notEmpty \subseteq {t \in Consumers : pc[t] = "pop"}
    BY DEF Channel!Init
  <2> QED BY <2>1, <2>2, <2>3, <2>4 DEF Channel!TypeOK
<1>3. Channel!NobodyWaitsBesideWork
    BY DEF Channel!Init, Channel!NobodyWaitsBesideWork
<1> QED BY <1>2, <1>3 DEF ChannelInv

\* The inductive invariant holds of every behaviour, for any producers, consumers
\* and capacity, bounded or not.
THEOREM ChannelInvariant == ChannelSpec => []ChannelInv
<1>1. Channel!Init => ChannelInv
    BY ChannelInitInv
<1>2. ChannelInv /\ [Channel!Next]_(Channel!vars) => ChannelInv'
    BY ChannelNextInv
<1> QED BY <1>1, <1>2, PTL DEF ChannelSpec

\* Nobody sleeps beside an element, beside a place, or through Close, although
\* every notification comes after the unlock and wakes one thread only; a bounded
\* queue never holds more than its capacity (ThreadSafeQueue.h).
THEOREM EverybodyIsWoken == ChannelSpec => []ChannelWakesEverybody
<1>1. ChannelInv => ChannelWakesEverybody
    BY DEF ChannelInv, ChannelWakesEverybody
<1> QED BY <1>1, ChannelInvariant, PTL

------------------------------------------------------------------------------
(* ObjectPool and BufferPool. *)

LendingSpec == Lending!Init /\ [][Lending!Next]_(Lending!vars)

\* TypeOK says nothing of a smart pointer that is not held.
Lends == borrowed \in [Callers -> Objects \union {Lending!Nothing}]

\* The callers awake in Acquire, and the notifications owed by deleters.
AwakeBorrowers == {c \in Callers : Lending!Awake(c)}
OwedByDeleters == {c \in Callers : borrower[c] = "notify"}

Provided ==
    sleepers # {} /\ life = "open" =>
        Len(que) <= Cardinality(AwakeBorrowers) + Cardinality(OwedByDeleters)

AwakeAtDestructor == life \in {"notified", "turn", "callback", "gone"} => sleepers = {}

\* Between a callback and its pop the object of the callback is still in front,
\* unless a caller has taken it; BufferPool and an open pool have no such turns.
InCallback ==
    /\ destroyed # {} \/ life \in {"turn", "callback"} => kind = "ObjectPool" /\ life # "open"
    /\ life = "callback" /\ clash = {} => que # <<>> /\ Head(que) \in destroyed

LendingInv ==
    /\ Lending!TypeOK /\ Lends /\ Lending!OneBorrowerPerObject
    /\ Provided /\ AwakeAtDestructor /\ InCallback

------------------------------------------------------------------------------
\* LendingPool counts with the Cardinality of this module.
LEMMA LendingCount == \A S : Lending!Cardinality(S) = Cardinality(S)
BY DEF Lending!Cardinality, Cardinality

\* The invariant says what the run checks.
LEMMA LendingInvServes == LendingInv => LendingServesEverybody
BY LendingCount DEF LendingInv, LendingServesEverybody, Lending!NobodySleepsBesideAnObject,
    Provided, AwakeAtDestructor, AwakeBorrowers, OwedByDeleters

\* The two sets are finite, before a step and after it.
LEMMA BorrowersCountable ==
    /\ IsFiniteSet(AwakeBorrowers) /\ Cardinality(AwakeBorrowers) \in Nat
    /\ IsFiniteSet(OwedByDeleters) /\ Cardinality(OwedByDeleters) \in Nat
    /\ IsFiniteSet(AwakeBorrowers') /\ Cardinality(AwakeBorrowers') \in Nat
<1>1. /\ AwakeBorrowers \subseteq Callers /\ OwedByDeleters \subseteq Callers
      /\ AwakeBorrowers' \subseteq Callers
    BY DEF AwakeBorrowers, OwedByDeleters
<1>2. /\ IsFiniteSet(AwakeBorrowers) /\ IsFiniteSet(OwedByDeleters)
      /\ IsFiniteSet(AwakeBorrowers')
    BY <1>1, FS_Subset, CallersAssumption
<1> QED BY <1>2, FS_CardinalityType

\* LendingPool's set of queued objects is QueueLemmas'.
LEMMA LendingItems == \A q : Lending!ToSet(q) = Items(q)
BY DEF Lending!ToSet, Items

\* A step that moves no object keeps them apart.
LEMMA NothingMoves ==
    ASSUME LendingInv, UNCHANGED <<kind, que, borrowed, life, destroyed, clash>>
    PROVE  Lending!OneBorrowerPerObject' /\ InCallback'
BY LendingItems DEF LendingInv, Lending!OneBorrowerPerObject, InCallback

------------------------------------------------------------------------------
(* Every step keeps the invariant. *)

\* A caller enters Acquire.
LEMMA LendingCallInv ==
    ASSUME LendingInv, NEW c \in Callers, Lending!CallAcquire(c)
    PROVE  LendingInv'
<1>1. Lending!TypeOK /\ Lends /\ Provided /\ AwakeAtDestructor
    BY DEF LendingInv
<1>2. AwakeBorrowers' = AwakeBorrowers \union {c} /\ c \notin AwakeBorrowers
    BY <1>1 DEF Lending!CallAcquire, Lending!Goto, Lending!TypeOK, Lending!Awake, AwakeBorrowers
<1>3. OwedByDeleters' = OwedByDeleters
    BY <1>1 DEF Lending!CallAcquire, Lending!Goto, Lending!TypeOK, OwedByDeleters
<1>4. Cardinality(AwakeBorrowers') = Cardinality(AwakeBorrowers) + 1
    BY <1>2, BorrowersCountable, OneMore
<1>5. Len(que) \in Nat /\ UNCHANGED <<que, sleepers, life, borrowed>>
    BY <1>1 DEF Lending!CallAcquire, Lending!TypeOK
<1>6. Lending!TypeOK' /\ Lends'
    BY <1>1 DEF Lending!CallAcquire, Lending!Goto, Lending!TypeOK, Lends
<1>7. Provided'
    BY <1>1, <1>3, <1>4, <1>5, BorrowersCountable DEF Provided
<1>8. AwakeAtDestructor'
    BY <1>1, <1>5 DEF AwakeAtDestructor
<1>9. Lending!OneBorrowerPerObject' /\ InCallback'
    BY NothingMoves DEF Lending!CallAcquire
<1> QED BY <1>6, <1>7, <1>8, <1>9 DEF LendingInv

\* Acquire takes the first of the queue: the caller that was awake for it is gone,
\* and so is the object.
LEMMA LendingAcquireInv ==
    ASSUME LendingInv, NEW c \in Callers, Lending!Acquire(c)
    PROVE  LendingInv'
<1>1. Lending!TypeOK /\ Lends /\ Provided /\ AwakeAtDestructor
    BY DEF LendingInv
<1>2. AwakeBorrowers' = AwakeBorrowers \ {c} /\ c \in AwakeBorrowers
    BY <1>1 DEF Lending!Acquire, Lending!Goto, Lending!TypeOK, Lending!Awake, AwakeBorrowers
<1>3. OwedByDeleters' = OwedByDeleters
    BY <1>1 DEF Lending!Acquire, Lending!Goto, Lending!TypeOK, Lending!Awake, OwedByDeleters
<1>4. Cardinality(AwakeBorrowers') = Cardinality(AwakeBorrowers) - 1
    BY <1>2, BorrowersCountable, OneLess
<1>5. /\ que \in Seq(Objects) /\ que # <<>>
      /\ Head(que) \in Objects /\ que' \in Seq(Objects)
      /\ Len(que) \in Nat /\ Len(que') = Len(que) - 1
  <2>1. que \in Seq(Objects) /\ que # <<>> /\ que' = Tail(que)
    BY <1>1 DEF Lending!Acquire, Lending!TypeOK
  <2> QED BY <2>1, TailElements
<1>6. /\ UNCHANGED <<kind, sleepers, life, destroyed, ended>>
      /\ clash' = IF life = "callback" THEN clash \union {Head(que)} ELSE clash
    BY DEF Lending!Acquire
<1>7. /\ borrower' = [borrower EXCEPT ![c] = "holding"]
      /\ borrowed' = [borrowed EXCEPT ![c] = Head(que)]
      /\ borrower[c] = "acquire" /\ c \notin sleepers
    BY DEF Lending!Acquire, Lending!Goto, Lending!Awake
<1>8. Lending!TypeOK' /\ Lends'
  <2>1. Lends'
    BY <1>1, <1>5, <1>7 DEF Lends
  <2>2. borrower' \in [Callers -> {"idle", "acquire", "holding", "notify"}]
    BY <1>1, <1>7 DEF Lending!TypeOK
  <2>3. \A d \in Callers : borrowed'[d] \in Objects <=> borrower'[d] = "holding"
    BY <1>1, <1>5, <1>7 DEF Lending!TypeOK, Lends
  <2>4. sleepers' \subseteq {d \in Callers : borrower'[d] = "acquire"}
    BY <1>1, <1>6, <1>7 DEF Lending!TypeOK
  <2> QED BY <1>1, <1>5, <1>6, <2>1, <2>2, <2>3, <2>4 DEF Lending!TypeOK
<1>9. Provided'
    BY <1>1, <1>3, <1>4, <1>5, <1>6, BorrowersCountable DEF Provided
<1>10. AwakeAtDestructor'
    BY <1>1, <1>6 DEF AwakeAtDestructor
<1>11. Lending!OneBorrowerPerObject' /\ InCallback'
  <2>1. Lending!OneBorrowerPerObject /\ que \in Seq(Objects) /\ que # <<>> /\ que' = Dequeued(que)
    BY <1>5 DEF LendingInv, Lending!Acquire, Dequeued
  <2>2. /\ Head(que) \in Objects /\ Head(que) \in Items(que)
        /\ Items(que') = Items(que) \ {Head(que)}
        /\ \A i, k \in DOMAIN que' : que'[i] = que'[k] => i = k
    BY <2>1, PopDistinct DEF Lending!OneBorrowerPerObject
  <2>3. /\ \A d \in Callers : borrowed[d] \notin Items(que)
        /\ \A d, e \in Callers : borrowed[d] = borrowed[e] /\ borrowed[d] # Lending!Nothing => d = e
        /\ \A d \in Callers : borrowed[d] \in destroyed => borrowed[d] \in clash
        /\ Items(que) \intersect destroyed \subseteq (IF life = "callback" THEN {Head(que)} ELSE {})
        /\ life # "gone" /\ clash = {} =>
              \A o \in Objects : o \in Items(que) \union destroyed \/ \E d \in Callers : borrowed[d] = o
    BY <2>1, LendingItems DEF Lending!OneBorrowerPerObject
  <2>4. borrowed[c] \notin Objects
    BY <1>1, <1>7 DEF Lending!TypeOK
  <2>5. \A d \in Callers : borrowed'[d] = IF d = c THEN Head(que) ELSE borrowed[d]
    BY <1>1, <1>7 DEF Lends
  <2>6. /\ \A d \in Callers : borrowed'[d] \notin Items(que')
        /\ \A d, e \in Callers : borrowed'[d] = borrowed'[e] /\ borrowed'[d] # Lending!Nothing => d = e
    BY <2>2, <2>3, <2>5
  <2>7. /\ \A d \in Callers : borrowed'[d] \in destroyed' => borrowed'[d] \in clash'
        /\ Items(que') \intersect destroyed' = {}
    BY <1>6, <2>2, <2>3, <2>5
  <2>8. life' # "gone" /\ clash' = {} =>
            \A o \in Objects : o \in Items(que') \union destroyed' \/ \E d \in Callers : borrowed'[d] = o
    BY <1>6, <2>2, <2>3, <2>4, <2>5
  <2>9. InCallback'
    BY <1>6 DEF LendingInv, InCallback
  <2> QED BY <2>2, <2>6, <2>7, <2>8, <2>9, LendingItems DEF Lending!OneBorrowerPerObject
<1> QED BY <1>8, <1>9, <1>10, <1>11 DEF LendingInv

\* A closed pool has nothing to lend: nullptr.
LEMMA LendingAcquireNullInv ==
    ASSUME LendingInv, NEW c \in Callers, Lending!AcquireNull(c)
    PROVE  LendingInv'
<1>1. Lending!TypeOK /\ Lends /\ Provided /\ AwakeAtDestructor
    BY DEF LendingInv
<1>2. life' # "open" /\ UNCHANGED <<que, sleepers, life, borrowed>>
    BY DEF Lending!AcquireNull, Lending!IsClose
<1>3. Lending!TypeOK' /\ Lends'
    BY <1>1 DEF Lending!AcquireNull, Lending!Awake, Lending!Goto, Lending!TypeOK, Lends
<1>4. Provided' /\ AwakeAtDestructor'
    BY <1>1, <1>2 DEF Provided, AwakeAtDestructor
<1>5. Lending!OneBorrowerPerObject' /\ InCallback'
    BY NothingMoves DEF Lending!AcquireNull
<1> QED BY <1>3, <1>4, <1>5 DEF LendingInv

\* An empty pool puts a caller to sleep.
LEMMA LendingSleepInv ==
    ASSUME LendingInv, NEW c \in Callers, Lending!Sleep(c)
    PROVE  LendingInv'
<1>1. Lending!TypeOK /\ Lends /\ Provided /\ AwakeAtDestructor
    BY DEF LendingInv
<1>2. que' = <<>> /\ life' = "open" /\ UNCHANGED borrowed
    BY DEF Lending!Sleep, Lending!IsClose
<1>3. Lending!TypeOK' /\ Lends'
    BY <1>1 DEF Lending!Sleep, Lending!Awake, Lending!TypeOK, Lends
<1>4. Len(que') = 0
    BY <1>2
<1>5. 0 <= Cardinality(AwakeBorrowers') + Cardinality(OwedByDeleters')
  <2>1. OwedByDeleters' = OwedByDeleters
    BY DEF Lending!Sleep, OwedByDeleters
  <2> QED BY <2>1, BorrowersCountable
<1>6. Provided' /\ AwakeAtDestructor'
    BY <1>2, <1>4, <1>5 DEF Provided, AwakeAtDestructor
<1>7. Lending!OneBorrowerPerObject' /\ InCallback'
    BY NothingMoves DEF Lending!Sleep
<1> QED BY <1>3, <1>6, <1>7 DEF LendingInv

\* A deleter gives an object back, and owes a notification for it.
LEMMA LendingGiveBackInv ==
    ASSUME LendingInv, NEW c \in Callers, Lending!GiveBack(c)
    PROVE  LendingInv'
<1>1. Lending!TypeOK /\ Lends /\ Provided /\ AwakeAtDestructor
    BY DEF LendingInv
<1>2. AwakeBorrowers' = AwakeBorrowers
    BY <1>1 DEF Lending!GiveBack, Lending!Goto, Lending!TypeOK, Lending!Awake, AwakeBorrowers
<1>3. OwedByDeleters' = OwedByDeleters \union {c} /\ c \notin OwedByDeleters
    BY <1>1 DEF Lending!GiveBack, Lending!Goto, Lending!TypeOK, OwedByDeleters
<1>4. Cardinality(OwedByDeleters') = Cardinality(OwedByDeleters) + 1
    BY <1>3, BorrowersCountable, OneMore
<1>5. /\ que \in Seq(Objects) /\ que' \in Seq(Objects)
      /\ Len(que) \in Nat /\ Len(que') = Len(que) + 1
  <2>1. que \in Seq(Objects) /\ borrowed[c] \in Objects /\ que' = Append(que, borrowed[c])
    BY <1>1 DEF Lending!GiveBack, Lending!TypeOK
  <2> QED BY <2>1, AppendElements
<1>6. UNCHANGED <<kind, sleepers, life, destroyed, clash, ended>>
    BY DEF Lending!GiveBack
<1>7. /\ borrower' = [borrower EXCEPT ![c] = "notify"]
      /\ borrowed' = [borrowed EXCEPT ![c] = Lending!Nothing]
      /\ borrower[c] = "holding"
    BY DEF Lending!GiveBack, Lending!Goto
<1>8. Lending!TypeOK' /\ Lends'
  <2>1. Lends'
    BY <1>1, <1>7 DEF Lends
  <2>2. borrower' \in [Callers -> {"idle", "acquire", "holding", "notify"}]
    BY <1>1, <1>7 DEF Lending!TypeOK
  <2>3. \A d \in Callers : borrowed'[d] \in Objects <=> borrower'[d] = "holding"
    BY <1>1, <1>7, LendingAssumption DEF Lending!TypeOK, Lends
  <2>4. sleepers' \subseteq {d \in Callers : borrower'[d] = "acquire"}
    BY <1>1, <1>6, <1>7 DEF Lending!TypeOK
  <2> QED BY <1>1, <1>5, <1>6, <2>1, <2>2, <2>3, <2>4 DEF Lending!TypeOK
<1>9. Provided'
    BY <1>1, <1>2, <1>4, <1>5, <1>6, BorrowersCountable DEF Provided
<1>10. AwakeAtDestructor'
    BY <1>1, <1>6 DEF AwakeAtDestructor
<1>11. destroyed = {} /\ life \notin {"turn", "callback"}
    BY DEF LendingInv, InCallback, Lending!GiveBack, Lending!IsClose
<1>12. Lending!OneBorrowerPerObject' /\ InCallback'
  <2>1. Lending!OneBorrowerPerObject /\ que' = Append(que, borrowed[c]) /\ borrowed[c] \in Objects
    BY <1>1, <1>7 DEF LendingInv, Lending!GiveBack, Lending!TypeOK
  <2>2. /\ \A d \in Callers : borrowed[d] \notin Items(que)
        /\ \A d, e \in Callers : borrowed[d] = borrowed[e] /\ borrowed[d] # Lending!Nothing => d = e
        /\ life # "gone" /\ clash = {} =>
              \A o \in Objects : o \in Items(que) \/ \E d \in Callers : borrowed[d] = o
    BY <1>11, <2>1, LendingItems DEF Lending!OneBorrowerPerObject
  <2>3. /\ Items(que') = Items(que) \union {borrowed[c]}
        /\ \A i, k \in DOMAIN que' : que'[i] = que'[k] => i = k
    BY <1>5, <2>1, <2>2, PushItems DEF Lending!OneBorrowerPerObject
  <2>4. \A d \in Callers : borrowed'[d] = IF d = c THEN Lending!Nothing ELSE borrowed[d]
    BY <1>1, <1>7 DEF Lends
  <2>5. Lending!Nothing \notin Items(que')
    <3>1. Items(que') \subseteq Objects
      BY <1>5 DEF Items
    <3> QED BY <3>1, LendingAssumption
  <2>6. /\ \A d \in Callers : borrowed'[d] \notin Items(que')
        /\ \A d, e \in Callers : borrowed'[d] = borrowed'[e] /\ borrowed'[d] # Lending!Nothing => d = e
        /\ destroyed' = {}
    BY <1>6, <1>11, <2>1, <2>2, <2>3, <2>4, <2>5, LendingAssumption
  <2>7. life' # "gone" /\ clash' = {} =>
            \A o \in Objects : o \in Items(que') \/ \E d \in Callers : borrowed'[d] = o
    BY <1>6, <2>2, <2>3, <2>4
  <2>8. InCallback'
    BY <1>6, <1>11 DEF InCallback
  <2> QED BY <2>3, <2>6, <2>7, <2>8, LendingItems DEF Lending!OneBorrowerPerObject
<1> QED BY <1>8, <1>9, <1>10, <1>12 DEF LendingInv

\* notify_one: with a sleeper, the debt becomes a caller awake; without one, it is
\* paid and nobody is left asleep.
LEMMA LendingNotifyInv ==
    ASSUME LendingInv, NEW c \in Callers, Lending!Notify(c)
    PROVE  LendingInv'
<1>1. Lending!TypeOK /\ Lends /\ Provided /\ AwakeAtDestructor
    BY DEF LendingInv
<1>2. /\ UNCHANGED <<kind, que, borrowed, life, destroyed, clash, ended>>
      /\ borrower' = [borrower EXCEPT ![c] = "idle"]
      /\ borrower[c] = "notify"
    BY DEF Lending!Notify, Lending!Goto
<1>3. sleepers' \subseteq sleepers
    BY DEF Lending!Notify
<1>4. Lending!TypeOK' /\ Lends'
  <2>1. borrower' \in [Callers -> {"idle", "acquire", "holding", "notify"}]
    BY <1>1, <1>2 DEF Lending!TypeOK
  <2>2. \A d \in Callers : borrowed'[d] \in Objects <=> borrower'[d] = "holding"
    BY <1>1, <1>2 DEF Lending!TypeOK
  <2>3. sleepers' \subseteq {d \in Callers : borrower'[d] = "acquire"}
    BY <1>1, <1>2, <1>3 DEF Lending!TypeOK
  <2> QED BY <1>1, <1>2, <2>1, <2>2, <2>3 DEF Lending!TypeOK, Lends
<1>5. AwakeAtDestructor'
    BY <1>1, <1>2, <1>3 DEF AwakeAtDestructor
<1>6. Provided'
  <2>1. CASE \E d \in sleepers : sleepers' = sleepers \ {d}
    <3>1. PICK d \in sleepers : sleepers' = sleepers \ {d}
      BY <2>1
    <3>2. d \in Callers /\ borrower[d] = "acquire" /\ d # c
      BY <1>1, <1>2, <3>1 DEF Lending!TypeOK
    <3>3. AwakeBorrowers' = AwakeBorrowers \union {d} /\ d \notin AwakeBorrowers
      BY <1>1, <1>2, <3>1, <3>2 DEF Lending!TypeOK, Lending!Awake, AwakeBorrowers
    <3>4. OwedByDeleters' = OwedByDeleters \ {c} /\ c \in OwedByDeleters
      BY <1>1, <1>2 DEF Lending!TypeOK, OwedByDeleters
    <3>5. /\ Cardinality(AwakeBorrowers') = Cardinality(AwakeBorrowers) + 1
          /\ Cardinality(OwedByDeleters') = Cardinality(OwedByDeleters) - 1
      BY <3>3, <3>4, BorrowersCountable, OneMore, OneLess
    <3>6. Len(que) \in Nat
      BY <1>1 DEF Lending!TypeOK
    <3> QED BY <1>1, <1>2, <3>1, <3>5, <3>6, BorrowersCountable DEF Provided
  <2>2. CASE sleepers = {} /\ UNCHANGED sleepers
    BY <2>2 DEF Provided
  <2> QED BY <2>1, <2>2 DEF Lending!Notify
<1>7. Lending!OneBorrowerPerObject' /\ InCallback'
    BY <1>2, NothingMoves
<1> QED BY <1>4, <1>5, <1>6, <1>7 DEF LendingInv

\* A caller wakes up by itself: it is one more awake.
LEMMA LendingSpuriousWakeupInv ==
    ASSUME LendingInv, NEW c \in Callers, Lending!SpuriousWakeup(c)
    PROVE  LendingInv'
<1>1. Lending!TypeOK /\ Lends /\ Provided /\ AwakeAtDestructor
    BY DEF LendingInv
<1>2. /\ UNCHANGED <<kind, que, borrower, borrowed, life, destroyed, clash, ended>>
      /\ c \in sleepers /\ sleepers' = sleepers \ {c}
    BY DEF Lending!SpuriousWakeup
<1>3. AwakeBorrowers' = AwakeBorrowers \union {c} /\ c \notin AwakeBorrowers
    BY <1>1, <1>2 DEF Lending!TypeOK, Lending!Awake, AwakeBorrowers
<1>4. OwedByDeleters' = OwedByDeleters
    BY <1>2 DEF OwedByDeleters
<1>5. Cardinality(AwakeBorrowers') = Cardinality(AwakeBorrowers) + 1
    BY <1>3, BorrowersCountable, OneMore
<1>6. Len(que) \in Nat
    BY <1>1 DEF Lending!TypeOK
<1>7. Lending!TypeOK' /\ Lends' /\ AwakeAtDestructor'
    BY <1>1, <1>2 DEF Lending!TypeOK, Lends, AwakeAtDestructor
<1>8. Provided'
    BY <1>1, <1>2, <1>4, <1>5, <1>6, BorrowersCountable DEF Provided
<1>9. Lending!OneBorrowerPerObject' /\ InCallback'
    BY <1>2, NothingMoves
<1> QED BY <1>7, <1>8, <1>9 DEF LendingInv

\* A deleter that throws, or one that comes after the pool, ends the program.
LEMMA LendingFatalInv ==
    ASSUME LendingInv, NEW c \in Callers,
           Lending!GiveBackThrows(c) \/ Lending!GiveBackTooLate(c)
    PROVE  LendingInv'
<1>1. /\ UNCHANGED <<kind, que, sleepers, borrower, borrowed, life, destroyed, clash>>
      /\ ended' \in {"no", "terminated", "undefined"}
    BY DEF Lending!GiveBackThrows, Lending!GiveBackTooLate
<1>2. Lending!TypeOK' /\ Lends'
    BY <1>1 DEF LendingInv, Lending!TypeOK, Lends
<1>3. Provided' /\ AwakeAtDestructor'
    BY <1>1 DEF LendingInv, Provided, AwakeAtDestructor, AwakeBorrowers, OwedByDeleters, Lending!Awake
<1>4. Lending!OneBorrowerPerObject' /\ InCallback'
    BY <1>1, NothingMoves
<1> QED BY <1>2, <1>3, <1>4 DEF LendingInv

\* What the destructor's steps leave to the callers, whatever they do to the queue.
LEMMA LendingDtorKeeps ==
    ASSUME LendingInv, UNCHANGED <<kind, borrower, borrowed, clash>>, sleepers' \subseteq sleepers,
           que' \in Seq(Objects), destroyed' \subseteq Objects,
           ended' \in {"no", "terminated", "undefined"},
           life' \in {"flagged", "notified", "turn", "callback", "gone"}
    PROVE  Lending!TypeOK' /\ Lends' /\ Provided'
BY DEF LendingInv, Lending!TypeOK, Lends, Provided

\* The destructor up to its loop, the loop's test, and the end of the pool.
LEMMA LendingDtorInv ==
    ASSUME LendingInv,
           Lending!DtorFlag \/ Lending!DtorNotifyAll \/ Lending!DtorTest \/ Lending!DtorEnds
    PROVE  LendingInv'
<1>1. /\ UNCHANGED <<kind, borrower, borrowed, destroyed, clash>> /\ sleepers' \subseteq sleepers
      /\ life \notin {"callback", "gone"} /\ life' \in {"flagged", "notified", "turn", "gone"}
      /\ que' = que \/ (life' = "gone" /\ que' = <<>>)
      /\ life' = "turn" => kind = "ObjectPool"
      /\ ended' \in {"no", "undefined"}
    BY DEF Lending!DtorFlag, Lending!DtorNotifyAll, Lending!DtorTest, Lending!DtorEnds, Lending!Running
<1>2. /\ que \in Seq(Objects) /\ <<>> \in Seq(Objects)
      /\ destroyed \subseteq Objects
    BY DEF LendingInv, Lending!TypeOK
<1>3. Lending!TypeOK' /\ Lends' /\ Provided'
    BY <1>1, <1>2, LendingDtorKeeps
<1>4. AwakeAtDestructor'
    BY DEF LendingInv, AwakeAtDestructor, Lending!DtorFlag, Lending!DtorNotifyAll, Lending!DtorTest, Lending!DtorEnds
<1>5. InCallback'
    BY <1>1 DEF LendingInv, InCallback
<1>6. Lending!OneBorrowerPerObject'
  <2>1. Lending!OneBorrowerPerObject
    BY DEF LendingInv
  <2>2. CASE que' = que
    BY <1>1, <2>1, <2>2, LendingItems DEF Lending!OneBorrowerPerObject
  <2>3. CASE life' = "gone" /\ que' = <<>>
    <3>1. Items(que') = {} /\ DOMAIN que' = {}
      BY <2>3 DEF Items
    <3> QED BY <1>1, <2>1, <2>3, <3>1, LendingItems DEF Lending!OneBorrowerPerObject
  <2> QED BY <1>1, <2>2, <2>3
<1> QED BY <1>3, <1>4, <1>5, <1>6 DEF LendingInv

\* The callback gets what is in front, which nobody holds.
LEMMA LendingDtorCallbackInv ==
    ASSUME LendingInv, Lending!DtorCallback
    PROVE  LendingInv'
<1>1. UNCHANGED <<kind, que, sleepers, borrower, borrowed, clash>> /\ life = "turn"
    BY DEF Lending!DtorCallback
<1>2. CASE que = <<>>
  <2>1. UNCHANGED <<life, destroyed>> /\ ended' = "undefined"
    BY <1>2 DEF Lending!DtorCallback
  <2>2. Lending!OneBorrowerPerObject' /\ InCallback'
    BY <1>1, <2>1, NothingMoves
  <2>3. Lending!TypeOK' /\ Lends' /\ Provided' /\ AwakeAtDestructor'
    BY <1>1, <2>1 DEF LendingInv, Lending!TypeOK, Lends, Provided, AwakeAtDestructor
  <2> QED BY <2>2, <2>3 DEF LendingInv
<1>3. CASE que # <<>>
  <2>1. destroyed' = destroyed \union {Head(que)} /\ life' = "callback" /\ UNCHANGED ended
    BY <1>3 DEF Lending!DtorCallback
  <2>2. /\ que \in Seq(Objects) /\ destroyed \subseteq Objects
        /\ ended \in {"no", "terminated", "undefined"}
    BY DEF LendingInv, Lending!TypeOK
  <2>3. Head(que) \in Objects /\ Head(que) \in Items(que)
    BY <1>3, <2>2, TailElements DEF Items
  <2>4. Lending!TypeOK' /\ Lends' /\ Provided'
    BY <1>1, <2>1, <2>2, <2>3, LendingDtorKeeps
  <2>5. AwakeAtDestructor' /\ InCallback'
    BY <1>1, <1>3, <2>1 DEF LendingInv, AwakeAtDestructor, InCallback
  <2>6. Lending!OneBorrowerPerObject'
    BY <1>1, <1>3, <2>1, <2>3, LendingItems DEF LendingInv, Lending!OneBorrowerPerObject
  <2> QED BY <2>4, <2>5, <2>6 DEF LendingInv
<1> QED BY <1>2, <1>3

\* The pop takes the object of the callback, or, if a caller has it, the next.
LEMMA LendingDtorPopInv ==
    ASSUME LendingInv, Lending!DtorPop
    PROVE  LendingInv'
<1>1. /\ UNCHANGED <<kind, sleepers, borrower, borrowed, destroyed, clash>>
      /\ life = "callback" /\ life' = "notified"
    BY DEF Lending!DtorPop
<1>2. /\ que \in Seq(Objects) /\ destroyed \subseteq Objects
      /\ ended \in {"no", "terminated", "undefined"}
    BY DEF LendingInv, Lending!TypeOK
<1>3. AwakeAtDestructor' /\ InCallback'
    BY <1>1 DEF LendingInv, AwakeAtDestructor, InCallback
<1>4. CASE que = <<>>
  <2>1. UNCHANGED que /\ ended' = "undefined" /\ clash # {}
    BY <1>1, <1>4 DEF Lending!DtorPop, LendingInv, InCallback
  <2>2. Lending!TypeOK' /\ Lends' /\ Provided'
    BY <1>1, <1>2, <2>1, LendingDtorKeeps
  <2>3. Items(que) = {}
    BY <1>4 DEF Items
  <2>4. Lending!OneBorrowerPerObject'
    BY <1>1, <1>4, <2>1, <2>3, LendingItems DEF LendingInv, Lending!OneBorrowerPerObject
  <2> QED BY <1>3, <2>2, <2>4 DEF LendingInv
<1>5. CASE que # <<>>
  <2>1. que' = Dequeued(que) /\ UNCHANGED ended
    BY <1>5 DEF Lending!DtorPop, Dequeued
  <2>2. \A i, k \in DOMAIN que : que[i] = que[k] => i = k
    BY DEF LendingInv, Lending!OneBorrowerPerObject
  <2>3. /\ Items(que') = Items(que) \ {Head(que)}
        /\ \A i, k \in DOMAIN que' : que'[i] = que'[k] => i = k
    BY <1>2, <1>5, <2>1, <2>2, PopDistinct
  <2>4. que' \in Seq(Objects)
    BY <1>2, <1>5, <2>1, TailElements DEF Dequeued
  <2>5. Lending!TypeOK' /\ Lends' /\ Provided'
    BY <1>1, <1>2, <2>1, <2>4, LendingDtorKeeps
  <2>6. /\ \A c \in Callers : borrowed[c] \notin Items(que)
        /\ \A c, d \in Callers : borrowed[c] = borrowed[d] /\ borrowed[c] # Lending!Nothing => c = d
        /\ \A c \in Callers : borrowed[c] \in destroyed => borrowed[c] \in clash
        /\ Items(que) \intersect destroyed \subseteq {Head(que)}
        /\ clash = {} =>
              \A o \in Objects : o \in Items(que) \union destroyed \/ \E c \in Callers : borrowed[c] = o
    BY <1>1, <1>5, LendingItems DEF LendingInv, Lending!OneBorrowerPerObject
  <2>7. clash = {} => Head(que) \in destroyed
    BY <1>1 DEF LendingInv, InCallback
  <2>8. /\ \A c \in Callers : borrowed'[c] \notin Items(que')
        /\ Items(que') \intersect destroyed' = {}
        /\ clash' = {} =>
              \A o \in Objects : o \in Items(que') \union destroyed' \/ \E c \in Callers : borrowed'[c] = o
    BY <1>1, <2>3, <2>6, <2>7
  <2>9. Lending!OneBorrowerPerObject'
    BY <1>1, <2>3, <2>6, <2>8, LendingItems DEF Lending!OneBorrowerPerObject
  <2> QED BY <1>3, <2>5, <2>9 DEF LendingInv
<1> QED BY <1>4, <1>5

\* Every step keeps the invariant.
LEMMA LendingNextInv == LendingInv /\ [Lending!Next]_(Lending!vars) => LendingInv'
<1> SUFFICES ASSUME LendingInv, [Lending!Next]_(Lending!vars) PROVE LendingInv'
    OBVIOUS
<1>1. ASSUME NEW c \in Callers,
             \/ Lending!CallAcquire(c) \/ Lending!Acquire(c) \/ Lending!AcquireNull(c)
             \/ Lending!Sleep(c) \/ Lending!GiveBack(c) \/ Lending!GiveBackThrows(c)
             \/ Lending!GiveBackTooLate(c) \/ Lending!Notify(c) \/ Lending!SpuriousWakeup(c)
      PROVE  LendingInv'
    BY <1>1, LendingCallInv, LendingAcquireInv, LendingAcquireNullInv, LendingSleepInv, LendingGiveBackInv,
        LendingFatalInv, LendingNotifyInv, LendingSpuriousWakeupInv
<1>2. CASE \/ Lending!DtorFlag \/ Lending!DtorNotifyAll \/ Lending!DtorTest
           \/ Lending!DtorCallback \/ Lending!DtorPop \/ Lending!DtorEnds
    BY <1>2, LendingDtorInv, LendingDtorCallbackInv, LendingDtorPopInv
<1>3. CASE Lending!Over \/ UNCHANGED Lending!vars
  <2>1. UNCHANGED <<kind, que, sleepers, borrower, borrowed, life, destroyed, clash, ended>>
    BY <1>3 DEF Lending!Over, Lending!vars
  <2>2. Lending!TypeOK' /\ Lends'
    BY <2>1 DEF LendingInv, Lending!TypeOK, Lends
  <2>3. Provided' /\ AwakeAtDestructor'
    BY <2>1 DEF LendingInv, Provided, AwakeAtDestructor, AwakeBorrowers, OwedByDeleters, Lending!Awake
  <2>4. Lending!OneBorrowerPerObject' /\ InCallback'
    BY <2>1, NothingMoves
  <2> QED BY <2>2, <2>3, <2>4 DEF LendingInv
<1> QED BY <1>1, <1>2, <1>3 DEF Lending!Next

\* The pool is filled with its objects, and nobody has come yet.
LEMMA LendingInitInv == Lending!Init => LendingInv
<1> SUFFICES ASSUME Lending!Init PROVE LendingInv
    OBVIOUS
<1>1. /\ que \in Seq(Objects) /\ Items(que) = Objects
      /\ \A i, k \in DOMAIN que : que[i] = que[k] => i = k
  <2> DEFINE n == Cardinality(Objects)
             Filling == [1 .. n -> Objects]
  <2>1. que = CHOOSE f \in Filling : Lending!IsInjective(f)
    BY LendingCount DEF Lending!Init, Lending!SetToSeq
  <2>2. \A f \in Filling : Lending!IsInjective(f) <=> \A i, k \in 1 .. n : f[i] = f[k] => i = k
    BY DEF Lending!IsInjective
  <2>3. \E f \in Filling : Lending!IsInjective(f)
    BY <2>2, LendingAssumption, Enumeration
  <2>4. que \in Filling /\ Lending!IsInjective(que)
    BY <2>1, <2>3
  <2>5. \A i, k \in 1 .. n : que[i] = que[k] => i = k
    BY <2>2, <2>4
  <2>6. que \in Seq(Objects) /\ Items(que) = Objects
    BY <2>4, <2>5, LendingAssumption, Enumeration
  <2> QED BY <2>4, <2>5, <2>6
<1>2. Lending!TypeOK
    BY <1>1, LendingAssumption DEF Lending!Init, Lending!TypeOK
<1>3. Lends /\ Provided /\ AwakeAtDestructor /\ InCallback
    BY DEF Lending!Init, Lends, Provided, AwakeAtDestructor, InCallback
<1>4. Lending!OneBorrowerPerObject
  <2>1. /\ destroyed = {} /\ \A c \in Callers : borrowed[c] = Lending!Nothing
    BY DEF Lending!Init
  <2> QED BY <1>1, <2>1, LendingItems, LendingAssumption DEF Lending!OneBorrowerPerObject
<1> QED BY <1>2, <1>3, <1>4 DEF LendingInv

\* The inductive invariant holds of every behaviour, for any callers and objects,
\* of both kinds of pool.
THEOREM LendingInvariant == LendingSpec => []LendingInv
<1>1. Lending!Init => LendingInv
    BY LendingInitInv
<1>2. LendingInv /\ [Lending!Next]_(Lending!vars) => LendingInv'
    BY LendingNextInv
<1> QED BY <1>1, <1>2, PTL DEF LendingSpec

\* No object has two borrowers, is destroyed twice, or is lost; only one whose callback
\* is still running can be destroyed and lent, to a caller that comes into that turn of
\* the unlocked drain; and no caller of Acquire sleeps beside an object, or through the
\* destructor, although the deleters notify after the unlock, one caller each
\* (ObjectPool.h, BufferPool.h).
THEOREM BorrowersAreServed == LendingSpec => []LendingServesEverybody
<1> QED BY LendingInvServes, LendingInvariant, PTL


------------------------------------------------------------------------------
\* The run's behaviours are behaviours of all four, each with its own variables: what
\* is proved above, and of InferTensorBufferPool's Spec, covers the run.
THEOREM RunIsInstance == MCSpec => Spec /\ VideoSpec /\ ChannelSpec /\ LendingSpec
<1>1. MCInit => Init /\ Video!Init /\ Channel!Init /\ Lending!Init
    BY DEF MCInit
<1>2. ASSUME [MCNext]_allVars PROVE [Video!Next]_(Video!vars)
  <2>1. Video!Next \/ UNCHANGED videoVars
    BY <1>2 DEF MCNext, allVars
  <2> QED BY <2>1 DEF videoVars, Video!vars
<1>3. ASSUME [MCNext]_allVars PROVE [Channel!Next]_(Channel!vars)
  <2>1. Channel!Next \/ UNCHANGED channelVars
    BY <1>3 DEF MCNext, allVars
  <2> QED BY <2>1 DEF channelVars, Channel!vars
<1>4. ASSUME [MCNext]_allVars PROVE [Lending!Next]_(Lending!vars)
  <2>1. Lending!Next \/ UNCHANGED lendingVars
    BY <1>4 DEF MCNext, allVars
  <2> QED BY <2>1 DEF lendingVars, Lending!vars
<1>5. ASSUME [MCNext]_allVars PROVE [Next]_vars
    BY <1>5 DEF MCNext, allVars
<1> QED BY <1>1, <1>2, <1>3, <1>4, <1>5, PTL DEF MCSpec, Spec, VideoSpec, ChannelSpec, LendingSpec
==============================================================================
