------------------------------ MODULE SPSCQueue ------------------------------
(***************************************************************************)
(* include/queue/SPSCQueue.h, a ring with one producer and one consumer    *)
(* and no lock, in its one use, examples/yolo_infer/video_infer.cpp: the   *)
(* main thread pushes frames and drops those the queue refuses, display    *)
(* pops until a pop fails and is_running is false.                         *)
(*                                                                         *)
(* head_ and tail_ are kept as totals, the code's indices are their        *)
(* remainders.  An acquire load may return any value of the other side's   *)
(* index that is not older than the last one this thread has seen.  Filling *)
(* and copying a slot take time: a slot being filled shows Blank.          *)
(***************************************************************************)
EXTENDS Naturals, Sequences, FiniteSetsExt, SequencesExt

CONSTANTS
    Requested,  \* the capacities, at least 1, a queue may be constructed with
    Frames      \* frames in the video (bounds the totals)

VARIABLES
    capacity,   \* capacity_, a power of two
    buffer,     \* buffer_
    head, tail, \* popped and pushed so far
    headSeen,   \* the producer's last view of head
    tailSeen,   \* the consumer's last view of tail
    producer,   \* "grab", "push" (between check and store), "join"
    consumer,   \* "pop", "copy" (between check and store), "failed", "left"
    grabbed,    \* frames read from the video
    isRunning,  \* is_running
    accepted,   \* the frames push has taken, in order
    item,       \* what the consumer found in the slot when it began to copy
    shown       \* the frames pop has returned, in order

vars == <<capacity, buffer, head, tail, headSeen, tailSeen, producer, consumer,
          grabbed, isRunning, accepted, item, shown>>

Blank == 0

\* The constructor's rounding up to a power of two.
RoundUp(n) == Min({p \in {2^k : k \in 0 .. n} : p >= n})

Index(n) == n % capacity

Init ==
    /\ capacity \in {RoundUp(n) : n \in Requested}
    /\ buffer = [i \in 0 .. capacity - 1 |-> Blank]
    /\ head = 0 /\ tail = 0 /\ headSeen = 0 /\ tailSeen = 0
    /\ producer = "grab" /\ consumer = "pop"
    /\ grabbed = 0 /\ isRunning = TRUE
    /\ accepted = <<>> /\ item = Blank /\ shown = <<>>

consumerVars == <<head, tailSeen, consumer, item, shown>>

\* (mutant) the queue counts as full when all its slots are taken.
PushFillsAllSlots ==
    /\ producer = "grab" /\ grabbed < Frames
    /\ grabbed' = grabbed + 1
    /\ \E view \in headSeen .. head :
        /\ headSeen' = view
        /\ IF tail - view = capacity
           THEN UNCHANGED <<producer, buffer>>
           ELSE /\ producer' = "push"
                /\ buffer' = [buffer EXCEPT ![Index(tail)] = Blank]
    /\ UNCHANGED <<consumerVars, capacity, tail, isRunning, accepted>>

\* The next frame; push finds the queue full and the frame is dropped, or it
\* begins to fill the slot at tail.
Push ==
    /\ producer = "grab" /\ grabbed < Frames
    /\ grabbed' = grabbed + 1
    /\ \E view \in headSeen .. head :
        /\ headSeen' = view
        /\ IF Index(tail + 1) = Index(view)
           THEN UNCHANGED <<producer, buffer>>
           ELSE /\ producer' = "push"
                /\ buffer' = [buffer EXCEPT ![Index(tail)] = Blank]
    /\ UNCHANGED <<consumerVars, capacity, tail, isRunning, accepted>>

\* The slot is filled and tail_ stored with release.
PushStore ==
    /\ producer = "push"
    /\ buffer' = [buffer EXCEPT ![Index(tail)] = grabbed]
    /\ tail' = tail + 1
    /\ accepted' = Append(accepted, grabbed)
    /\ producer' = "grab"
    /\ UNCHANGED <<consumerVars, capacity, headSeen, grabbed, isRunning>>

\* No more frames: is_running = false, then join.
EndOfVideo ==
    /\ producer = "grab" /\ grabbed = Frames
    /\ isRunning' = FALSE
    /\ producer' = "join"
    /\ UNCHANGED <<consumerVars, capacity, buffer, tail, headSeen, grabbed, accepted>>

producerVars == <<capacity, buffer, tail, headSeen, producer, grabbed, isRunning, accepted>>

\* pop finds the queue empty, or begins to copy the slot at head.
Pop ==
    /\ consumer = "pop"
    /\ \E view \in tailSeen .. tail :
        /\ tailSeen' = view
        /\ IF Index(head) = Index(view)
           THEN consumer' = "failed" /\ UNCHANGED item
           ELSE consumer' = "copy" /\ item' = buffer[Index(head)]
    /\ UNCHANGED <<producerVars, head, shown>>

\* The copy is complete and head_ stored with release.  A slot that changed
\* under the copy leaves neither frame.
PopStore ==
    /\ consumer = "copy"
    /\ shown' = Append(shown, IF buffer[Index(head)] = item THEN item ELSE Blank)
    /\ head' = head + 1
    /\ consumer' = "pop"
    /\ UNCHANGED <<producerVars, tailSeen, item>>

\* After a pop that failed, display looks at is_running.
LookAtRunning ==
    /\ consumer = "failed"
    /\ consumer' = IF isRunning THEN "pop" ELSE "left"
    /\ UNCHANGED <<producerVars, head, tailSeen, item, shown>>

\* th.join() has returned and main ends.
Joined == producer = "join" /\ consumer = "left" /\ UNCHANGED vars

Next ==
    \/ Push \/ PushStore \/ EndOfVideo
    \/ Pop \/ PopStore \/ LookAtRunning
    \/ Joined

------------------------------------------------------------------------------
TypeOK ==
    /\ capacity \in {RoundUp(n) : n \in Requested}
    /\ buffer \in [0 .. capacity - 1 -> 0 .. Frames]
    /\ headSeen \in 0 .. head /\ head \in 0 .. tail
    /\ tailSeen \in head .. tail /\ tail \in 0 .. grabbed
    /\ grabbed \in 0 .. Frames
    /\ producer \in {"grab", "push", "join"}
    /\ consumer \in {"pop", "copy", "failed", "left"}
    /\ isRunning = (producer # "join")
    /\ item \in 0 .. Frames

\* display shows the accepted frames, whole and in order, whatever frames were
\* refused and however old the indices were that push and pop saw; a queue made
\* for n frames holds at least n - 1.
Fifo ==
    /\ IsPrefix(shown, accepted)
    /\ tail - head < capacity
==============================================================================
