----------------------- MODULE MCInferTensorBufferPool -----------------------
(***************************************************************************)
(* The library's four ways to hand something from thread to thread, one    *)
(* per behaviour: aspect says which one moves.                             *)
(*   "slices"   InferTensorBufferPool.  Two slices and four callers: two   *)
(*              sleep while the other two release at the same time, and    *)
(*              close may come while a waiter is awake and another asleep. *)
(*   "video"    SPSCQueue, made for 1, 2 or 3 frames (3 is rounded to 4),  *)
(*              with enough frames to go around the ring.                  *)
(*   "channel"  ThreadSafeQueue, unbounded, or bounded by 1 or 2: both     *)
(*              producers can be asleep while both consumers notify.       *)
(*   "objects"  ObjectPool and BufferPool, two objects, four callers.      *)
(***************************************************************************)
EXTENDS InferTensorBufferPool

CONSTANTS
    Requested, Frames,                           \* SPSCQueue
    Producers, Consumers, Capacities, MaxSize,   \* ThreadSafeQueue
    Objects                                      \* ObjectPool, BufferPool

VARIABLES
    aspect,
    ring, ringCapacity, head, tail, headSeen, tailSeen, producer, consumer,
    grabbed, isRunning, accepted, item, shown,
    capacity, size, isClose, notFull, notEmpty, pc, channelCloser,
    kind, que, sleepers, borrower, borrowed, life, destroyed, clash, ended

Video == INSTANCE SPSCQueue WITH capacity <- ringCapacity, buffer <- ring
Channel == INSTANCE ThreadSafeQueue WITH closer <- channelCloser
Lending == INSTANCE LendingPool WITH waitSet <- sleepers, pc <- borrower, lent <- borrowed

\* A queue for frames has a place, and the rounding leaves it one (SPSCQueue.h
\* leaves 0 as it is, and 0 is no capacity of a ring).
ASSUME VideoAssumption ==
    /\ Requested \subseteq Nat \ {0} /\ Frames \in Nat
    /\ \A n \in Requested : Video!RoundUp(n) \in Nat \ {0}
\* A thread pushes or pops, there are finitely many, and kUnbounded is 0.
ASSUME ChannelAssumption ==
    /\ IsFiniteSet(Producers) /\ IsFiniteSet(Consumers)
    /\ Producers \intersect Consumers = {}
    /\ Capacities \subseteq Nat /\ MaxSize \in Nat
\* A pool is filled with finitely many objects, and none is null.
ASSUME LendingAssumption == IsFiniteSet(Objects) /\ Lending!Nothing \notin Objects

videoVars == <<ring, ringCapacity, head, tail, headSeen, tailSeen, producer,
               consumer, grabbed, isRunning, accepted, item, shown>>
channelVars == <<capacity, size, isClose, notFull, notEmpty, pc, channelCloser>>
lendingVars == <<kind, que, sleepers, borrower, borrowed, life, destroyed, clash, ended>>
allVars == <<aspect, vars, videoVars, channelVars, lendingVars>>

MCInit ==
    /\ aspect \in {"slices", "video", "channel", "objects"}
    /\ Init
    /\ Video!Init /\ (aspect # "video" => ringCapacity = 1)
    /\ Channel!Init /\ (aspect # "channel" => capacity = 0)
    /\ Lending!Init /\ (aspect # "objects" => kind = "BufferPool")

MCNext ==
    /\ UNCHANGED aspect
    /\ \/ aspect = "slices" /\ Next /\ UNCHANGED <<videoVars, channelVars, lendingVars>>
       \/ aspect = "video" /\ Video!Next /\ UNCHANGED <<vars, channelVars, lendingVars>>
       \/ aspect = "channel" /\ Channel!Next /\ UNCHANGED <<vars, videoVars, lendingVars>>
       \/ aspect = "objects" /\ Lending!Next /\ UNCHANGED <<vars, videoVars, channelVars>>

\* FairSpec of InferTensorBufferPool, while it is the one that moves.
MCSpec ==
    /\ MCInit /\ [][MCNext]_allVars
    /\ \A c \in Callers :
        /\ WF_vars(aspect = "slices" /\ Acquiring(c))
        /\ WF_vars(aspect = "slices" /\ Releasing(c))
    /\ WF_vars(aspect = "slices" /\ (CloseNotifyAll \/ CloseFree))

------------------------------------------------------------------------------
\* display of video_infer.cpp shows the frames push accepted, whole and in order,
\* whatever the age of the indices that SPSCQueue's push and pop read.
VideoInOrder == Video!TypeOK /\ Video!Fifo

\* No caller of ThreadSafeQueue's Push or Pop sleeps beside a free place or an
\* element, or through Close.
ChannelWakesEverybody == Channel!TypeOK /\ Channel!NobodyWaitsBesideWork

\* No object of ObjectPool or BufferPool is with two callers, destroyed twice, or lost,
\* and none destroyed while it is lent unless Acquire came into the turn of the unlocked
\* drain; no caller of Acquire sleeps beside an object, or through the destructor.
LendingServesEverybody ==
    Lending!TypeOK /\ Lending!OneBorrowerPerObject /\ Lending!NobodySleepsBesideAnObject
==============================================================================
