------------------------ MODULE InferTensorBufferPool ------------------------
(***************************************************************************)
(* include/device/InferTensorBufferPool.h: capacity_ equal slices of one   *)
(* cudaMalloc, lent out by Acquire and given back by Release, under one    *)
(* mutex and one condition variable.  Also the loop with which             *)
(* OrtSessionWrapper registers one tensor per slice before it serves       *)
(* (input_tensor_init and output_tensor_init): it trusts the queue to show *)
(* it every slice.                                                         *)
(*                                                                         *)
(* Each critical section is one step.  Release notifies after it has       *)
(* unlocked; close sets the flag, notifies, and frees the memory, in three *)
(* steps.  Callers give back exactly what they were lent, once: what the   *)
(* runners make of that duty is AsyncScheduler's subject.                  *)
(***************************************************************************)
EXTENDS Naturals, Sequences, FiniteSets

CONSTANTS
    Callers,    \* the threads that Acquire and Release
    Base,       \* the address cudaMalloc returned
    EleSize,    \* capacity_
    EleBytes    \* ele_bytes_size_

ASSUME SizesAssumption == EleSize \in Nat \ {0} /\ EleBytes \in Nat \ {0}  \* checked by the constructor
ASSUME BaseAssumption == Base \in Nat \ {0}
ASSUME CallersAssumption == IsFiniteSet(Callers)

VARIABLES
    buffer,      \* buffer_
    isClosed,    \* is_closed_
    data,        \* data_: Base, or Null once freed
    registered,  \* the keys of OrtSessionWrapper's table of tensors
    toRegister,  \* turns left of its loop
    waitSet,     \* the callers asleep in condition_.wait
    cpc,         \* where each caller is
    lent,        \* what Acquire returned to each caller
    closer       \* where close() is

vars == <<buffer, isClosed, data, registered, toRegister, waitSet, cpc, lent, closer>>

Null == 0
TotalBytes == EleSize * EleBytes
Slices == {Base + i * EleBytes : i \in 0 .. EleSize - 1}

\* (mutant) the first slice is taken for a foreign pointer.
OwnsAfterBase(p) == data < p /\ p < data + TotalBytes /\ (p - data) % EleBytes = 0

\* owns(): inside the block, at the start of a slice.
Owns(p) == data <= p /\ p < data + TotalBytes /\ (p - data) % EleBytes = 0

\* (mutant) the addresses are counted from one.
InitCountsFromOne ==
    /\ buffer = [i \in 1 .. EleSize |-> Base + i * EleBytes]
    /\ isClosed = FALSE
    /\ data = Base
    /\ registered = {}
    /\ toRegister = EleSize
    /\ waitSet = {}
    /\ cpc = [c \in Callers |-> "idle"]
    /\ lent = [c \in Callers |-> Null]
    /\ closer = "none"

Init ==
    /\ buffer = [i \in 1 .. EleSize |-> Base + (i - 1) * EleBytes]
    /\ isClosed = FALSE
    /\ data = Base
    /\ registered = {}
    /\ toRegister = EleSize
    /\ waitSet = {}
    /\ cpc = [c \in Callers |-> "idle"]
    /\ lent = [c \in Callers |-> Null]
    /\ closer = "none"

\* (mutant) a free list with the last slice on top.
RegisterTopOfStack ==
    /\ toRegister > 0
    /\ registered' = registered \union {Head(buffer)}
    /\ buffer' = <<Head(buffer)>> \o Tail(buffer)
    /\ toRegister' = toRegister - 1
    /\ UNCHANGED <<isClosed, data, waitSet, cpc, lent, closer>>

\* One turn of the constructor's loop: Acquire, insert_or_assign, Release.
\* No other thread knows the pool yet.
RegisterNext ==
    /\ toRegister > 0
    /\ registered' = registered \union {Head(buffer)}
    /\ buffer' = Append(Tail(buffer), Head(buffer))
    /\ toRegister' = toRegister - 1
    /\ UNCHANGED <<isClosed, data, waitSet, cpc, lent, closer>>

CallAcquire(c) ==
    /\ toRegister = 0
    /\ cpc[c] = "idle"
    /\ cpc' = [cpc EXCEPT ![c] = "acquire"]
    /\ UNCHANGED <<buffer, isClosed, data, registered, toRegister, waitSet, lent, closer>>

\* The caller has the mutex: it gets the front of the queue,
AcquireBuffer(c) ==
    /\ cpc[c] = "acquire" /\ c \notin waitSet
    /\ ~isClosed /\ buffer # <<>>
    /\ lent' = [lent EXCEPT ![c] = Head(buffer)]
    /\ buffer' = Tail(buffer)
    /\ cpc' = [cpc EXCEPT ![c] = "holding"]
    /\ UNCHANGED <<isClosed, data, registered, toRegister, waitSet, closer>>

\* (mutant) a waiter looks at the queue first and at the flag second.
AcquireNullWhenEmpty(c) ==
    /\ cpc[c] = "acquire" /\ c \notin waitSet
    /\ isClosed
    /\ \/ /\ buffer = <<>>
          /\ cpc' = [cpc EXCEPT ![c] = "idle"]
          /\ UNCHANGED <<buffer, lent>>
       \/ /\ buffer # <<>>
          /\ lent' = [lent EXCEPT ![c] = Head(buffer)]
          /\ buffer' = Tail(buffer)
          /\ cpc' = [cpc EXCEPT ![c] = "holding"]
    /\ UNCHANGED <<isClosed, data, registered, toRegister, waitSet, closer>>

\* or nullptr, if the pool is closed, whatever the queue holds,
AcquireNull(c) ==
    /\ cpc[c] = "acquire" /\ c \notin waitSet
    /\ isClosed
    /\ cpc' = [cpc EXCEPT ![c] = "idle"]
    /\ UNCHANGED <<buffer, isClosed, data, registered, toRegister, waitSet, lent, closer>>

\* or it sleeps until a Release or close.
AcquireSleep(c) ==
    /\ cpc[c] = "acquire" /\ c \notin waitSet
    /\ ~isClosed /\ buffer = <<>>
    /\ waitSet' = waitSet \union {c}
    /\ UNCHANGED <<buffer, isClosed, data, registered, toRegister, cpc, lent, closer>>

\* (mutant) notify only a queue that was empty.
ReleaseNotifiesEmptyOnly(c) ==
    /\ cpc[c] = "holding"
    /\ ~isClosed /\ Owns(lent[c])
    /\ buffer' = Append(buffer, lent[c])
    /\ lent' = [lent EXCEPT ![c] = Null]
    /\ cpc' = [cpc EXCEPT ![c] = IF buffer = <<>> THEN "notify" ELSE "idle"]
    /\ UNCHANGED <<isClosed, data, registered, toRegister, waitSet, closer>>

\* (mutant) the caller goes on using what it has given back.
ReleaseKeepsPointer(c) ==
    /\ cpc[c] = "holding"
    /\ ~isClosed /\ Owns(lent[c])
    /\ buffer' = Append(buffer, lent[c])
    /\ cpc' = [cpc EXCEPT ![c] = "notify"]
    /\ UNCHANGED <<isClosed, data, registered, toRegister, waitSet, lent, closer>>

\* Release, up to the unlock: the slice goes to the back of the queue.  (A
\* pointer the pool does not own makes it throw; nobody was lent one.)
Release(c) ==
    /\ cpc[c] = "holding"
    /\ ~isClosed /\ Owns(lent[c])
    /\ buffer' = Append(buffer, lent[c])
    /\ lent' = [lent EXCEPT ![c] = Null]
    /\ cpc' = [cpc EXCEPT ![c] = "notify"]
    /\ UNCHANGED <<isClosed, data, registered, toRegister, waitSet, closer>>

\* Release on a closed pool is ignored.
ReleaseIgnored(c) ==
    /\ cpc[c] = "holding"
    /\ isClosed
    /\ lent' = [lent EXCEPT ![c] = Null]
    /\ cpc' = [cpc EXCEPT ![c] = "idle"]
    /\ UNCHANGED <<buffer, isClosed, data, registered, toRegister, waitSet, closer>>

\* condition_.notify_one() of Release.
ReleaseNotify(c) ==
    /\ cpc[c] = "notify"
    /\ \/ \E d \in waitSet : waitSet' = waitSet \ {d}
       \/ waitSet = {} /\ UNCHANGED waitSet
    /\ cpc' = [cpc EXCEPT ![c] = "idle"]
    /\ UNCHANGED <<buffer, isClosed, data, registered, toRegister, lent, closer>>

SpuriousWakeup(c) ==
    /\ c \in waitSet
    /\ waitSet' = waitSet \ {c}
    /\ UNCHANGED <<buffer, isClosed, data, registered, toRegister, cpc, lent, closer>>

\* close(), its critical section (it may be called again: then it returns).
CloseFlag ==
    /\ toRegister = 0
    /\ closer = "none"
    /\ isClosed' = TRUE
    /\ closer' = "notify"
    /\ UNCHANGED <<buffer, data, registered, toRegister, waitSet, cpc, lent>>

\* (mutant) close wakes one waiter.
CloseNotifyOne ==
    /\ closer = "notify"
    /\ \/ \E d \in waitSet : waitSet' = waitSet \ {d}
       \/ waitSet = {} /\ UNCHANGED waitSet
    /\ closer' = "free"
    /\ UNCHANGED <<buffer, isClosed, data, registered, toRegister, cpc, lent>>

CloseNotifyAll ==
    /\ closer = "notify"
    /\ waitSet' = {}
    /\ closer' = "free"
    /\ UNCHANGED <<buffer, isClosed, data, registered, toRegister, cpc, lent>>

\* cudaFree, outside the lock, whoever still holds a slice.
CloseFree ==
    /\ closer = "free"
    /\ data' = Null
    /\ closer' = "done"
    /\ UNCHANGED <<buffer, isClosed, registered, toRegister, waitSet, cpc, lent>>

Acquiring(c) == AcquireBuffer(c) \/ AcquireNull(c) \/ AcquireSleep(c)
Releasing(c) == Release(c) \/ ReleaseIgnored(c) \/ ReleaseNotify(c)

Next ==
    \/ RegisterNext
    \/ \E c \in Callers :
        CallAcquire(c) \/ Acquiring(c) \/ Releasing(c) \/ SpuriousWakeup(c)
    \/ CloseFlag \/ CloseNotifyAll \/ CloseFree

Spec == Init /\ [][Next]_vars

\* Threads run, and a caller gives back what it holds.
FairSpec ==
    /\ Spec
    /\ \A c \in Callers : WF_vars(Acquiring(c)) /\ WF_vars(Releasing(c))
    /\ WF_vars(CloseNotifyAll \/ CloseFree)

------------------------------------------------------------------------------
TypeOK ==
    /\ buffer \in Seq(Slices)
    /\ isClosed \in BOOLEAN
    /\ data \in {Base, Null}
    /\ registered \in SUBSET Slices
    /\ toRegister \in 0 .. EleSize
    /\ waitSet \in SUBSET Callers
    /\ cpc \in [Callers -> {"idle", "acquire", "holding", "notify"}]
    /\ lent \in [Callers -> Slices \union {Null}]
    /\ closer \in {"none", "notify", "free", "done"}

Free == {buffer[i] : i \in DOMAIN buffer}
Lent == {lent[c] : c \in Callers} \ {Null}

\* A slice is free or lent to one caller, never both, never two; while the
\* pool is open none is missing.
OneHolderPerSlice ==
    /\ \A i, k \in DOMAIN buffer : buffer[i] = buffer[k] => i = k
    /\ \A c, d \in Callers : lent[c] = lent[d] /\ lent[c] # Null => c = d
    /\ Free \intersect Lent = {}
    /\ ~isClosed => Free \union Lent = Slices

\* Whatever slice a caller is lent, infer finds the tensor made for it
\* ("output buffer not found!" is never thrown).
LentSliceIsRegistered == Lent \subseteq registered

\* The check in Release accepts everything that was lent: it never throws.
ReleaseNeverThrows == \A c \in Callers : cpc[c] = "holding" /\ ~isClosed => Owns(lent[c])

Awake == {c \in Callers : cpc[c] = "acquire"} \ waitSet
Notifying == {c \in Callers : cpc[c] = "notify"}

\* Nobody sleeps beside a free slice: while a caller sleeps on an open pool, each
\* free slice is covered by a caller on its way to it or by a notify still owed.
\* (On a closed pool the notify_all of close is owed to all of them.)
WakeupsCoverFreeSlices ==
    waitSet # {} /\ ~isClosed => Len(buffer) <= Cardinality(Awake) + Cardinality(Notifying)

\* close's promise before it frees the memory: from the moment the flag is
\* set no Acquire hands out a pointer any more.
NothingLentOnceClosed ==
    [][isClosed => \A c \in Callers : lent'[c] \in {lent[c], Null}]_vars

\* close lets every caller out of Acquire and gets everything given back.
CloseEmptiesPool == isClosed ~> \A c \in Callers : cpc[c] # "holding" /\ c \notin waitSet
==============================================================================
