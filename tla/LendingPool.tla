----------------------------- MODULE LendingPool -----------------------------
(***************************************************************************)
(* include/thread/ObjectPool.h and include/BufferPool.h: a queue of        *)
(* pointers under a mutex, lent as smart pointers whose deleter gives the  *)
(* pointer back.  The two differ in what the deleter does once the pool's  *)
(* destructor has set is_close_: BufferPool's pushes as ever, ObjectPool's *)
(* throws, out of a destructor, which ends the program.  ObjectPool's      *)
(* destructor then runs destroy_callback_ over the queue, without the lock,*)
(* so that a caller awake in Acquire may take between a callback and its   *)
(* pop.  Both lend what is queued even when they are closed.  Two accesses *)
(* of the queue at the same instant are taken in one order or the other:   *)
(* what they do to a std::queue's own memory is left out.                  *)
(***************************************************************************)
EXTENDS Naturals, SequencesExt, FiniteSets

CONSTANTS
    Objects,  \* what ObjectPool's owner puts in; BufferPool's elements
    Callers

VARIABLES
    kind,       \* "ObjectPool" or "BufferPool"
    que,        \* que_
    waitSet,    \* the callers asleep in condition_.wait
    pc,         \* "idle", "acquire", "holding", "notify"
    lent,       \* what each caller's smart pointer holds
    life,       \* "open"; "flagged", "notified", "turn", "callback" (is_close_); "gone"
    destroyed,  \* what destroy_callback_ has been given
    clash,      \* what Acquire took while a callback was running (history)
    ended       \* "no", "terminated" (throw in a deleter) or "undefined"

vars == <<kind, que, waitSet, pc, lent, life, destroyed, clash, ended>>

Nothing == 0
Running == ended = "no"
IsClose == life # "open"
Awake(c) == pc[c] = "acquire" /\ c \notin waitSet
Goto(c, l) == pc' = [pc EXCEPT ![c] = l]

\* BufferPool's constructor cuts its block into the elements; ObjectPool's
\* owner fills the pool with Release before it lends.
Init ==
    /\ kind \in {"ObjectPool", "BufferPool"}
    /\ que = SetToSeq(Objects)
    /\ waitSet = {}
    /\ pc = [c \in Callers |-> "idle"]
    /\ lent = [c \in Callers |-> Nothing]
    /\ life = "open" /\ destroyed = {} /\ clash = {} /\ ended = "no"

CallAcquire(c) ==
    /\ Running /\ pc[c] = "idle" /\ life = "open"
    /\ Goto(c, "acquire")
    /\ UNCHANGED <<kind, que, waitSet, lent, life, destroyed, clash, ended>>

\* (mutant) front() without pop().
AcquireWithoutPop(c) ==
    /\ Running /\ Awake(c) /\ que # <<>> /\ life # "gone"
    /\ lent' = [lent EXCEPT ![c] = Head(que)]
    /\ clash' = IF life = "callback" THEN clash \union {Head(que)} ELSE clash
    /\ Goto(c, "holding")
    /\ UNCHANGED <<kind, que, waitSet, life, destroyed, ended>>

\* The wait's predicate looks at the queue first, also in a closed pool.
Acquire(c) ==
    /\ Running /\ Awake(c) /\ que # <<>> /\ life # "gone"
    /\ lent' = [lent EXCEPT ![c] = Head(que)]
    /\ que' = Tail(que)
    /\ clash' = IF life = "callback" THEN clash \union {Head(que)} ELSE clash
    /\ Goto(c, "holding")
    /\ UNCHANGED <<kind, waitSet, life, destroyed, ended>>

AcquireNull(c) ==
    /\ Running /\ Awake(c) /\ que = <<>> /\ IsClose
    /\ Goto(c, "idle")
    /\ UNCHANGED <<kind, que, waitSet, lent, life, destroyed, clash, ended>>

Sleep(c) ==
    /\ Running /\ Awake(c) /\ que = <<>> /\ ~IsClose
    /\ waitSet' = waitSet \union {c}
    /\ UNCHANGED <<kind, que, pc, lent, life, destroyed, clash, ended>>

\* (mutant) the deleter wakes somebody only if the pool was empty.
GiveBackNotifiesEmptyOnly(c) ==
    /\ Running /\ pc[c] = "holding" /\ life # "gone"
    /\ kind = "BufferPool" \/ ~IsClose
    /\ que' = Append(que, lent[c])
    /\ lent' = [lent EXCEPT ![c] = Nothing]
    /\ Goto(c, IF que = <<>> THEN "notify" ELSE "idle")
    /\ UNCHANGED <<kind, waitSet, life, destroyed, clash, ended>>

\* The deleter (ObjectPool: by way of Release), up to the unlock.
GiveBack(c) ==
    /\ Running /\ pc[c] = "holding" /\ life # "gone"
    /\ kind = "BufferPool" \/ ~IsClose
    /\ que' = Append(que, lent[c])
    /\ lent' = [lent EXCEPT ![c] = Nothing]
    /\ Goto(c, "notify")
    /\ UNCHANGED <<kind, waitSet, life, destroyed, clash, ended>>

\* ObjectPool::Release throws on a closed pool, inside a deleter.
GiveBackThrows(c) ==
    /\ Running /\ pc[c] = "holding" /\ life # "gone"
    /\ kind = "ObjectPool" /\ IsClose
    /\ ended' = "terminated"
    /\ UNCHANGED <<kind, que, waitSet, pc, lent, life, destroyed, clash>>

\* The deleter's reference to the pool outlives the pool.
GiveBackTooLate(c) ==
    /\ Running /\ pc[c] \in {"holding", "notify"} /\ life = "gone"
    /\ ended' = "undefined"
    /\ UNCHANGED <<kind, que, waitSet, pc, lent, life, destroyed, clash>>

Notify(c) ==
    /\ Running /\ pc[c] = "notify" /\ life # "gone"
    /\ \/ \E d \in waitSet : waitSet' = waitSet \ {d}
       \/ waitSet = {} /\ UNCHANGED waitSet
    /\ Goto(c, "idle")
    /\ UNCHANGED <<kind, que, lent, life, destroyed, clash, ended>>

SpuriousWakeup(c) ==
    /\ Running /\ c \in waitSet
    /\ waitSet' = waitSet \ {c}
    /\ UNCHANGED <<kind, que, pc, lent, life, destroyed, clash, ended>>

DtorFlag ==
    /\ Running /\ life = "open" /\ life' = "flagged"
    /\ UNCHANGED <<kind, que, waitSet, pc, lent, destroyed, clash, ended>>

DtorNotifyAll ==
    /\ Running /\ life = "flagged" /\ life' = "notified"
    /\ waitSet' = {}
    /\ UNCHANGED <<kind, que, pc, lent, destroyed, clash, ended>>

\* A turn of ObjectPool's last loop, if a callback is set: the test,
DtorTest ==
    /\ Running /\ life = "notified" /\ life' = "turn"
    /\ kind = "ObjectPool" /\ que # <<>>
    /\ UNCHANGED <<kind, que, waitSet, pc, lent, destroyed, clash, ended>>

\* front() and the callback, unless a caller took the last one after the test,
DtorCallback ==
    /\ Running /\ life = "turn"
    /\ IF que = <<>>
       THEN ended' = "undefined" /\ UNCHANGED <<life, destroyed>>
       ELSE /\ destroyed' = destroyed \union {Head(que)}
            /\ life' = "callback" /\ UNCHANGED ended
    /\ UNCHANGED <<kind, que, waitSet, pc, lent, clash>>

\* (mutant) the next turn, with no pop() before it.
DtorPopForgotten ==
    /\ Running /\ life = "callback" /\ life' = "notified"
    /\ UNCHANGED <<kind, que, waitSet, pc, lent, destroyed, clash, ended>>

\* and pop(), which takes what is in front by now: a caller may have been lent
\* the object of the callback, and then the one behind it is dropped unseen.
DtorPop ==
    /\ Running /\ life = "callback" /\ life' = "notified"
    /\ IF que = <<>>
       THEN ended' = "undefined" /\ UNCHANGED que
       ELSE que' = Tail(que) /\ UNCHANGED ended
    /\ UNCHANGED <<kind, waitSet, pc, lent, destroyed, clash>>

\* The members are destroyed; without a callback the queue is not drained, with
\* one it is drained to the end.
DtorEnds ==
    /\ Running /\ life = "notified" /\ life' = "gone"
    /\ destroyed # {} => que = <<>>
    /\ que' = <<>>
    /\ ended' = IF \E c \in Callers : Awake(c) THEN "undefined" ELSE "no"
    /\ UNCHANGED <<kind, waitSet, pc, lent, destroyed, clash>>

Over ==
    /\ ~Running \/ (life = "gone" /\ \A c \in Callers : pc[c] = "idle")
    /\ UNCHANGED vars

Next ==
    \/ \E c \in Callers :
        \/ CallAcquire(c) \/ Acquire(c) \/ AcquireNull(c) \/ Sleep(c)
        \/ GiveBack(c) \/ GiveBackThrows(c) \/ GiveBackTooLate(c) \/ Notify(c)
        \/ SpuriousWakeup(c)
    \/ DtorFlag \/ DtorNotifyAll \/ DtorTest \/ DtorCallback \/ DtorPop \/ DtorEnds
    \/ Over

------------------------------------------------------------------------------
TypeOK ==
    /\ kind \in {"ObjectPool", "BufferPool"}
    /\ que \in Seq(Objects)
    /\ waitSet \subseteq {c \in Callers : pc[c] = "acquire"}
    /\ pc \in [Callers -> {"idle", "acquire", "holding", "notify"}]
    /\ \A c \in Callers : lent[c] \in Objects <=> pc[c] = "holding"
    /\ life \in {"open", "flagged", "notified", "turn", "callback", "gone"}
    /\ destroyed \subseteq Objects /\ clash \subseteq Objects
    /\ ended \in {"no", "terminated", "undefined"}

\* No object has two borrowers, or is lent while it is queued.  destroy_callback_
\* gets nothing twice, and nothing that is lent, although the destructor waits
\* neither for what is lent nor for the callers it has woken: only the object of
\* a callback that is still running can be lent too, to one caller.  Until the
\* pool is gone it loses no object, unless a caller came into such a turn.
OneBorrowerPerObject ==
    /\ \A i, k \in DOMAIN que : que[i] = que[k] => i = k
    /\ \A c \in Callers : lent[c] \notin ToSet(que)
    /\ \A c, d \in Callers : lent[c] = lent[d] /\ lent[c] # Nothing => c = d
    /\ \A c \in Callers : lent[c] \in destroyed => lent[c] \in clash
    /\ ToSet(que) \intersect destroyed \subseteq
          (IF life = "callback" /\ que # <<>> THEN {Head(que)} ELSE {})
    /\ life # "gone" /\ clash = {} =>
          \A o \in Objects : o \in ToSet(que) \union destroyed \/ \E c \in Callers : lent[c] = o

\* Whoever may be asleep is woken for every object: on an open pool each queued
\* object has a caller or a notify coming for it, and nobody sleeps through the
\* destructor.
NobodySleepsBesideAnObject ==
    /\ waitSet # {} /\ life = "open" =>
        Len(que) <= Cardinality({c \in Callers : Awake(c)}) + Cardinality({c \in Callers : pc[c] = "notify"})
    /\ life \in {"notified", "turn", "callback", "gone"} => waitSet = {}
==============================================================================
