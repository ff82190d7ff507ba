--------------------------- MODULE ThreadSafeQueue ---------------------------
(***************************************************************************)
(* include/thread/ThreadSafeQueue.h: a queue with an optional capacity,    *)
(* one mutex and two condition variables.  Push, Pop and TryPop notify     *)
(* after they have unlocked; Close sets its flag and then wakes everybody, *)
(* first on not_empty_, then on not_full_.  Of the elements only their     *)
(* number is kept.                                                         *)
(***************************************************************************)
EXTENDS Naturals, FiniteSets

CONSTANTS
    Producers, Consumers,
    Capacities,  \* what the queue may be constructed with; kUnbounded is 0
    MaxSize      \* bounds an unbounded queue

VARIABLES
    capacity,
    size,        \* queue_.size()
    isClose,     \* is_close_
    notFull,     \* the producers asleep in not_full_.wait
    notEmpty,    \* the consumers asleep in not_empty_.wait
    pc,          \* "idle", "push" or "pop" (in the call), "notify"
    closer       \* Close: "none", "notEmpty", "notFull", "done"

vars == <<capacity, size, isClose, notFull, notEmpty, pc, closer>>

kUnbounded == 0
Full == capacity # kUnbounded /\ size = capacity

Init ==
    /\ capacity \in Capacities
    /\ size = 0
    /\ isClose = FALSE
    /\ notFull = {} /\ notEmpty = {}
    /\ pc = [t \in Producers \union Consumers |-> "idle"]
    /\ closer = "none"

Goto(t, l) == pc' = [pc EXCEPT ![t] = l]

Call(t, l) ==
    /\ pc[t] = "idle" /\ Goto(t, l)
    /\ UNCHANGED <<capacity, size, isClose, notFull, notEmpty, closer>>

\* notify_one.
WakeOne(sleepers, sleepersNext) ==
    \/ \E d \in sleepers : sleepersNext = sleepers \ {d}
    \/ sleepers = {} /\ sleepersNext = {}

PushSleep(t) ==
    /\ pc[t] = "push" /\ t \notin notFull
    /\ Full /\ ~isClose
    /\ notFull' = notFull \union {t}
    /\ UNCHANGED <<capacity, size, isClose, notEmpty, pc, closer>>

PushRefused(t) ==
    /\ pc[t] = "push" /\ t \notin notFull
    /\ isClose
    /\ Goto(t, "idle")
    /\ UNCHANGED <<capacity, size, isClose, notFull, notEmpty, closer>>

Push(t) ==
    /\ pc[t] = "push" /\ t \notin notFull
    /\ ~Full /\ ~isClose
    /\ capacity = kUnbounded => size < MaxSize
    /\ size' = size + 1
    /\ Goto(t, "notify")
    /\ UNCHANGED <<capacity, isClose, notFull, notEmpty, closer>>

PushNotify(t) ==
    /\ t \in Producers /\ pc[t] = "notify"
    /\ WakeOne(notEmpty, notEmpty')
    /\ Goto(t, "idle")
    /\ UNCHANGED <<capacity, size, isClose, notFull, closer>>

PopSleep(t) ==
    /\ pc[t] = "pop" /\ t \notin notEmpty
    /\ size = 0 /\ ~isClose
    /\ notEmpty' = notEmpty \union {t}
    /\ UNCHANGED <<capacity, size, isClose, notFull, pc, closer>>

PopRefused(t) ==
    /\ pc[t] = "pop" /\ t \notin notEmpty
    /\ size = 0 /\ isClose
    /\ Goto(t, "idle")
    /\ UNCHANGED <<capacity, size, isClose, notFull, notEmpty, closer>>

\* A closed queue still gives out what it has.
Pop(t) ==
    /\ pc[t] = "pop" /\ t \notin notEmpty
    /\ size > 0
    /\ size' = size - 1
    /\ Goto(t, "notify")
    /\ UNCHANGED <<capacity, isClose, notFull, notEmpty, closer>>

\* (mutant) a TryPop that does not tell the producers.
TryPopSilently(t) ==
    /\ pc[t] = "idle" /\ t \in Consumers
    /\ size > 0
    /\ size' = size - 1
    /\ UNCHANGED <<capacity, isClose, notFull, notEmpty, pc, closer>>

\* TryPop never waits; from an empty queue it returns false.
TryPop(t) ==
    /\ pc[t] = "idle" /\ t \in Consumers
    /\ size > 0
    /\ size' = size - 1
    /\ Goto(t, "notify")
    /\ UNCHANGED <<capacity, isClose, notFull, notEmpty, closer>>

PopNotify(t) ==
    /\ t \in Consumers /\ pc[t] = "notify"
    /\ WakeOne(notFull, notFull')
    /\ Goto(t, "idle")
    /\ UNCHANGED <<capacity, size, isClose, notEmpty, closer>>

SpuriousWakeup(t) ==
    /\ t \in notFull \union notEmpty
    /\ notFull' = notFull \ {t} /\ notEmpty' = notEmpty \ {t}
    /\ UNCHANGED <<capacity, size, isClose, pc, closer>>

CloseFlag ==
    /\ closer = "none" /\ closer' = "notEmpty"
    /\ isClose' = TRUE
    /\ UNCHANGED <<capacity, size, notFull, notEmpty, pc>>

CloseNotifyEmpty ==
    /\ closer = "notEmpty" /\ closer' = "notFull"
    /\ notEmpty' = {}
    /\ UNCHANGED <<capacity, size, isClose, notFull, pc>>

CloseNotifyFull ==
    /\ closer = "notFull" /\ closer' = "done"
    /\ notFull' = {}
    /\ UNCHANGED <<capacity, size, isClose, notEmpty, pc>>

Next ==
    \/ \E t \in Producers :
        Call(t, "push") \/ PushSleep(t) \/ PushRefused(t) \/ Push(t) \/ PushNotify(t)
    \/ \E t \in Consumers :
        \/ Call(t, "pop") \/ PopSleep(t) \/ PopRefused(t) \/ Pop(t)
        \/ TryPop(t) \/ PopNotify(t)
    \/ \E t \in Producers \union Consumers : SpuriousWakeup(t)
    \/ CloseFlag \/ CloseNotifyEmpty \/ CloseNotifyFull

------------------------------------------------------------------------------
TypeOK ==
    /\ capacity \in Capacities
    /\ size \in 0 .. (IF capacity = kUnbounded THEN MaxSize ELSE capacity)
    /\ isClose = (closer # "none")
    /\ closer \in {"none", "notEmpty", "notFull", "done"}
    /\ pc \in [Producers \union Consumers -> {"idle", "push", "pop", "notify"}]
    /\ notFull \subseteq {t \in Producers : pc[t] = "push"}
    /\ notEmpty \subseteq {t \in Consumers : pc[t] = "pop"}

At(T, l) == {t \in T : pc[t] = l}

\* Nobody sleeps beside work, although the notifications come after the unlock:
\* while a consumer sleeps on an open queue each element has a consumer or a
\* notify coming for it, while a producer sleeps each free place has; and nobody
\* sleeps through Close.
NobodyWaitsBesideWork ==
    /\ notEmpty # {} /\ ~isClose =>
        size <= Cardinality(At(Consumers, "pop") \ notEmpty) + Cardinality(At(Producers, "notify"))
    /\ notFull # {} /\ ~isClose =>
        capacity - size <= Cardinality(At(Producers, "push") \ notFull) + Cardinality(At(Consumers, "notify"))
    /\ closer \in {"notFull", "done"} => notEmpty = {}
    /\ closer = "done" => notFull = {}
==============================================================================
