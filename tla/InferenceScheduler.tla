-------------------------- MODULE InferenceScheduler --------------------------
(***************************************************************************)
(* What include/scheduler/InferenceScheduler.h promises of every           *)
(* scheduler: submit returns a future, and that future becomes ready once. *)
(* It ends with the result, with the exception of a stage that threw, or   *)
(* broken, if the scheduler dropped the promise.                           *)
(***************************************************************************)
CONSTANT Requests

VARIABLES outcome, open

schedulerVars == <<outcome, open>>

Settled == {"value", "exception", "broken"}

SchedulerInit ==
    /\ outcome = [r \in Requests |-> "none"]
    /\ open = TRUE

Submit(r) ==
    /\ open
    /\ outcome[r] = "none"
    /\ outcome' = [outcome EXCEPT ![r] = "pending"]
    /\ UNCHANGED open

\* One step may settle several requests: a batch, or promises dropped together.
Settle ==
    /\ outcome' \in [Requests -> {"none", "pending"} \union Settled]
    /\ \A r \in Requests :
        outcome'[r] = outcome[r] \/ (outcome[r] = "pending" /\ outcome'[r] \in Settled)
    /\ UNCHANGED open

Stop ==
    /\ open
    /\ open' = FALSE
    /\ UNCHANGED outcome

SchedulerNext == (\E r \in Requests : Submit(r)) \/ Settle \/ Stop

SchedulerSpec == SchedulerInit /\ [][SchedulerNext]_schedulerVars
==============================================================================
