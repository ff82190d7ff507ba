------------------------------ MODULE GpuFilter ------------------------------
(***************************************************************************)
(* src/device/gpu_filter.cu, filter_and_compact_kernel for one image: a    *)
(* thread per prediction, in blocks that start in any order and do not     *)
(* wait for each other.  The first thread of the first block resets the    *)
(* counter; a candidate's slot comes from atomicAdd.  The reference is the *)
(* selection loop of YoloDetector::postprocess in a CPU build.             *)
(*                                                                         *)
(* The grid covers all predictions, so that the grid-stride loop makes at  *)
(* most one turn.  Of a prediction only the scores of its classes matter.  *)
(***************************************************************************)
EXTENDS Integers, FiniteSets, FiniteSetsExt

CONSTANTS
    Predictions,      \* num_predictions
    ThreadsPerBlock,  \* blockDim.x, 256 in the code
    MaxDet,           \* max_det
    Classes,          \* num_classes
    Scores,           \* the scores a class may have
    Thresholds        \* conf_thresh

VARIABLES
    scores, threshold,
    count,       \* count[bid], with what an earlier call left in it
    slots,       \* output
    at,          \* each thread: "reset", "barrier", "scan", "write", "done"
    claimed,     \* the slot a thread got from atomicAdd
    resetDone,
    countedEarly \* history: something was counted before the reset

vars == <<scores, threshold, count, slots, at, claimed, resetDone, countedEarly>>

Empty == <<>>
ScoreVectors == [1 .. Classes -> Scores]

\* launch_filter_and_compact: enough blocks for all predictions.
Blocks == 0 .. (Predictions + ThreadsPerBlock - 1) \div ThreadsPerBlock - 1
Threads == Blocks \X (0 .. ThreadsPerBlock - 1)
Index(t) == t[2] + t[1] * ThreadsPerBlock

Init ==
    /\ scores \in [0 .. Predictions - 1 -> ScoreVectors]
    /\ threshold \in Thresholds
    /\ count \in {0, 1}
    /\ slots = [s \in 0 .. MaxDet - 1 |-> Empty]
    /\ at = [t \in Threads |-> IF t = <<0, 0>> THEN "reset" ELSE "barrier"]
    /\ claimed = [t \in Threads |-> 0]
    /\ resetDone = FALSE /\ countedEarly = FALSE

\* The first class with the largest score, if that is above the start value.
Best(vector, start) ==
    LET top == Max({vector[c] : c \in DOMAIN vector} \union {start.score})
    IN  IF top = start.score THEN start
        ELSE [score |-> top, class |-> Min({c \in DOMAIN vector : vector[c] = top})]

\* The kernel's search starts below any score and at no class; the CPU's at score 0
\* and at the first class.
KernelBest(i) == Best(scores[i], [score |-> -1, class |-> -1])
CpuBest(i) == Best(scores[i], [score |-> 0, class |-> 1])

IsCandidate(t) == Index(t) < Predictions /\ KernelBest(Index(t)).score >= threshold

Reset ==
    /\ at[<<0, 0>>] = "reset"
    /\ count' = 0
    /\ resetDone' = TRUE
    /\ at' = [at EXCEPT ![<<0, 0>>] = "barrier"]
    /\ UNCHANGED <<scores, threshold, slots, claimed, countedEarly>>

\* __syncthreads: the threads of one block.
Synchronise(b) ==
    /\ \A t \in Threads : t[1] = b => at[t] = "barrier"
    /\ at' = [t \in Threads |-> IF t[1] = b THEN "scan" ELSE at[t]]
    /\ UNCHANGED <<scores, threshold, count, slots, claimed, resetDone, countedEarly>>

Skip(t) ==
    /\ at[t] = "scan" /\ ~IsCandidate(t)
    /\ at' = [at EXCEPT ![t] = "done"]
    /\ UNCHANGED <<scores, threshold, count, slots, claimed, resetDone, countedEarly>>

\* (mutant) a plain count++: of two that overlap one is lost.
ClaimWithoutAtomic(t) ==
    /\ at[t] = "scan" /\ IsCandidate(t)
    /\ claimed' = [claimed EXCEPT ![t] = count]
    /\ count' = IF \E u \in Threads : at[u] = "write" THEN count ELSE count + 1
    /\ countedEarly' = (countedEarly \/ ~resetDone)
    /\ at' = [at EXCEPT ![t] = "write"]
    /\ UNCHANGED <<scores, threshold, slots, resetDone>>

\* atomicAdd(&count[bid], 1).
Claim(t) ==
    /\ at[t] = "scan" /\ IsCandidate(t)
    /\ claimed' = [claimed EXCEPT ![t] = count]
    /\ count' = count + 1
    /\ countedEarly' = (countedEarly \/ ~resetDone)
    /\ at' = [at EXCEPT ![t] = "write"]
    /\ UNCHANGED <<scores, threshold, slots, resetDone>>

Detection(i, best) == [prediction |-> i, score |-> best.score, class |-> best.class]

\* A candidate beyond max_det is counted and not written.
Write(t) ==
    /\ at[t] = "write"
    /\ slots' = IF claimed[t] < MaxDet
                THEN [slots EXCEPT ![claimed[t]] = Detection(Index(t), KernelBest(Index(t)))]
                ELSE slots
    /\ at' = [at EXCEPT ![t] = "done"]
    /\ UNCHANGED <<scores, threshold, count, claimed, resetDone, countedEarly>>

Finished == \A t \in Threads : at[t] = "done"
Over == Finished /\ UNCHANGED vars

Next ==
    \/ Reset
    \/ \E b \in Blocks : Synchronise(b)
    \/ \E t \in Threads : Skip(t) \/ Claim(t) \/ Write(t)
    \/ Over

Spec == Init /\ [][Next]_vars

------------------------------------------------------------------------------
\* What the loop of the CPU build selects by its score, in a search that starts at 0.
\* (It also leaves out a box that is empty once decoded, as the CUDA build does not:
\* YoloPostprocess of ImageGeometry.)
Candidates ==
    {Detection(i, CpuBest(i)) : i \in {j \in 0 .. Predictions - 1 : CpuBest(j).score >= threshold}}

\* What postprocess reads after it has clamped the count.
Kept == {slots[s] : s \in 0 .. Min({count, MaxDet}) - 1}

Compacted ==
    /\ count = Cardinality(Candidates)
    /\ Kept \subseteq Candidates
    /\ Cardinality(Kept) = Min({count, MaxDet})

\* The comment at gpu_filter.cu:26-27, that the fence and the block's barrier are
\* enough for every block to see the reset counter: the finished kernel leaves
\* exactly the CPU's candidates.
CompactedExactly == Finished => Compacted

\* The reset is all that can go wrong: a kernel that counted nothing before it
\* leaves exactly the candidates the CPU selects, each once, with the CPU's class
\* and score, or max_det of them.
CompactedUnlessCountedEarly == Finished /\ ~countedEarly => Compacted
==============================================================================
