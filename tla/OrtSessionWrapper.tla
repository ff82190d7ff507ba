--------------------------- MODULE OrtSessionWrapper ---------------------------
(***************************************************************************)
(* The construction of a backend, include/backend/OrtSessionWrapper.h with *)
(* its base class InferenceBackend: options and execution providers, the   *)
(* choice of the model file, the session (which may save an optimized      *)
(* model, and may be killed while it does), the tensors over the input     *)
(* buffers, the warm-up turns, the tensors over the output buffers.  Each  *)
(* phase may throw, which leaves the constructor.                          *)
(*                                                                         *)
(* The buffers are those of a CUDA build: pool_ and gpu_output_buffer_,    *)
(* here as the queues they are (InferTensorBufferPool has their locking).  *)
(* A CPU build has one staging tensor for everybody.  ONNX Runtime is      *)
(* external: a provider is accepted or throws, a session is created from a *)
(* whole file, Run accepts the shapes the model declares and may throw.    *)
(***************************************************************************)
EXTENDS Integers, Sequences, FiniteSets

CONSTANTS
    None,
    BufferSize,     \* buffer_size
    MaxRunThrows    \* how often Run may throw (bound)

ASSUME BufferSizeAssumption == BufferSize \in Nat \ {0}
ASSUME ThrowsAssumption == MaxRunThrows \in Nat

VARIABLES
    build,      \* "cpu", or "cuda" with ENABLE_CUDA
    node,       \* the YAML node the constructor is given
    raw,        \* the input shape the model declares; -1 is a dynamic dimension
    disk,       \* the model file and the optimized file beside it
    phase,      \* where the constructor is
    ctor,       \* its local variables
    gpu,        \* is_gpu_active_
    inputShape, outputShape,        \* input_shapes_, output_shapes_
    inputTensors, outputTensors,    \* the keys of the tables of tensors
    pool, outPool,                  \* the queues of pool_ and gpu_output_buffer_
    turns,      \* warm-up turns done
    runThrown   \* how often Run has thrown

given == <<build, node, raw>>
shapes == <<inputShape, outputShape>>
tensors == <<inputTensors, outputTensors, pool, outPool>>
backendVars == <<given, disk, phase, ctor, gpu, shapes, tensors, turns, runThrown>>

------------------------------------------------------------------------------
InputSlices == [i \in 1 .. BufferSize |-> <<"in", i>>]
OutputSlices == [i \in 1 .. 2 * BufferSize |-> <<"out", i>>]
Staging == <<"staging", 1>>     \* tensorBuffer_, on the host
Own == <<"own", 1>>             \* input_tensor_ of a GPU backend, which no request uses

OptLevels == {"ORT_DISABLE_ALL", "ORT_ENABLE_BASIC", "ORT_ENABLE_EXTENDED", "ORT_ENABLE_ALL"}

\* The level looked up: the default is not in the table.
GraphOptimizationLevel == IF node.level = "absent" THEN "ORT_ENABLE_BASE" ELSE node.level

Channels == {1, 3, 4}

KnownLayout(shape) == shape[2] \in Channels \/ shape[4] \in Channels

\* Batch, channels, height, width; the configured size replaces every height that
\* is not 0, declared ones too.
ParseInputMeta(shape, size) ==
    LET nchw == IF shape[2] \in Channels
                THEN shape
                ELSE <<shape[1], shape[4], shape[2], shape[3]>>
    IN  IF nchw[3] # 0 THEN <<nchw[1], nchw[2], size[1], size[2]>> ELSE nchw

\* What Run checks of a tensor's shape.
Accepts(declared, shape) ==
    \A i \in DOMAIN declared : declared[i] = -1 \/ declared[i] = shape[i]

NoLocals == [tensorRT |-> FALSE, registered |-> {}, chosen |-> None, save |-> FALSE]

BackendInit ==
    /\ phase = "none"
    /\ ctor = NoLocals
    /\ gpu = FALSE
    /\ inputShape = None /\ outputShape = None
    /\ inputTensors = {} /\ outputTensors = {}
    /\ pool = <<>> /\ outPool = <<>>
    /\ turns = 0
    /\ runThrown = 0

\* An exception leaves the constructor.
Throws == phase' = "failed" /\ ctor' = NoLocals

------------------------------------------------------------------------------
\* Without execution_providers the second read of that key throws; a scalar is no
\* list and throws as well.
ReadOptions ==
    /\ phase = "options"
    /\ IF GraphOptimizationLevel \in OptLevels /\ node.given = "list"
       THEN phase' = "providers" /\ UNCHANGED ctor
       ELSE Throws
    /\ UNCHANGED <<given, disk, gpu, shapes, tensors, turns, runThrown>>

\* Of the providers asked for, TensorRT and CUDA are tried in a CUDA build; a
\* provider that throws is left out.
RegisterProviders ==
    /\ phase = "providers"
    /\ \E accepted \in SUBSET (IF build = "cuda"
                               THEN node.providers \intersect {"Tensorrt", "CUDA"} ELSE {}) :
        ctor' = [ctor EXCEPT !.registered = accepted, !.tensorRT = "Tensorrt" \in accepted]
    /\ phase' = "model"
    /\ UNCHANGED <<given, disk, gpu, shapes, tensors, turns, runThrown>>

\* With TensorRT the model itself; else the optimized file if there is one (of
\* whatever origin), else the model, whose optimized form is to be saved.
ChooseModel ==
    /\ phase = "model"
    /\ \/ /\ ctor.tensorRT
          /\ ctor' = [ctor EXCEPT !.chosen = "model"]
          /\ phase' = "session"
       \/ /\ ~ctor.tensorRT
          /\ disk.optimized # "absent"
          /\ ctor' = [ctor EXCEPT !.chosen = "optimized"]
          /\ phase' = "session"
       \/ /\ ~ctor.tensorRT
          /\ disk.optimized = "absent" /\ disk.model
          /\ ctor' = [ctor EXCEPT !.chosen = "model", !.save = TRUE]
          /\ phase' = "session"
       \/ /\ ~ctor.tensorRT
          /\ disk.optimized = "absent" /\ ~disk.model
          /\ Throws
    /\ UNCHANGED <<given, disk, gpu, shapes, tensors, turns, runThrown>>

CreateSession ==
    /\ phase = "session"
    /\ \/ /\ IF ctor.chosen = "model" THEN disk.model ELSE disk.optimized = "whole"
          /\ phase' = IF ctor.save THEN "saving" ELSE "device"
          /\ disk' = [disk EXCEPT !.optimized = IF ctor.save THEN "partial" ELSE @]
          /\ UNCHANGED ctor
       \/ /\ ~IF ctor.chosen = "model" THEN disk.model ELSE disk.optimized = "whole"
          /\ Throws
          /\ UNCHANGED disk
    /\ UNCHANGED <<given, gpu, shapes, tensors, turns, runThrown>>

SessionSaved ==
    /\ phase = "saving"
    /\ disk' = [disk EXCEPT !.optimized = "whole"]
    /\ phase' = "device"
    /\ UNCHANGED <<given, ctor, gpu, shapes, tensors, turns, runThrown>>

\* A provider of the session has a device allocator, or everything is on the CPU.
ResolveActiveDevice ==
    /\ phase = "device"
    /\ gpu' = (ctor.registered # {})
    /\ phase' = "shapes"
    /\ ctor' = NoLocals
    /\ UNCHANGED <<given, disk, shapes, tensors, turns, runThrown>>

ReadShapes ==
    /\ phase = "shapes"
    /\ IF KnownLayout(raw)
       THEN /\ phase' = "tensors"
            /\ inputShape' = [ParseInputMeta(raw, node.size) EXCEPT ![1] = node.batch]
            /\ UNCHANGED ctor
       ELSE Throws /\ UNCHANGED inputShape
    /\ UNCHANGED <<given, disk, gpu, outputShape, tensors, turns, runThrown>>

\* init makes the staging buffer and, in a CUDA build, pool_.  A GPU backend has
\* a tensor of its own and one per slice, a CPU one a tensor over the staging
\* buffer only.
InputTensorInit ==
    /\ phase = "tensors"
    /\ pool' = IF build = "cuda" THEN InputSlices ELSE <<>>
    /\ inputTensors' = IF gpu THEN {Own} \union {pool'[i] : i \in DOMAIN pool'} ELSE {Staging}
    /\ phase' = "warmup"
    /\ UNCHANGED <<given, disk, ctor, gpu, shapes, outputTensors, outPool, turns, runThrown>>

WarmUpBuffer == IF build = "cuda" THEN Head(pool) ELSE Staging

\* (mutant) infer leaves the release to its caller, as YoloDetector's pools do.
WarmUpTurnKeepsBuffer ==
    /\ phase = "warmup"
    /\ turns < node.warmUp
    /\ build = "cuda" => pool # <<>>
    /\ WarmUpBuffer \in inputTensors
    /\ Accepts(raw, inputShape)
    /\ pool' = IF build = "cuda" THEN Tail(pool) ELSE pool
    /\ turns' = turns + 1
    /\ UNCHANGED <<given, disk, phase, ctor, gpu, shapes, inputTensors, outputTensors, outPool,
                   runThrown>>

\* A turn of warm_up: acquire a buffer, infer finds its tensor, runs, releases.
WarmUpTurn ==
    /\ phase = "warmup"
    /\ turns < node.warmUp
    /\ build = "cuda" => pool # <<>>
    /\ WarmUpBuffer \in inputTensors
    /\ Accepts(raw, inputShape)
    /\ pool' = IF build = "cuda" THEN Append(Tail(pool), Head(pool)) ELSE pool
    /\ turns' = turns + 1
    /\ UNCHANGED <<given, disk, phase, ctor, gpu, shapes, inputTensors, outputTensors, outPool,
                   runThrown>>

\* "not found" in a CUDA build that fell back to the CPU; Run refuses the shape.
WarmUpThrows ==
    /\ phase = "warmup"
    /\ turns < node.warmUp
    /\ WarmUpBuffer \notin inputTensors \/ ~Accepts(raw, inputShape)
    /\ Throws
    /\ UNCHANGED <<given, disk, gpu, shapes, tensors, turns, runThrown>>

\* Run throws for a reason of its own.
WarmUpRunThrows ==
    /\ phase = "warmup"
    /\ turns < node.warmUp
    /\ WarmUpBuffer \in inputTensors
    /\ runThrown < MaxRunThrows
    /\ runThrown' = runThrown + 1
    /\ Throws
    /\ UNCHANGED <<given, disk, gpu, shapes, tensors, turns>>

\* The output shape is that of the first turn's result.  Without a turn primary
\* reads the first element of an empty map: the assertion, or in a release build
\* the null node behind begin, ends the process.
WarmUpEnds ==
    /\ phase = "warmup"
    /\ turns = node.warmUp
    /\ IF turns = 0
       THEN phase' = "crashed" /\ UNCHANGED outputShape
       ELSE phase' = "outputs" /\ outputShape' = "known"
    /\ turns' = 0
    /\ UNCHANGED <<given, disk, ctor, gpu, inputShape, tensors, runThrown>>

OutputTensorInit ==
    /\ phase = "outputs"
    /\ outPool' = IF build = "cuda" THEN OutputSlices ELSE <<>>
    /\ outputTensors' = {outPool'[i] : i \in DOMAIN outPool'}
    /\ phase' = "ready"
    /\ UNCHANGED <<given, disk, ctor, gpu, shapes, inputTensors, pool, turns, runThrown>>

Construct ==
    \/ ReadOptions \/ RegisterProviders \/ ChooseModel \/ CreateSession \/ SessionSaved
    \/ ResolveActiveDevice \/ ReadShapes \/ InputTensorInit
    \/ WarmUpTurn \/ WarmUpThrows \/ WarmUpRunThrows \/ WarmUpEnds
    \/ OutputTensorInit

BackendTypeOK ==
    /\ build \in {"cpu", "cuda"}
    /\ phase \in {"none", "options", "providers", "model", "session", "saving", "device", "shapes",
                  "tensors", "warmup", "outputs", "ready", "failed", "crashed"}
    /\ disk.optimized \in {"absent", "partial", "whole"}
    /\ Len(pool) <= BufferSize
    /\ runThrown \in 0 .. MaxRunThrows
    /\ turns <= node.warmUp
==============================================================================
