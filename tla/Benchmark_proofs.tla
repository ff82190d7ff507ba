---------------------------- MODULE Benchmark_proofs ----------------------------
(***************************************************************************)
(* Theorems about a backend, its SyncScheduler and the two programs that   *)
(* use them, for any command line, configuration, model shape, files,      *)
(* buffer_size, requests and clients.                                      *)
(*                                                                         *)
(* The inductive invariant is Inv.  Construction and Pools follow the      *)
(* constructor from phase to phase: a warm-up turn that succeeds shows     *)
(* that shape and device are right, and gives back what it took, so that   *)
(* a ready backend has all its buffers.  Queue ties the futures to the     *)
(* queue and the worker's task; Data says whose data the worker's buffers  *)
(* hold at each place of its loop; Tool, that the constructor runs while   *)
(* main waits for it.                                                      *)
(***************************************************************************)
EXTENDS MCBenchmark, QueueLemmas

\* The words of a command line or a configuration, as far as the code tells them
\* apart ("other" stands for the rest).
Words == {"absent", "other", "", "sync", "async", "Tensorrt", "CUDA", "CPU"}

\* What the tool may be started with: arguments, configuration, files and model.
Configs ==
    [level : OptLevels \union {"absent", "other"}, given : {"absent", "scalar", "list"},
     providers : SUBSET Words, warmUp : Nat, size : Nat \X Nat, batch : Nat]
CommandLines ==
    [mode : Words, filesExist : BOOLEAN,
     override : [warmUp : Nat \union {-1}, providers : Words]]
Disks == [model : BOOLEAN, optimized : {"absent", "partial", "whole"}]

Start ==
    /\ aspect \in {"benchmark", "owner"}
    /\ build \in {"cpu", "cuda"} /\ runner \in {"yolo", "nafnet"}
    /\ cli \in CommandLines /\ base \in Configs /\ node = base /\ disk \in Disks
    /\ BackendInit /\ SyncInit /\ BenchmarkInit

System == Start /\ [][MCNext]_allVars

InSlices == {InputSlices[i] : i \in DOMAIN InputSlices}
OutSlices == {OutputSlices[i] : i \in DOMAIN OutputSlices}

\* The phases of the constructor, and those in which the constructor runs.
Constructing == {"options", "providers", "model", "session", "saving", "device", "shapes",
                 "tensors", "warmup", "outputs"}
Phases == Constructing \union {"none", "ready", "failed", "crashed"}

Locals == [tensorRT : BOOLEAN, registered : SUBSET Words, chosen : {"model", "optimized", None},
           save : BOOLEAN]

Distinct(q) == \A i, k \in DOMAIN q : q[i] = q[k] => i = k

Holding == {w \in Workers : lent[w] # None}

Inputs ==
    /\ build \in {"cpu", "cuda"}
    /\ cli \in CommandLines /\ base \in Configs /\ node \in Configs /\ disk \in Disks

Construction ==
    /\ phase \in Phases
    /\ ctor \in Locals /\ (ctor.registered # {} => build = "cuda")
    /\ gpu \in BOOLEAN /\ (gpu => build = "cuda")
    /\ turns \in Nat /\ turns <= node.warmUp /\ (turns # 0 => phase \in {"warmup", "failed"})
    /\ runThrown \in 0 .. MaxRunThrows /\ (runThrown # 0 => phase \in {"failed", "ready"})
    /\ (phase = "warmup" /\ turns # 0) \/ phase \in {"outputs", "ready"} =>
        Accepts(raw, inputShape) /\ gpu = (build = "cuda")
    /\ phase \in {"outputs", "ready"} => outputShape = "known"

Pools ==
    /\ pool \in Seq(InSlices) /\ Len(pool) <= BufferSize
    /\ build = "cpu" => pool = <<>>
    /\ phase \in {"warmup", "outputs", "ready"} =>
        inputTensors = IF gpu THEN {Own} \union InSlices ELSE {Staging}
    /\ phase \in {"warmup", "outputs"} /\ build = "cuda" => Len(pool) = BufferSize
    /\ phase = "ready" =>
        /\ build = "cuda" => Len(pool) + Cardinality(Holding) + runThrown = BufferSize
        /\ build = "cpu" => outPool = <<>>
        /\ outPool \in Seq(OutSlices)
        /\ build = "cuda" => outputTensors = OutSlices

Queue ==
    /\ life \in {"none", "alive", "joined"} /\ isClose \in BOOLEAN
    /\ tasks \in Seq(Requests) /\ Distinct(tasks)
    /\ outcome \in [Requests -> {"none", "pending", "value", "exception"}]
    /\ wpc \in [Workers -> {"idle", "preparing", "staged", "prepared", "running", "posting", "exited"}]
    /\ job \in [Workers -> Requests \union {None}]
    /\ \A w \in Workers :
        /\ (job[w] = None) = (wpc[w] \in {"idle", "exited"})
        /\ job[w] \notin Items(tasks)
        /\ wpc[w] = "exited" => isClose /\ tasks = <<>>
        /\ life = "none" => wpc[w] = "idle"
        /\ life = "joined" => wpc[w] = "exited"
    /\ \A r \in Requests :
        outcome[r] = "pending" => r \in Items(tasks) \/ \E w \in Workers : job[w] = r
    /\ \A r \in Items(tasks) : outcome[r] = "pending"
    /\ \A w \in Workers : job[w] # None => outcome[job[w]] = "pending"
    /\ life = "none" => tasks = <<>> /\ ~isClose
    /\ life = "joined" => isClose
    /\ life # "none" => phase = "ready"

Data ==
    /\ lent \in [Workers -> Buffers \union {None}]
    /\ out \in [Workers -> Buffers \union {None}]
    /\ holds \in [Buffers -> Requests \union {None}]
    /\ answer \in [Requests -> Requests \union {None}]
    /\ \A w \in Workers :
        /\ (lent[w] # None) = (wpc[w] \in {"prepared", "running"})
        /\ (out[w] # None) = (wpc[w] \in {"running", "posting"})
        /\ wpc[w] = "staged" => holds[Staging] = job[w] /\ build = "cuda"
        /\ lent[w] # None => holds[lent[w]] = job[w] /\ lent[w] \in IF build = "cuda" THEN InSlices ELSE {Staging}
        /\ out[w] # None => out[w] \in IF build = "cuda" THEN OutSlices ELSE {<<"ort", w>>}
        /\ wpc[w] = "posting" => holds[out[w]] = job[w]
    /\ EachGetsItsOwn

Tool ==
    /\ exit \in {"none", "0", "1", "aborted"} /\ (exit = "none") = (main # "over")
    /\ main = "arguments" => phase = "none"
    /\ phase \in Constructing => main = "constructing"

Serving == Inputs /\ Construction /\ Pools /\ Queue /\ Data

Inv == Serving /\ Tool
------------------------------------------------------------------------------
(* Buffers and workers. *)

\* The kinds of buffers are apart, and all are buffers.
LEMMA Slices ==
    /\ InputSlices \in Seq(InSlices) /\ Len(InputSlices) = BufferSize
    /\ OutputSlices \in Seq(OutSlices)
    /\ InSlices \subseteq Buffers /\ OutSlices \subseteq Buffers /\ Staging \in Buffers
    /\ \A w \in Workers : <<"ort", w>> \in Buffers
    /\ Staging \notin InSlices /\ Staging # Own
    /\ None \notin Buffers
<1>1. InputSlices \in Seq(InSlices) /\ Len(InputSlices) = BufferSize
  <2>1. DOMAIN InputSlices = 1 .. BufferSize
    BY DEF InputSlices
  <2>2. \A i \in 1 .. BufferSize : InputSlices[i] \in InSlices
    BY <2>1 DEF InSlices
  <2>3. InputSlices = [i \in 1 .. BufferSize |-> InputSlices[i]]
    BY DEF InputSlices
  <2>4. InputSlices \in [1 .. BufferSize -> InSlices]
    BY <2>2, <2>3
  <2> QED BY <2>4, BufferSizeAssumption, LenProperties
<1>2. OutputSlices \in Seq(OutSlices)
  <2>1. DOMAIN OutputSlices = 1 .. 2 * BufferSize
    BY DEF OutputSlices
  <2>2. \A i \in 1 .. 2 * BufferSize : OutputSlices[i] \in OutSlices
    BY <2>1 DEF OutSlices
  <2>3. OutputSlices = [i \in 1 .. 2 * BufferSize |-> OutputSlices[i]]
    BY DEF OutputSlices
  <2>4. OutputSlices \in [1 .. 2 * BufferSize -> OutSlices]
    BY <2>2, <2>3
  <2> DEFINE n == 2 * BufferSize
  <2>5. n \in Nat
    BY BufferSizeAssumption
  <2> QED BY <2>4, <2>5
<1>3. /\ InSlices \subseteq Buffers /\ OutSlices \subseteq Buffers /\ Staging \in Buffers
      /\ \A w \in Workers : <<"ort", w>> \in Buffers
    BY DEF InSlices, OutSlices, Buffers
<1>4. Staging \notin InSlices /\ Staging # Own
    BY DEF InSlices, InputSlices, Staging, Own
<1> QED BY <1>1, <1>2, <1>3, <1>4, NoneAssumption

\* There is one worker.
LEMMA OneWorker ==
    ASSUME NEW w \in Workers
    PROVE  /\ \A v \in Workers : v = w
           /\ \A f : Cardinality({v \in Workers : f[v] # None}) = IF f[w] = None THEN 0 ELSE 1
<1>1. Workers = {w}
    BY DEF Workers
<1>2. ASSUME NEW f PROVE Cardinality({v \in Workers : f[v] # None}) = IF f[w] = None THEN 0 ELSE 1
  <2>1. {v \in Workers : f[v] # None} = IF f[w] = None THEN {} ELSE {w}
    BY <1>1
  <2> QED BY <2>1, FS_EmptySet, FS_Singleton
<1> QED BY <1>1, <1>2

\* What a queue holds after push and after pop.
LEMMA Queued ==
    /\ \A S, q, x : q \in Seq(S) /\ x \in S =>
        Append(q, x) \in Seq(S) /\ Len(Append(q, x)) = Len(q) + 1 /\ Append(q, x) # <<>>
    /\ \A S, q : q \in Seq(S) /\ q # <<>> =>
        /\ Tail(q) \in Seq(S) /\ Head(q) \in S /\ Len(q) \in Nat \ {0} /\ Len(Tail(q)) = Len(q) - 1
<1>1. ASSUME NEW S, NEW q \in Seq(S), NEW x \in S
      PROVE  Append(q, x) \in Seq(S) /\ Len(Append(q, x)) = Len(q) + 1 /\ Append(q, x) # <<>>
    BY AppendElements
<1>2. ASSUME NEW S, NEW q \in Seq(S), q # <<>>
      PROVE  Tail(q) \in Seq(S) /\ Head(q) \in S /\ Len(q) \in Nat \ {0} /\ Len(Tail(q)) = Len(q) - 1
    BY <1>2, TailElements
<1> QED BY <1>1, <1>2

------------------------------------------------------------------------------
(* The constructor. *)

\* While there is no scheduler, the phases of the constructor do not concern it.
LEMMA WorkUnconcerned ==
    ASSUME Queue, Data, phase # "ready", UNCHANGED syncVars, build' = build
    PROVE  Queue' /\ Data'
<1>1. life = "none"
    BY DEF Queue
<1>2. Queue'
    BY <1>1 DEF Queue, syncVars, work, Distinct, Items
<1>3. Data'
    BY DEF Data, syncVars, work, EachGetsItsOwn
<1> QED BY <1>2, <1>3

\* The options are read, or an exception leaves the constructor.
LEMMA ReadOptionsInv ==
    ASSUME Inv, ReadOptions, UNCHANGED <<benchVars, syncVars>>
    PROVE  Inv'
<1> USE DEF Inv, Serving
<1>1. Inputs' /\ node \in Configs /\ node.warmUp \in Nat
    BY DEF ReadOptions, given, shapes, tensors, Throws, NoLocals, benchVars, Inputs, Disks, Configs
<1>2. Queue' /\ Data'
    BY WorkUnconcerned DEF ReadOptions, given, shapes, tensors, Throws, NoLocals
<1>3. Construction'
  <2>1. ctor' \in Locals /\ (ctor'.registered # {} => build' = "cuda")
    <3>1. CASE ctor' = ctor
      BY <3>1 DEF ReadOptions, given, Construction
    <3>2. CASE ctor' = NoLocals
      BY <3>2 DEF NoLocals, Locals
    <3> QED BY <3>1, <3>2 DEF ReadOptions, Throws
  <2> QED BY <1>1, <2>1 DEF ReadOptions, given, shapes, tensors, Throws, Construction, Phases, Constructing
<1>4. Pools'
    BY <1>1 DEF ReadOptions, given, shapes, tensors, Throws, NoLocals, Pools
<1>5. Tool'
    BY <1>1 DEF ReadOptions, given, shapes, tensors, Throws, NoLocals, Tool, benchVars, Constructing
<1> QED BY <1>1, <1>2, <1>3, <1>4, <1>5

\* Only a CUDA build registers a provider.
LEMMA RegisterProvidersInv ==
    ASSUME Inv, RegisterProviders, UNCHANGED <<benchVars, syncVars>>
    PROVE  Inv'
<1> USE DEF Inv, Serving
<1>1. Inputs' /\ node \in Configs /\ node.warmUp \in Nat
    BY DEF RegisterProviders, given, shapes, tensors, Throws, NoLocals, benchVars, Inputs, Disks, Configs
<1>2. Queue' /\ Data'
    BY WorkUnconcerned DEF RegisterProviders, given, shapes, tensors, Throws, NoLocals
<1>3. Construction'
  <2>1. PICK accepted \in SUBSET (IF build = "cuda" THEN node.providers \intersect {"Tensorrt", "CUDA"} ELSE {}) :
            ctor' = [ctor EXCEPT !.registered = accepted, !.tensorRT = "Tensorrt" \in accepted]
    BY DEF RegisterProviders
  <2>2. accepted \in SUBSET Words /\ (accepted # {} => build = "cuda") /\ ("Tensorrt" \in accepted) \in BOOLEAN
    <3>1. node.providers \subseteq Words
      BY <1>1 DEF Configs
    <3>2. accepted \subseteq node.providers /\ (accepted # {} => build = "cuda")
      OBVIOUS
    <3>3. ("Tensorrt" \in accepted) \in BOOLEAN
      OBVIOUS
    <3> QED BY <3>1, <3>2, <3>3
  <2>3. ctor' \in Locals
    BY <2>1, <2>2 DEF Locals, Construction
  <2>4. ctor'.registered = accepted
    BY <2>1 DEF Locals, Construction
  <2>5. ctor' \in Locals /\ (ctor'.registered # {} => build' = "cuda")
    BY <2>2, <2>3, <2>4 DEF RegisterProviders, given
  <2> QED BY <1>1, <2>5 DEF RegisterProviders, given, shapes, tensors, Throws, Construction, Phases, Constructing
<1>4. Pools'
    BY <1>1 DEF RegisterProviders, given, shapes, tensors, Throws, NoLocals, Pools
<1>5. Tool'
    BY <1>1 DEF RegisterProviders, given, shapes, tensors, Throws, NoLocals, Tool, benchVars, Constructing
<1> QED BY <1>1, <1>2, <1>3, <1>4, <1>5

\* A file is chosen, or none is there.
LEMMA ChooseModelInv ==
    ASSUME Inv, ChooseModel, UNCHANGED <<benchVars, syncVars>>
    PROVE  Inv'
<1> USE DEF Inv, Serving
<1>1. Inputs' /\ node \in Configs /\ node.warmUp \in Nat
    BY DEF ChooseModel, given, shapes, tensors, Throws, NoLocals, benchVars, Inputs, Disks, Configs
<1>2. Queue' /\ Data'
    BY WorkUnconcerned DEF ChooseModel, given, shapes, tensors, Throws, NoLocals
<1>3. Construction'
  <2>1. ctor' \in Locals /\ (ctor'.registered # {} => build' = "cuda")
    <3>1. CASE ctor' = NoLocals
      BY <3>1 DEF NoLocals, Locals
    <3>2. CASE ctor' = [ctor EXCEPT !.chosen = "model"]
      BY <3>2 DEF ChooseModel, given, Locals, Construction
    <3>3. CASE ctor' = [ctor EXCEPT !.chosen = "optimized"]
      BY <3>3 DEF ChooseModel, given, Locals, Construction
    <3>4. CASE ctor' = [ctor EXCEPT !.chosen = "model", !.save = TRUE]
      BY <3>4 DEF ChooseModel, given, Locals, Construction
    <3> QED BY <3>1, <3>2, <3>3, <3>4 DEF ChooseModel, Throws
  <2> QED BY <1>1, <2>1 DEF ChooseModel, given, shapes, tensors, Throws, Construction, Phases, Constructing
<1>4. Pools'
    BY <1>1 DEF ChooseModel, given, shapes, tensors, Throws, NoLocals, Pools
<1>5. Tool'
    BY <1>1 DEF ChooseModel, given, shapes, tensors, Throws, NoLocals, Tool, benchVars, Constructing
<1> QED BY <1>1, <1>2, <1>3, <1>4, <1>5

\* A session is created.
LEMMA CreateSessionInv ==
    ASSUME Inv, CreateSession, UNCHANGED <<benchVars, syncVars>>
    PROVE  Inv'
<1> USE DEF Inv, Serving
<1>1. Inputs' /\ node \in Configs /\ node.warmUp \in Nat
    BY DEF CreateSession, given, shapes, tensors, Throws, NoLocals, benchVars, Inputs, Disks, Configs
<1>2. Queue' /\ Data'
    BY WorkUnconcerned DEF CreateSession, given, shapes, tensors, Throws, NoLocals
<1>3. Construction'
  <2>1. ctor' \in Locals /\ (ctor'.registered # {} => build' = "cuda")
    <3>1. CASE ctor' = ctor
      BY <3>1 DEF CreateSession, given, Construction
    <3>2. CASE ctor' = NoLocals
      BY <3>2 DEF NoLocals, Locals
    <3> QED BY <3>1, <3>2 DEF CreateSession, Throws
  <2> QED BY <1>1, <2>1 DEF CreateSession, given, shapes, tensors, Throws, Construction, Phases, Constructing
<1>4. Pools'
    BY <1>1 DEF CreateSession, given, shapes, tensors, Throws, NoLocals, Pools
<1>5. Tool'
    BY <1>1 DEF CreateSession, given, shapes, tensors, Throws, NoLocals, Tool, benchVars, Constructing
<1> QED BY <1>1, <1>2, <1>3, <1>4, <1>5

\* The optimized model is on the disk.
LEMMA SessionSavedInv ==
    ASSUME Inv, SessionSaved, UNCHANGED <<benchVars, syncVars>>
    PROVE  Inv'
<1> USE DEF Inv, Serving
<1>1. Inputs' /\ node \in Configs /\ node.warmUp \in Nat
    BY DEF SessionSaved, given, shapes, tensors, Throws, NoLocals, benchVars, Inputs, Disks, Configs
<1>2. Queue' /\ Data'
    BY WorkUnconcerned DEF SessionSaved, given, shapes, tensors, Throws, NoLocals
<1>3. Construction'
    BY <1>1, ThrowsAssumption DEF SessionSaved, given, shapes, tensors, Throws, NoLocals, Construction, Locals, Phases, Constructing, Inputs
<1>4. Pools'
    BY <1>1 DEF SessionSaved, given, shapes, tensors, Throws, NoLocals, Pools
<1>5. Tool'
    BY <1>1 DEF SessionSaved, given, shapes, tensors, Throws, NoLocals, Tool, benchVars, Constructing
<1> QED BY <1>1, <1>2, <1>3, <1>4, <1>5

\* A GPU is active only in a CUDA build.
LEMMA ResolveActiveDeviceInv ==
    ASSUME Inv, ResolveActiveDevice, UNCHANGED <<benchVars, syncVars>>
    PROVE  Inv'
<1> USE DEF Inv, Serving
<1>1. Inputs' /\ node \in Configs /\ node.warmUp \in Nat
    BY DEF ResolveActiveDevice, given, shapes, tensors, Throws, NoLocals, benchVars, Inputs, Disks, Configs
<1>2. Queue' /\ Data'
    BY WorkUnconcerned DEF ResolveActiveDevice, given, shapes, tensors, Throws, NoLocals
<1>3. Construction'
    BY <1>1, ThrowsAssumption DEF ResolveActiveDevice, given, shapes, tensors, Throws, NoLocals, Construction, Locals, Phases, Constructing, Inputs
<1>4. Pools'
    BY <1>1 DEF ResolveActiveDevice, given, shapes, tensors, Throws, NoLocals, Pools
<1>5. Tool'
    BY <1>1 DEF ResolveActiveDevice, given, shapes, tensors, Throws, NoLocals, Tool, benchVars, Constructing
<1> QED BY <1>1, <1>2, <1>3, <1>4, <1>5

\* The input shape is fixed.
LEMMA ReadShapesInv ==
    ASSUME Inv, ReadShapes, UNCHANGED <<benchVars, syncVars>>
    PROVE  Inv'
<1> USE DEF Inv, Serving
<1>1. Inputs' /\ node \in Configs /\ node.warmUp \in Nat
    BY DEF ReadShapes, given, shapes, tensors, Throws, NoLocals, benchVars, Inputs, Disks, Configs
<1>2. Queue' /\ Data'
    BY WorkUnconcerned DEF ReadShapes, given, shapes, tensors, Throws, NoLocals
<1>3. Construction'
  <2>1. ctor' \in Locals /\ (ctor'.registered # {} => build' = "cuda")
    <3>1. CASE ctor' = ctor
      BY <3>1 DEF ReadShapes, given, Construction
    <3>2. CASE ctor' = NoLocals
      BY <3>2 DEF NoLocals, Locals
    <3> QED BY <3>1, <3>2 DEF ReadShapes, Throws
  <2> QED BY <1>1, <2>1 DEF ReadShapes, given, shapes, tensors, Throws, Construction, Phases, Constructing
<1>4. Pools'
    BY <1>1 DEF ReadShapes, given, shapes, tensors, Throws, NoLocals, Pools
<1>5. Tool'
    BY <1>1 DEF ReadShapes, given, shapes, tensors, Throws, NoLocals, Tool, benchVars, Constructing
<1> QED BY <1>1, <1>2, <1>3, <1>4, <1>5

\* All the input buffers are there, and the tensors over them.
LEMMA InputTensorInitInv ==
    ASSUME Inv, InputTensorInit, UNCHANGED <<benchVars, syncVars>>
    PROVE  Inv'
<1> USE DEF Inv, Serving
<1>1. Inputs' /\ node \in Configs /\ node.warmUp \in Nat
    BY DEF InputTensorInit, given, shapes, tensors, Throws, NoLocals, benchVars, Inputs, Disks, Configs
<1>2. Queue' /\ Data'
    BY WorkUnconcerned DEF InputTensorInit, given, shapes, tensors, Throws, NoLocals
<1>3. Construction'
    BY <1>1, ThrowsAssumption DEF InputTensorInit, given, shapes, tensors, Throws, NoLocals, Construction, Locals, Phases, Constructing, Inputs
<1>4. Pools'
  <2>1. /\ pool' = (IF build = "cuda" THEN InputSlices ELSE <<>>)
        /\ inputTensors' = (IF gpu THEN {Own} \union {pool'[i] : i \in DOMAIN pool'} ELSE {Staging})
        /\ phase' = "warmup" /\ gpu' = gpu /\ build' = build
    BY DEF InputTensorInit, given
  <2>2. gpu => inputTensors' = {Own} \union InSlices
    BY <2>1 DEF Construction, InSlices
  <2>3. pool' \in Seq(InSlices) /\ Len(pool') <= BufferSize /\ (build = "cuda" => Len(pool') = BufferSize)
    BY <2>1, Slices, BufferSizeAssumption
  <2> QED BY <2>1, <2>2, <2>3 DEF Pools
<1>5. Tool'
    BY <1>1 DEF InputTensorInit, given, shapes, tensors, Throws, NoLocals, Tool, benchVars, Constructing
<1> QED BY <1>1, <1>2, <1>3, <1>4, <1>5

\* A turn that succeeds shows that the shape and the device are right.
LEMMA WarmUpTurnInv ==
    ASSUME Inv, WarmUpTurn, UNCHANGED <<benchVars, syncVars>>
    PROVE  Inv'
<1> USE DEF Inv, Serving
<1>1. Inputs' /\ node \in Configs /\ node.warmUp \in Nat
    BY DEF WarmUpTurn, given, shapes, tensors, Throws, NoLocals, benchVars, Inputs, Disks, Configs
<1>2. Queue' /\ Data'
    BY WorkUnconcerned DEF WarmUpTurn, given, shapes, tensors, Throws, NoLocals
<1>3. Construction'
  <2>1. gpu = (build = "cuda")
    <3>1. CASE build = "cpu"
      <4>1. ~gpu /\ gpu \in BOOLEAN
        BY <3>1 DEF Construction
      <4> QED BY <3>1, <4>1
    <3>2. CASE build = "cuda" /\ ~gpu
      <4>1. pool # <<>> /\ Head(pool) \in InSlices
        BY <3>2, Queued DEF WarmUpTurn, Pools
      <4>2. inputTensors = {Staging} /\ Head(pool) \in inputTensors
        BY <3>2 DEF WarmUpTurn, WarmUpBuffer, Pools
      <4> QED BY <4>1, <4>2, Slices
    <3> QED BY <3>1, <3>2 DEF Inputs, Construction
  <2>2. turns' \in Nat /\ turns' <= node.warmUp
    BY <1>1 DEF WarmUpTurn, Construction
  <2> QED BY <2>1, <2>2 DEF WarmUpTurn, Construction, given, shapes
<1>4. Pools'
  <2>1. CASE build = "cpu"
    BY <2>1 DEF WarmUpTurn, Pools, given
  <2>2. CASE build = "cuda"
    <3>1. pool' = Append(Tail(pool), Head(pool)) /\ pool # <<>> /\ pool \in Seq(InSlices)
      BY <2>2 DEF WarmUpTurn, Pools
    <3>2. /\ Tail(pool) \in Seq(InSlices) /\ Head(pool) \in InSlices
          /\ Len(pool) \in Nat /\ Len(Tail(pool)) = Len(pool) - 1
      BY <3>1, Queued
    <3>3. pool' \in Seq(InSlices) /\ Len(pool') = Len(Tail(pool)) + 1
      BY <3>1, <3>2, Queued
    <3>4. Len(pool') = Len(pool)
      BY <3>2, <3>3
    <3> QED BY <2>2, <3>3, <3>4 DEF WarmUpTurn, Pools, given
  <2> QED BY <2>1, <2>2 DEF Inputs
<1>5. Tool'
    BY <1>1 DEF WarmUpTurn, given, shapes, tensors, Throws, NoLocals, Tool, benchVars, Constructing
<1> QED BY <1>1, <1>2, <1>3, <1>4, <1>5

\* A turn fails.
LEMMA WarmUpThrowsInv ==
    ASSUME Inv, WarmUpThrows, UNCHANGED <<benchVars, syncVars>>
    PROVE  Inv'
<1> USE DEF Inv, Serving
<1>1. Inputs' /\ node \in Configs /\ node.warmUp \in Nat
    BY DEF WarmUpThrows, given, shapes, tensors, Throws, NoLocals, benchVars, Inputs, Disks, Configs
<1>2. Queue' /\ Data'
    BY WorkUnconcerned DEF WarmUpThrows, given, shapes, tensors, Throws, NoLocals
<1>3. Construction'
    BY <1>1, ThrowsAssumption DEF WarmUpThrows, given, shapes, tensors, Throws, NoLocals, Construction, Locals, Phases, Constructing, Inputs
<1>4. Pools'
    BY <1>1 DEF WarmUpThrows, given, shapes, tensors, Throws, NoLocals, Pools
<1>5. Tool'
    BY <1>1 DEF WarmUpThrows, given, shapes, tensors, Throws, NoLocals, Tool, benchVars, Constructing
<1> QED BY <1>1, <1>2, <1>3, <1>4, <1>5

\* A turn fails for a reason of its own.
LEMMA WarmUpRunThrowsInv ==
    ASSUME Inv, WarmUpRunThrows, UNCHANGED <<benchVars, syncVars>>
    PROVE  Inv'
<1> USE DEF Inv, Serving
<1>1. Inputs' /\ node \in Configs /\ node.warmUp \in Nat
    BY DEF WarmUpRunThrows, given, shapes, tensors, Throws, NoLocals, benchVars, Inputs, Disks, Configs
<1>2. Queue' /\ Data'
    BY WorkUnconcerned DEF WarmUpRunThrows, given, shapes, tensors, Throws, NoLocals
<1>3. Construction'
    BY <1>1, ThrowsAssumption DEF WarmUpRunThrows, given, shapes, tensors, Throws, NoLocals, Construction, Locals, Phases, Constructing, Inputs
<1>4. Pools'
    BY <1>1 DEF WarmUpRunThrows, given, shapes, tensors, Throws, NoLocals, Pools
<1>5. Tool'
    BY <1>1 DEF WarmUpRunThrows, given, shapes, tensors, Throws, NoLocals, Tool, benchVars, Constructing
<1> QED BY <1>1, <1>2, <1>3, <1>4, <1>5

\* After a turn the shapes are known; without one the process has crashed.
LEMMA WarmUpEndsInv ==
    ASSUME Inv, WarmUpEnds, UNCHANGED <<benchVars, syncVars>>
    PROVE  Inv'
<1> USE DEF Inv, Serving
<1>1. Inputs' /\ node \in Configs /\ node.warmUp \in Nat
    BY DEF WarmUpEnds, given, shapes, tensors, Throws, NoLocals, benchVars, Inputs, Disks, Configs
<1>2. Queue' /\ Data'
    BY WorkUnconcerned DEF WarmUpEnds, given, shapes, tensors, Throws, NoLocals
<1>3. Construction'
    BY <1>1, ThrowsAssumption DEF WarmUpEnds, given, shapes, tensors, Throws, NoLocals, Construction, Locals, Phases, Constructing, Inputs
<1>4. Pools'
    BY <1>1 DEF WarmUpEnds, given, shapes, tensors, Throws, NoLocals, Pools
<1>5. Tool'
    BY <1>1 DEF WarmUpEnds, given, shapes, tensors, Throws, NoLocals, Tool, benchVars, Constructing
<1> QED BY <1>1, <1>2, <1>3, <1>4, <1>5

\* The output buffers are there, and the backend is ready.
LEMMA OutputTensorInitInv ==
    ASSUME Inv, OutputTensorInit, UNCHANGED <<benchVars, syncVars>>
    PROVE  Inv'
<1> USE DEF Inv, Serving
<1>1. Inputs' /\ node \in Configs /\ node.warmUp \in Nat
    BY DEF OutputTensorInit, given, shapes, tensors, Throws, NoLocals, benchVars, Inputs, Disks, Configs
<1>2. Queue' /\ Data'
    BY WorkUnconcerned DEF OutputTensorInit, given, shapes, tensors, Throws, NoLocals
<1>3. Construction'
    BY <1>1, ThrowsAssumption DEF OutputTensorInit, given, shapes, tensors, Throws, NoLocals, Construction, Locals, Phases, Constructing, Inputs
<1>4. Pools'
  <2>1. /\ outPool' = (IF build = "cuda" THEN OutputSlices ELSE <<>>)
        /\ outputTensors' = {outPool'[i] : i \in DOMAIN outPool'}
        /\ phase' = "ready" /\ gpu' = gpu /\ build' = build /\ runThrown' = runThrown
        /\ pool' = pool /\ inputTensors' = inputTensors /\ phase = "outputs"
    BY DEF OutputTensorInit, given
  <2>2. outPool' \in Seq(OutSlices) /\ (build = "cuda" => outputTensors' = OutSlices)
    BY <2>1, Slices DEF OutSlices
  <2>3. Holding' = {}
    <3>1. life = "none"
      BY <2>1 DEF Queue
    <3> QED BY <3>1 DEF Holding, Queue, Data, syncVars, work
  <2>4. Cardinality(Holding') = 0 /\ runThrown = 0 /\ Len(pool) \in Nat
    BY <2>1, <2>3, FS_EmptySet, LenProperties DEF Construction, Pools
  <2>5. build = "cuda" => Len(pool') + Cardinality(Holding') + runThrown' = BufferSize
    BY <2>1, <2>4 DEF Pools
  <2> QED BY <2>1, <2>2, <2>5 DEF Pools
<1>5. Tool'
    BY <1>1 DEF OutputTensorInit, given, shapes, tensors, Throws, NoLocals, Tool, benchVars, Constructing
<1> QED BY <1>1, <1>2, <1>3, <1>4, <1>5

\* A step of the constructor keeps the invariant.
LEMMA ConstructInv ==
    ASSUME Inv, Construct, UNCHANGED <<benchVars, syncVars>>
    PROVE  Inv'
    BY ReadOptionsInv, RegisterProvidersInv, ChooseModelInv, CreateSessionInv, SessionSavedInv, ResolveActiveDeviceInv, ReadShapesInv, InputTensorInitInv, WarmUpTurnInv, WarmUpThrowsInv, WarmUpRunThrowsInv, WarmUpEndsInv, OutputTensorInitInv DEF Construct

------------------------------------------------------------------------------
(* The scheduler and its worker. *)

\* What the worker may rely on while it has a task: the backend is ready.
LEMMA Busy ==
    ASSUME Serving, NEW w \in Workers, wpc[w] \notin {"idle", "exited"}
    PROVE  /\ phase = "ready" /\ life = "alive"
           /\ job[w] \in Requests /\ job[w] # None /\ outcome[job[w]] = "pending"
           /\ gpu = (build = "cuda") /\ build \in {"cpu", "cuda"}
           /\ inputTensors = IF build = "cuda" THEN {Own} \union InSlices ELSE {Staging}
           /\ pool \in Seq(InSlices) /\ (build = "cpu" => pool = <<>>)
           /\ outPool \in Seq(OutSlices) /\ (build = "cpu" => outPool = <<>>)
           /\ build = "cuda" => Len(pool) + Cardinality(Holding) + runThrown = BufferSize
<1> USE DEF Serving
<1>1. life = "alive" /\ phase = "ready"
    BY DEF Queue
<1>2. job[w] \in Requests /\ job[w] # None /\ outcome[job[w]] = "pending"
    BY DEF Queue
<1>3. gpu = (build = "cuda") /\ build \in {"cpu", "cuda"}
    BY <1>1 DEF Construction, Inputs
<1> QED BY <1>1, <1>2, <1>3 DEF Pools

\* How many input buffers the worker holds, before and after a step.
LEMMA HoldingCount ==
    ASSUME NEW w \in Workers
    PROVE  /\ Cardinality(Holding) = IF lent[w] = None THEN 0 ELSE 1
           /\ Cardinality(Holding') = IF lent'[w] = None THEN 0 ELSE 1
           /\ Workers = {w}
<1>1. Cardinality(Holding) = IF lent[w] = None THEN 0 ELSE 1
    BY OneWorker DEF Holding
<1>2. Cardinality(Holding') = IF lent'[w] = None THEN 0 ELSE 1
    BY OneWorker DEF Holding
<1> QED BY <1>1, <1>2 DEF Workers

\* A step that leaves the pools alone, and the count of what the worker holds.
LEMMA PoolsKept ==
    ASSUME Serving, UNCHANGED <<build, phase, gpu, tensors, runThrown>>,
           Cardinality(Holding') = Cardinality(Holding)
    PROVE  Pools'
BY DEF Serving, Pools, tensors

\* A step that leaves the constructor's results alone.
LEMMA ConstructionKept ==
    ASSUME Serving, UNCHANGED <<cli, base, given, disk, phase, ctor, gpu, shapes, turns>>,
           runThrown' \in 0 .. MaxRunThrows, runThrown' # 0 => runThrown # 0 \/ phase = "ready"
    PROVE  Inputs' /\ Construction'
BY DEF Serving, Inputs, Construction, given, shapes, Configs, CommandLines, Disks

\* A request that leaves the worker has its outcome; the worker is idle again.
LEMMA TaskDone ==
    ASSUME Serving, NEW w \in Workers, wpc[w] \notin {"idle", "exited"},
           NEW result \in {"value", "exception"}, Settle(job[w], result), Goto(w, "idle"),
           job' = [job EXCEPT ![w] = None],
           UNCHANGED <<life, isClose, tasks, phase>>
    PROVE  Queue'
<1>1. /\ job[w] \in Requests /\ job[w] # None /\ life = "alive" /\ phase = "ready"
    BY Busy
<1>2. \A v \in Workers : v = w
    BY OneWorker
<1>3. /\ wpc' \in [Workers -> {"idle", "preparing", "staged", "prepared", "running", "posting", "exited"}]
      /\ job' \in [Workers -> Requests \union {None}]
      /\ outcome' \in [Requests -> {"none", "pending", "value", "exception"}]
    BY DEF Serving, Queue, Settle, Goto
<1>4. wpc'[w] = "idle" /\ job'[w] = None
    BY DEF Serving, Queue, Goto
<1>5. \A r \in Requests : outcome'[r] = IF r = job[w] THEN result ELSE outcome[r]
    BY DEF Serving, Queue, Settle
<1>6. None \notin Items(tasks) /\ job[w] \notin Items(tasks)
  <2>1. \A r \in Items(tasks) : r \in Requests
    BY DEF Serving, Queue, Items
  <2> QED BY <2>1, NoneAssumption DEF Serving, Queue
<1>7. \A r \in Requests :
        outcome'[r] = "pending" => r \in Items(tasks) \/ \E v \in Workers : job'[v] = r
  <2> SUFFICES ASSUME NEW r \in Requests, outcome'[r] = "pending" PROVE r \in Items(tasks)
    OBVIOUS
  <2>1. r # job[w] /\ outcome[r] = "pending"
    BY <1>5
  <2>2. r \in Items(tasks) \/ \E v \in Workers : job[v] = r
    BY <2>1 DEF Serving, Queue
  <2> QED BY <1>2, <2>1, <2>2
<1>8. \A r \in Items(tasks) : r \in Requests /\ outcome'[r] = "pending"
  <2>1. \A r \in Items(tasks) : r \in Requests
    BY DEF Serving, Queue, Items
  <2> QED BY <1>5, <1>6, <2>1 DEF Serving, Queue
<1>9. tasks' = tasks /\ isClose' = isClose /\ life' = life /\ phase' = phase
    OBVIOUS
<1>10. life \in {"none", "alive", "joined"} /\ isClose \in BOOLEAN /\ tasks \in Seq(Requests) /\ Distinct(tasks)
    BY DEF Serving, Queue
<1> QED
  <2> DEFINE P == [Workers -> {"idle", "preparing", "staged", "prepared", "running", "posting", "exited"}]
  <2>1. \A v \in Workers :
        /\ (job'[v] = None) = (wpc'[v] \in {"idle", "exited"})
        /\ job'[v] \notin Items(tasks)
        /\ wpc'[v] # "exited" /\ job'[v] = None
    BY <1>2, <1>4, <1>6
  <2> QED BY <1>1, <1>3, <1>7, <1>8, <1>9, <1>10, <2>1 DEF Queue, Distinct, Items

\* What a stage throws ends the task.
LEMMA ThrowEndsTask ==
    ASSUME Serving, NEW w \in Workers, wpc[w] \notin {"idle", "exited"}, TaskThrows(w),
           phase' = phase, build' = build
    PROVE  Queue' /\ Data' /\ Cardinality(Holding') = 0
<1>1. job[w] \in Requests /\ job[w] # None
    BY Busy
<1>2. Queue'
    BY TaskDone DEF TaskThrows
<1>3. \A v \in Workers : v = w
    BY OneWorker
<1>4. wpc'[w] = "idle" /\ lent'[w] = None /\ out'[w] = None
    BY DEF TaskThrows, Goto, Serving, Queue, Data
<1>5. \A r \in Requests : outcome'[r] = IF r = job[w] THEN "exception" ELSE outcome[r]
    BY DEF Serving, Queue, TaskThrows, Settle
<1>6. EachGetsItsOwn'
    BY <1>5 DEF Serving, Data, EachGetsItsOwn, TaskThrows
<1>7. /\ lent' \in [Workers -> Buffers \union {None}]
      /\ out' \in [Workers -> Buffers \union {None}]
      /\ holds' = holds /\ answer' = answer
    BY DEF Serving, Data, TaskThrows
<1>8. Data'
    BY <1>3, <1>4, <1>6, <1>7 DEF Serving, Data
<1> QED BY <1>2, <1>4, <1>8, HoldingCount

\* The worker takes the oldest task.
LEMMA TakeInv ==
    ASSUME Serving, NEW w \in Workers, Take(w), UNCHANGED <<cli, base>>
    PROVE  Serving' /\ phase' = phase
<1> USE DEF Serving
<1>1. Inputs' /\ Construction' /\ phase' = phase
    BY ConstructionKept DEF Take, backendVars, given, shapes, tensors, Construction
<1>2. /\ tasks # <<>> /\ wpc[w] = "idle" /\ life = "alive"
      /\ job' = [job EXCEPT ![w] = Head(tasks)] /\ tasks' = Dequeued(tasks)
      /\ wpc' = [wpc EXCEPT ![w] = "preparing"]
      /\ UNCHANGED <<runner, life, isClose, outcome, answer, lent, out, holds, backendVars>>
    BY DEF Take, Goto, Dequeued
<1>3. Pools'
    BY <1>2 DEF Pools, Holding, backendVars, given, tensors
<1>4. /\ Head(tasks) \in Requests /\ Head(tasks) \in Items(tasks)
      /\ tasks' \in Seq(Requests) /\ Items(tasks') = Items(tasks) \ {Head(tasks)} /\ Distinct(tasks')
    BY <1>2, PopDistinct DEF Queue, Distinct
<1>5. \A v \in Workers : v = w
    BY OneWorker
<1>6. /\ job' \in [Workers -> Requests \union {None}] /\ job'[w] = Head(tasks) /\ Head(tasks) # None
      /\ wpc' \in [Workers -> {"idle", "preparing", "staged", "prepared", "running", "posting", "exited"}]
      /\ wpc'[w] = "preparing" /\ outcome[Head(tasks)] = "pending"
    BY <1>2, <1>4, NoneAssumption DEF Queue
<1>7. \A r \in Requests :
        outcome'[r] = "pending" => r \in Items(tasks') \/ \E v \in Workers : job'[v] = r
  <2> SUFFICES ASSUME NEW r \in Requests, outcome'[r] = "pending"
               PROVE  r \in Items(tasks') \/ job'[w] = r
    OBVIOUS
  <2>1. r \in Items(tasks) \/ \E v \in Workers : job[v] = r
    BY <1>2 DEF Queue
  <2>2. job[w] = None /\ r # None
    BY <1>2, NoneAssumption DEF Queue
  <2> QED BY <1>4, <1>5, <1>6, <2>1, <2>2
<1>8. \A r \in Items(tasks') : outcome'[r] = "pending"
    BY <1>2, <1>4 DEF Queue
<1>9. \A v \in Workers :
        /\ (job'[v] = None) = (wpc'[v] \in {"idle", "exited"})
        /\ job'[v] \notin Items(tasks') /\ wpc'[v] # "exited" /\ outcome'[job'[v]] = "pending"
    BY <1>2, <1>4, <1>5, <1>6
<1>10. Queue'
    BY <1>2, <1>4, <1>6, <1>7, <1>8, <1>9 DEF Queue, backendVars
<1>11. Data'
    BY <1>2, <1>5, <1>6 DEF Data, EachGetsItsOwn, backendVars, given
<1> QED BY <1>1, <1>3, <1>10, <1>11

\* The worker leaves once the queue is closed and empty.
LEMMA ExitInv ==
    ASSUME Serving, NEW w \in Workers, Exit(w), UNCHANGED <<cli, base>>
    PROVE  Serving' /\ phase' = phase
<1> USE DEF Serving
<1>1. Inputs' /\ Construction' /\ phase' = phase
    BY ConstructionKept DEF Exit, backendVars, given, shapes, tensors, Construction
<1>2. Pools'
    BY PoolsKept, HoldingCount DEF Exit, Goto, backendVars, given, tensors
<1>3. life # "none" /\ job[w] = None
    BY DEF Exit, Queue
<1>4. Queue'
    BY <1>3, OneWorker DEF Exit, Goto, Queue, Distinct, Items, backendVars
<1>5. Data'
    BY OneWorker DEF Exit, Goto, Data, EachGetsItsOwn, backendVars, given
<1> QED BY <1>1, <1>2, <1>4, <1>5

\* Preprocess throws before it has a buffer.
LEMMA PreThrowInv ==
    ASSUME Serving, NEW w \in Workers, PreThrow(w), UNCHANGED <<cli, base>>
    PROVE  Serving' /\ phase' = phase
<1> USE DEF Serving
<1>1. Inputs' /\ Construction' /\ phase' = phase
    BY ConstructionKept DEF PreThrow, backendVars, given, shapes, tensors, Construction
<1>2. Queue' /\ Data' /\ Cardinality(Holding') = 0
    BY ThrowEndsTask DEF PreThrow, backendVars, given
<1>3. lent[w] = None
    BY DEF PreThrow, Data
<1>4. Pools'
    BY <1>2, <1>3, PoolsKept, HoldingCount DEF PreThrow, backendVars, given
<1> QED BY <1>1, <1>2, <1>4

\* A step within a task does not concern the queue.
LEMMA StepInTask ==
    ASSUME Serving, NEW w \in Workers, wpc[w] \notin {"idle", "exited"},
           NEW place \in {"staged", "prepared", "running", "posting"}, Goto(w, place),
           UNCHANGED <<life, isClose, tasks, outcome, job, phase>>
    PROVE  /\ Queue'
           /\ \A v \in Workers : v = w /\ wpc'[v] = place
<1>1. \A v \in Workers : v = w
    BY OneWorker
<1>2. wpc' \in [Workers -> {"idle", "preparing", "staged", "prepared", "running", "posting", "exited"}]
      /\ wpc'[w] = place
    BY DEF Goto, Serving, Queue
<1>3. life = "alive" /\ job[w] # None
    BY Busy
<1>4. \A v \in Workers :
        /\ (job'[v] = None) = (wpc'[v] \in {"idle", "exited"})
        /\ wpc'[v] # "exited"
    BY <1>1, <1>2, <1>3
<1>5. Queue'
    BY <1>2, <1>3, <1>4 DEF Serving, Queue, Distinct, Items
<1> QED BY <1>1, <1>2, <1>5

\* NAFNet normalises into the staging tensor.
LEMMA StageInv ==
    ASSUME Serving, NEW w \in Workers, Stage(w), UNCHANGED <<cli, base>>
    PROVE  Serving' /\ phase' = phase
<1> USE DEF Serving
<1>1. Inputs' /\ Construction' /\ phase' = phase
    BY ConstructionKept DEF Stage, backendVars, given, shapes, tensors, Construction
<1>2. Queue' /\ \A v \in Workers : v = w /\ wpc'[v] = "staged"
    BY StepInTask DEF Stage, backendVars
<1>3. Pools'
    BY PoolsKept, HoldingCount DEF Stage, backendVars, given
<1>4. Data'
  <2>1. Staging \in Buffers /\ job[w] \in Requests /\ holds'[Staging] = job[w]
        /\ holds' \in [Buffers -> Requests \union {None}]
    BY Slices, Busy DEF Stage, Data
  <2>2. lent[w] = None /\ out[w] = None /\ build = "cuda"
    BY DEF Stage, Data
  <2> QED BY <1>2, <2>1, <2>2 DEF Stage, Data, EachGetsItsOwn, backendVars, given
<1> QED BY <1>1, <1>2, <1>3, <1>4

\* Preprocess writes into the buffer it acquires.
LEMMA PreExecuteInv ==
    ASSUME Serving, NEW w \in Workers, PreExecute(w), UNCHANGED <<cli, base>>
    PROVE  Serving' /\ phase' = phase
<1> USE DEF Serving
<1>1. Inputs' /\ Construction' /\ phase' = phase
    BY ConstructionKept DEF PreExecute, backendVars, given, shapes, tensors, Construction
<1>2. Queue' /\ \A v \in Workers : v = w /\ wpc'[v] = "prepared"
    BY StepInTask DEF PreExecute, backendVars
<1>3. Pools'
  <2>1. CASE build = "cpu"
    <3>1. pool = <<>> /\ outPool = <<>>
      BY <2>1, Busy DEF PreExecute
    <3> QED BY <2>1, <3>1 DEF PreExecute, Pools, given
  <2>2. CASE build = "cuda"
    <3>1. /\ pool \in Seq(InSlices) /\ pool # <<>> /\ lent[w] = None /\ lent'[w] = Head(pool)
          /\ pool' = Tail(pool) /\ runThrown' = runThrown /\ phase = "ready"
          /\ Len(pool) + Cardinality(Holding) + runThrown = BufferSize
      BY <2>2, Busy DEF PreExecute, Data
    <3>2. /\ pool' \in Seq(InSlices) /\ Head(pool) \in InSlices /\ Len(pool) \in Nat
          /\ Len(pool') = Len(pool) - 1 /\ lent'[w] # None
      BY <3>1, Queued, Slices
    <3>3. Cardinality(Holding) = 0 /\ Cardinality(Holding') = 1
      BY <3>1, <3>2, HoldingCount
    <3>4. runThrown \in Nat
      BY ThrowsAssumption DEF Construction
    <3>5. Len(pool') + Cardinality(Holding') + runThrown' = BufferSize /\ Len(pool') <= BufferSize
      BY <3>1, <3>2, <3>3, <3>4, BufferSizeAssumption
    <3> QED BY <2>2, <3>1, <3>2, <3>5 DEF PreExecute, Pools, given
  <2> QED BY <2>1, <2>2, Busy DEF PreExecute
<1>4. Data'
  <2> DEFINE b == IF build = "cpu" THEN Staging ELSE Head(pool)
  <2>1. b \in Buffers /\ b \in (IF build = "cuda" THEN InSlices ELSE {Staging})
    <3>1. build = "cuda" => Head(pool) \in InSlices
      BY Busy, Queued DEF PreExecute
    <3> QED BY <3>1, Slices, Busy DEF PreExecute
  <2>2. /\ lent' = [lent EXCEPT ![w] = b] /\ holds' = [holds EXCEPT ![b] = job[w]]
        /\ out' = out /\ job' = job /\ build' = build /\ answer' = answer /\ outcome' = outcome
        /\ wpc[w] = "preparing"
    BY DEF PreExecute, given
  <2>3. job[w] \in Requests /\ b # None
    BY <2>1, <2>2, Busy, Slices
  <2> HIDE DEF b
  <2>4. /\ lent' \in [Workers -> Buffers \union {None}] /\ lent'[w] = b
        /\ holds' \in [Buffers -> Requests \union {None}] /\ holds'[b] = job[w]
    BY <2>1, <2>2, <2>3 DEF Data
  <2>5. out[w] = None
    BY <2>2 DEF Data
  <2> QED BY <1>2, <2>1, <2>2, <2>3, <2>4, <2>5 DEF Data, EachGetsItsOwn
<1> QED BY <1>1, <1>2, <1>3, <1>4

\* NAFNet acquires a buffer and copies to the device.
LEMMA UploadInv ==
    ASSUME Serving, NEW w \in Workers, Upload(w), UNCHANGED <<cli, base>>
    PROVE  Serving' /\ phase' = phase
<1> USE DEF Serving
<1>0. build = "cuda"
    BY DEF Upload, Data
<1>1. Inputs' /\ Construction' /\ phase' = phase
    BY ConstructionKept DEF Upload, backendVars, given, shapes, tensors, Construction
<1>2. Queue' /\ \A v \in Workers : v = w /\ wpc'[v] = "prepared"
    BY StepInTask DEF Upload, backendVars
<1>3. Pools'
  <2>1. CASE build = "cpu"
    <3>1. pool = <<>> /\ outPool = <<>>
      BY <1>0, <2>1
    <3> QED BY <1>0, <2>1
  <2>2. CASE build = "cuda"
    <3>1. /\ pool \in Seq(InSlices) /\ pool # <<>> /\ lent[w] = None /\ lent'[w] = Head(pool)
          /\ pool' = Tail(pool) /\ runThrown' = runThrown /\ phase = "ready"
          /\ Len(pool) + Cardinality(Holding) + runThrown = BufferSize
      BY <2>2, Busy DEF Upload, Data
    <3>2. /\ pool' \in Seq(InSlices) /\ Head(pool) \in InSlices /\ Len(pool) \in Nat
          /\ Len(pool') = Len(pool) - 1 /\ lent'[w] # None
      BY <3>1, Queued, Slices
    <3>3. Cardinality(Holding) = 0 /\ Cardinality(Holding') = 1
      BY <3>1, <3>2, HoldingCount
    <3>4. runThrown \in Nat
      BY ThrowsAssumption DEF Construction
    <3>5. Len(pool') + Cardinality(Holding') + runThrown' = BufferSize /\ Len(pool') <= BufferSize
      BY <3>1, <3>2, <3>3, <3>4, BufferSizeAssumption
    <3> QED BY <2>2, <3>1, <3>2, <3>5 DEF Upload, Pools, given
  <2> QED BY <2>1, <2>2, Busy DEF Upload
<1>4. Data'
  <2>1. Head(pool) \in InSlices /\ Head(pool) \in Buffers /\ Head(pool) # None /\ Staging \in Buffers
    BY Busy, Queued, Slices DEF Upload
  <2>2. /\ lent' = [lent EXCEPT ![w] = Head(pool)]
        /\ holds' = [holds EXCEPT ![Head(pool)] = holds[Staging]]
        /\ out' = out /\ job' = job /\ build' = build /\ answer' = answer /\ outcome' = outcome
        /\ wpc[w] = "staged"
    BY DEF Upload, given
  <2>3. holds[Staging] = job[w] /\ job[w] \in Requests
    BY <2>2, Busy DEF Data
  <2>4. /\ lent' \in [Workers -> Buffers \union {None}] /\ lent'[w] = Head(pool)
        /\ holds' \in [Buffers -> Requests \union {None}] /\ holds'[Head(pool)] = job[w]
    BY <2>1, <2>2, <2>3 DEF Data
  <2>5. out[w] = None
    BY <2>2 DEF Data
  <2> QED BY <1>0, <1>2, <2>1, <2>2, <2>4, <2>5 DEF Data, EachGetsItsOwn
<1> QED BY <1>1, <1>2, <1>3, <1>4

\* Run, and the input buffer goes back.
LEMMA InferRunInv ==
    ASSUME Serving, NEW w \in Workers, InferRun(w), UNCHANGED <<cli, base>>
    PROVE  Serving' /\ phase' = phase
<1> USE DEF Serving
<1>1. Inputs' /\ Construction' /\ phase' = phase
    BY ConstructionKept DEF InferRun, backendVars, given, shapes, tensors, Construction
<1>2. Queue' /\ \A v \in Workers : v = w /\ wpc'[v] = "posting"
    BY StepInTask DEF InferRun, backendVars
<1>3. Pools'
  <2>1. CASE build = "cpu"
    BY <2>1, Busy DEF InferRun, Pools, given
  <2>2. CASE build = "cuda"
    <3>1. /\ pool \in Seq(InSlices) /\ lent[w] # None /\ lent'[w] = None /\ lent[w] \in InSlices
          /\ pool' = Append(pool, lent[w]) /\ runThrown' = runThrown /\ phase = "ready"
          /\ Len(pool) + Cardinality(Holding) + runThrown = BufferSize
      BY <2>2, Busy DEF InferRun, Data
    <3>2. pool' \in Seq(InSlices) /\ Len(pool) \in Nat /\ Len(pool') = Len(pool) + 1
      BY <3>1, Queued, LenProperties
    <3>3. Cardinality(Holding) = 1 /\ Cardinality(Holding') = 0
      BY <3>1, HoldingCount
    <3>4. runThrown \in Nat
      BY ThrowsAssumption DEF Construction
    <3>5. Len(pool') + Cardinality(Holding') + runThrown' = BufferSize /\ Len(pool') <= BufferSize
      BY <3>1, <3>2, <3>3, <3>4, BufferSizeAssumption
    <3> QED BY <2>2, <3>1, <3>2, <3>5 DEF InferRun, Pools, given
  <2> QED BY <2>1, <2>2, Busy DEF InferRun
<1>4. Data'
  <2>1. /\ lent' = [lent EXCEPT ![w] = None] /\ holds' = [holds EXCEPT ![out[w]] = holds[lent[w]]]
        /\ out' = out /\ job' = job /\ build' = build /\ answer' = answer /\ outcome' = outcome
        /\ wpc[w] = "running"
    BY DEF InferRun, given
  <2>2. holds[lent[w]] = job[w] /\ out[w] # None /\ out[w] \in Buffers
    BY <2>1 DEF Data
  <2>3. job[w] \in Requests
    BY <2>1, Busy
  <2>4. /\ lent' \in [Workers -> Buffers \union {None}] /\ lent'[w] = None
        /\ holds' \in [Buffers -> Requests \union {None}] /\ holds'[out[w]] = job[w]
    BY <2>1, <2>2, <2>3 DEF Data
  <2> QED BY <1>2, <2>1, <2>2, <2>4 DEF Data, EachGetsItsOwn
<1> QED BY <1>1, <1>2, <1>3, <1>4

\* infer finds the input's tensor, and waits for an output buffer on a GPU.
LEMMA InferAcquireInv ==
    ASSUME Serving, NEW w \in Workers, InferAcquire(w), UNCHANGED <<cli, base>>
    PROVE  Serving' /\ phase' = phase
<1> USE DEF Serving
<1>1. Inputs' /\ Construction' /\ phase' = phase
    BY ConstructionKept DEF InferAcquire, backendVars, given, shapes, tensors, Construction, TaskThrows
<1>2. lent[w] \in inputTensors
    BY Busy DEF InferAcquire, Data
<1>3. /\ Goto(w, "running") /\ wpc[w] = "prepared"
      /\ UNCHANGED <<runner, life, isClose, tasks, outcome, answer, job, lent, holds>>
      /\ UNCHANGED <<given, disk, phase, ctor, gpu, shapes, inputTensors, outputTensors, pool, turns, runThrown>>
      /\ IF gpu THEN outPool # <<>> /\ out' = [out EXCEPT ![w] = Head(outPool)] /\ outPool' = Tail(outPool)
                ELSE out' = [out EXCEPT ![w] = <<"ort", w>>] /\ outPool' = outPool
    BY <1>2 DEF InferAcquire
<1>4. Queue' /\ \A v \in Workers : v = w /\ wpc'[v] = "running"
    BY <1>3, StepInTask
<1>5. gpu = (build = "cuda") /\ outPool \in Seq(OutSlices) /\ (build = "cpu" => outPool = <<>>)
      /\ build \in {"cpu", "cuda"}
    BY <1>3, Busy
<1>6. outPool' \in Seq(OutSlices) /\ (build = "cpu" => outPool' = <<>>)
    BY <1>3, <1>5, Queued
<1>7. Pools'
  <2>1. Holding' = Holding
    BY <1>3 DEF Holding
  <2> QED BY <1>3, <1>6, <2>1 DEF Pools, given
<1>8. Data'
  <2> DEFINE b == IF gpu THEN Head(outPool) ELSE <<"ort", w>>
  <2>1. b \in Buffers /\ b \in (IF build = "cuda" THEN OutSlices ELSE {<<"ort", w>>})
    <3>1. build = "cuda" => Head(outPool) \in OutSlices
      BY <1>3, <1>5, Queued
    <3> QED BY <1>5, <3>1, Slices
  <2>2. out' = [out EXCEPT ![w] = b]
    BY <1>3
  <2>3. b # None
    BY <2>1, Slices
  <2> HIDE DEF b
  <2>4. out' \in [Workers -> Buffers \union {None}] /\ out'[w] = b
    BY <2>1, <2>2 DEF Data
  <2> QED BY <1>3, <1>4, <2>1, <2>3, <2>4 DEF Data, EachGetsItsOwn, given
<1> QED BY <1>1, <1>7, <1>4, <1>8

\* Run throws, and an input buffer is lost.
LEMMA InferThrowInv ==
    ASSUME Serving, NEW w \in Workers, InferThrow(w), UNCHANGED <<cli, base>>
    PROVE  Serving' /\ phase' = phase
<1> USE DEF Serving
<1>1. runThrown \in 0 .. MaxRunThrows /\ runThrown' = runThrown + 1 /\ runThrown \in Nat /\ phase = "ready"
    BY ThrowsAssumption, Busy DEF InferThrow, Construction
<1>2. Inputs' /\ Construction' /\ phase' = phase
  <2>1. runThrown' \in 0 .. MaxRunThrows
    BY <1>1, ThrowsAssumption DEF InferThrow
  <2> QED BY <1>1, <2>1, ConstructionKept DEF InferThrow
<1>3. Queue' /\ Data' /\ Cardinality(Holding') = 0
    BY ThrowEndsTask DEF InferThrow, given
<1>4. Cardinality(Holding) = 1
    BY HoldingCount DEF InferThrow, Data
<1>5. build = "cuda" => Len(pool) + Cardinality(Holding') + runThrown' = BufferSize
  <2> SUFFICES ASSUME build = "cuda" PROVE Len(pool) + Cardinality(Holding') + runThrown' = BufferSize
    OBVIOUS
  <2>1. Len(pool) + Cardinality(Holding) + runThrown = BufferSize /\ Len(pool) \in Nat
    BY Busy, LenProperties DEF InferThrow
  <2> QED BY <1>1, <1>3, <1>4, <2>1
<1>6. Pools'
    BY <1>1, <1>5 DEF InferThrow, Pools, given, tensors
<1> QED BY <1>2, <1>3, <1>6

\* The output buffer goes back twice.
LEMMA OutputsReleased ==
    ASSUME Serving, NEW w \in Workers, wpc[w] = "posting", ReleaseOutputs(w)
    PROVE  outPool' \in Seq(OutSlices) /\ (build = "cpu" => outPool' = <<>>)
<1>1. gpu = (build = "cuda") /\ outPool \in Seq(OutSlices) /\ (build = "cpu" => outPool = <<>>)
    BY Busy
<1>2. CASE build = "cuda"
  <2>1. out[w] \in OutSlices
    BY <1>2 DEF Serving, Data
  <2>2. <<out[w], out[w]>> \in Seq(OutSlices)
    BY <2>1
  <2> QED BY <1>1, <1>2, <2>2, ConcatProperties DEF ReleaseOutputs
<1>3. CASE build # "cuda"
    BY <1>1, <1>3 DEF ReleaseOutputs
<1> QED BY <1>2, <1>3

\* Postprocess throws; what it holds goes back.
LEMMA PostThrowInv ==
    ASSUME Serving, NEW w \in Workers, PostThrow(w), UNCHANGED <<cli, base>>
    PROVE  Serving' /\ phase' = phase
<1> USE DEF Serving
<1>1. Inputs' /\ Construction' /\ phase' = phase
    BY ConstructionKept DEF PostThrow, backendVars, given, shapes, tensors, Construction
<1>2. Queue' /\ Data' /\ Cardinality(Holding') = 0
    BY ThrowEndsTask DEF PostThrow, given
<1>3. Pools'
  <2>1. outPool' \in Seq(OutSlices) /\ (build = "cpu" => outPool' = <<>>)
    BY OutputsReleased DEF PostThrow
  <2>2. lent[w] = None
    BY DEF PostThrow, Data
  <2>3. Cardinality(Holding') = Cardinality(Holding)
    BY <1>2, <2>2, HoldingCount
  <2> QED BY <2>1, <2>3 DEF PostThrow, Pools, given
<1> QED BY <1>1, <1>2, <1>3

\* The future gets its value, computed from the request's own data.
LEMMA PostExecuteInv ==
    ASSUME Serving, NEW w \in Workers, PostExecute(w), UNCHANGED <<cli, base>>
    PROVE  Serving' /\ phase' = phase
<1> USE DEF Serving
<1>1. Inputs' /\ Construction' /\ phase' = phase
    BY ConstructionKept DEF PostExecute, backendVars, given, shapes, tensors, Construction
<1>2. job[w] \in Requests /\ job[w] # None /\ \A v \in Workers : v = w
    BY Busy, OneWorker DEF PostExecute
<1>3. Queue'
    BY TaskDone DEF PostExecute
<1>4. Pools'
  <2>1. outPool' \in Seq(OutSlices) /\ (build = "cpu" => outPool' = <<>>)
    BY OutputsReleased DEF PostExecute
  <2>2. lent[w] = None /\ lent'[w] = None
    BY DEF PostExecute, Data
  <2>3. Cardinality(Holding') = Cardinality(Holding)
    BY <2>2, HoldingCount
  <2> QED BY <2>1, <2>3 DEF PostExecute, Pools, given
<1>5. /\ answer' = [answer EXCEPT ![job[w]] = holds[out[w]]] /\ holds[out[w]] = job[w]
      /\ out' = [out EXCEPT ![w] = None] /\ wpc'[w] = "idle" /\ lent[w] = None
      /\ lent' = lent /\ holds' = holds /\ build' = build
    BY DEF PostExecute, Data, Goto, Queue, given
<1>6. \A r \in Requests : outcome'[r] = IF r = job[w] THEN "value" ELSE outcome[r]
    BY DEF PostExecute, Settle, Queue
<1>7. answer' \in [Requests -> Requests \union {None}]
      /\ \A r \in Requests : answer'[r] = IF r = job[w] THEN job[w] ELSE answer[r]
    BY <1>2, <1>5 DEF Data
<1>8. EachGetsItsOwn'
    BY <1>6, <1>7 DEF Data, EachGetsItsOwn
<1>9. out' \in [Workers -> Buffers \union {None}] /\ out'[w] = None
    BY <1>5 DEF Data
<1>10. Data'
    BY <1>2, <1>5, <1>7, <1>8, <1>9 DEF Data
<1> QED BY <1>1, <1>3, <1>4, <1>10

\* A step of the worker keeps the invariant.
LEMMA WorkInv ==
    ASSUME Serving, NEW w \in Workers, Work(w), UNCHANGED <<cli, base>>
    PROVE  Serving' /\ phase' = phase
BY TakeInv, ExitInv, PreThrowInv, PreExecuteInv, StageInv, UploadInv, InferAcquireInv, InferRunInv, InferThrowInv, PostExecuteInv, PostThrowInv DEF Work

------------------------------------------------------------------------------
(* The scheduler's owner. *)

\* The scheduler is created over a backend that is ready.
LEMMA StartSchedulerInv ==
    ASSUME Serving, StartScheduler, UNCHANGED <<cli, base>>
    PROVE  Serving' /\ phase' = phase
<1> USE DEF Serving
<1>1. Inputs' /\ Construction' /\ phase' = phase
    BY ConstructionKept DEF StartScheduler, backendVars, given, shapes, tensors, Construction
<1>2. Pools'
    BY PoolsKept DEF StartScheduler, work, Holding, backendVars, given, tensors
<1>3. Queue'
    BY DEF StartScheduler, work, Queue, Distinct, Items, backendVars
<1>4. Data'
    BY DEF StartScheduler, work, Data, EachGetsItsOwn, backendVars, given
<1> QED BY <1>1, <1>2, <1>3, <1>4

\* A request is queued behind the others.
LEMMA SubmitInv ==
    ASSUME Serving, NEW r \in Requests, Submit(r), UNCHANGED <<cli, base>>
    PROVE  Serving' /\ phase' = phase
<1> USE DEF Serving
<1>1. Inputs' /\ Construction' /\ phase' = phase
    BY ConstructionKept DEF Submit, backendVars, given, shapes, tensors, Construction
<1>2. Pools'
    BY PoolsKept DEF Submit, work, Holding, backendVars, given, tensors
<1>3. /\ outcome' = [outcome EXCEPT ![r] = "pending"] /\ tasks' = Append(tasks, r) /\ outcome[r] = "none"
      /\ life = "alive" /\ ~isClose
      /\ UNCHANGED <<life, isClose, answer, wpc, job, lent, out, holds, phase, build>>
    BY DEF Submit, Settle, work, backendVars, given
<1>4. r \notin Items(tasks)
    BY <1>3 DEF Queue
<1>5. tasks' \in Seq(Requests) /\ Items(tasks') = Items(tasks) \union {r} /\ Distinct(tasks')
    BY <1>3, <1>4, PushItems DEF Queue, Distinct
<1>6. \A s \in Requests : outcome'[s] = IF s = r THEN "pending" ELSE outcome[s]
    BY <1>3 DEF Queue
<1>7. outcome' \in [Requests -> {"none", "pending", "value", "exception"}]
    BY <1>3 DEF Queue
<1>8. \A w \in Workers :
        /\ (job[w] = None) = (wpc[w] \in {"idle", "exited"})
        /\ job[w] \notin Items(tasks') /\ wpc[w] # "exited"
        /\ job[w] # None => outcome'[job[w]] = "pending"
  <2> SUFFICES ASSUME NEW w \in Workers
               PROVE  /\ (job[w] = None) = (wpc[w] \in {"idle", "exited"})
                      /\ job[w] \notin Items(tasks') /\ wpc[w] # "exited"
                      /\ job[w] # None => outcome'[job[w]] = "pending"
    OBVIOUS
  <2>1. job[w] # r
    BY <1>3, NoneAssumption DEF Queue
  <2>2. job[w] # None => job[w] \in Requests /\ outcome[job[w]] = "pending"
    BY DEF Queue
  <2> QED BY <1>3, <1>5, <1>6, <2>1, <2>2 DEF Queue
<1>9. \A s \in Requests :
        outcome'[s] = "pending" => s \in Items(tasks') \/ \E w \in Workers : job[w] = s
    BY <1>5, <1>6 DEF Queue
<1>10. \A s \in Items(tasks') : outcome'[s] = "pending"
  <2>1. \A s \in Items(tasks) : s \in Requests
    BY DEF Queue, Items
  <2> QED BY <1>5, <1>6, <2>1 DEF Queue
<1>11. Queue'
    BY <1>3, <1>5, <1>7, <1>8, <1>9, <1>10 DEF Queue
<1>12. Data'
    BY <1>3, <1>6 DEF Data, EachGetsItsOwn
<1> QED BY <1>1, <1>2, <1>11, <1>12

\* The queue is closed.
LEMMA ShutdownInv ==
    ASSUME Serving, Shutdown, UNCHANGED <<cli, base>>
    PROVE  Serving' /\ phase' = phase
<1> USE DEF Serving
<1>1. Inputs' /\ Construction' /\ phase' = phase
    BY ConstructionKept DEF Shutdown, backendVars, given, shapes, tensors, Construction
<1>2. Pools'
    BY PoolsKept DEF Shutdown, work, Holding, backendVars, given, tensors
<1>3. Queue'
    BY DEF Shutdown, work, Queue, Distinct, Items, backendVars
<1>4. Data'
    BY DEF Shutdown, work, Data, EachGetsItsOwn, backendVars, given
<1> QED BY <1>1, <1>2, <1>3, <1>4

\* When the worker is gone the queue is empty, and nobody waits for a future.
LEMMA JoinDropsNothing ==
    ASSUME Serving, Join
    PROVE  tasks = <<>> /\ outcome' = outcome
<1>1. \A w \in Workers : job[w] = None /\ tasks = <<>>
    BY DEF Serving, Queue, Join
<1>2. 1 \in Workers
    BY DEF Workers
<1>3. tasks = <<>> /\ Items(tasks) = {}
    BY <1>1, <1>2 DEF Items
<1>4. \A r \in Requests : outcome[r] # "pending"
    BY <1>1, <1>3, NoneAssumption DEF Serving, Queue
<1>5. outcome' = [r \in Requests |-> outcome[r]]
    BY <1>4 DEF Join
<1> QED BY <1>3, <1>5 DEF Serving, Queue

\* The worker is joined and the queue is dropped.
LEMMA JoinInv ==
    ASSUME Serving, Join, UNCHANGED <<cli, base>>
    PROVE  Serving' /\ phase' = phase
<1> USE DEF Serving
<1>1. Inputs' /\ Construction' /\ phase' = phase
    BY ConstructionKept DEF Join, backendVars, given, shapes, tensors, Construction
<1>2. Pools'
    BY PoolsKept DEF Join, work, Holding, backendVars, given, tensors
<1>3. outcome' = outcome /\ tasks' = tasks
    BY JoinDropsNothing DEF Join
<1>4. Queue'
    BY <1>3 DEF Join, work, Queue, Distinct, Items, backendVars
<1>5. Data'
    BY <1>3 DEF Join, work, Data, EachGetsItsOwn, backendVars, given
<1> QED BY <1>1, <1>2, <1>4, <1>5

------------------------------------------------------------------------------
(* The tool. *)

\* A step of somebody who neither constructs nor leaves.
LEMMA ToolKept ==
    ASSUME Tool, phase' = phase, UNCHANGED <<main, exit>>
    PROVE  Tool'
BY DEF Tool, Constructing

\* The scheduler and its backend stay as they are.
LEMMA ServingKept ==
    ASSUME Serving, UNCHANGED <<cli, base, syncVars, backendVars>>
    PROVE  Serving'
<1> USE DEF Serving
<1>1. Inputs' /\ Construction'
    BY ConstructionKept DEF backendVars, Construction
<1>2. Pools'
    BY PoolsKept DEF syncVars, work, Holding, backendVars, given
<1>3. Queue'
    BY DEF syncVars, work, Queue, Distinct, Items, backendVars
<1>4. Data'
    BY DEF syncVars, work, Data, EachGetsItsOwn, backendVars, given
<1> QED BY <1>1, <1>2, <1>3, <1>4

\* An override leaves a configuration.
LEMMA OverrideConfigures ==
    ASSUME NEW config \in Configs, NEW override \in [warmUp : Nat \union {-1}, providers : Words]
    PROVE  ApplyOverride(config, override) \in Configs
<1> DEFINE turned == IF override.warmUp = -1 THEN config ELSE [config EXCEPT !.warmUp = override.warmUp]
<1>1. turned \in Configs
    BY DEF Configs
<1> HIDE DEF turned
<1>2. {override.providers} \in SUBSET Words
    OBVIOUS
<1>3. [turned EXCEPT !.given = "scalar", !.providers = {override.providers}] \in Configs
    BY <1>1, <1>2 DEF Configs
<1> QED BY <1>1, <1>3 DEF ApplyOverride, turned

\* The tool's configuration is read, or there is nothing to do.
LEMMA LoadConfigInv ==
    ASSUME Inv, LoadConfig
    PROVE  Inv'
<1> USE DEF Inv, Serving
<1>1. phase = "none" /\ phase' \in {"none", "options"} /\ life = "none" /\ build' = build
    BY DEF LoadConfig, Tool, Queue
<1>2. cli' = cli /\ base' = base /\ disk' = disk /\ node' \in Configs
  <2>1. cli.override \in [warmUp : Nat \union {-1}, providers : Words]
    BY DEF Inputs, CommandLines
  <2>2. ApplyOverride(base, cli.override) \in Configs
    BY <2>1, OverrideConfigures DEF Inputs
  <2> QED BY <2>2 DEF LoadConfig, Inputs
<1>3. Inputs'
    BY <1>1, <1>2 DEF Inputs
<1>4. Construction'
  <2>1. turns = 0 /\ turns' = 0 /\ runThrown = 0 /\ runThrown' = 0
    BY <1>1 DEF LoadConfig, Construction
  <2>2. node'.warmUp \in Nat
    BY <1>2 DEF Configs
  <2> QED BY <1>1, <2>1, <2>2, ThrowsAssumption DEF LoadConfig, Construction, Phases, Constructing
<1>5. Pools'
    BY <1>1 DEF LoadConfig, Pools, tensors
<1>6. Queue' /\ Data'
    BY <1>1, WorkUnconcerned DEF LoadConfig
<1>7. Tool'
    BY <1>1 DEF LoadConfig, Leave, Tool, Constructing
<1> QED BY <1>3, <1>4, <1>5, <1>6, <1>7

\* After a kill the constructor starts over, on the disk as it was left.
LEMMA KilledInv ==
    ASSUME Inv, KilledWhileSaving
    PROVE  Inv'
<1> USE DEF Inv, Serving
<1>1. phase = "saving" /\ phase' = "none" /\ build' = build /\ ctor' = NoLocals
    BY DEF KilledWhileSaving, given
<1>2. Inputs'
    BY DEF KilledWhileSaving, Inputs, given, Configs, CommandLines, Disks
<1>3. Construction'
  <2>1. ctor' \in Locals /\ ctor'.registered = {}
    BY <1>1 DEF NoLocals, Locals
  <2> QED BY <1>1, <2>1 DEF KilledWhileSaving, Construction, Phases, Constructing, given, shapes
<1>4. Pools'
    BY <1>1 DEF KilledWhileSaving, Pools, tensors
<1>5. Queue' /\ Data'
    BY <1>1, WorkUnconcerned DEF KilledWhileSaving
<1>6. Tool'
    BY <1>1 DEF KilledWhileSaving, Tool, Constructing
<1> QED BY <1>2, <1>3, <1>4, <1>5, <1>6

\* The request that is submitted next is a request.
LEMMA NextIsRequest ==
    ASSUME NEW who, SubmitsFor(who)
    PROVE  NextRequest \in Requests /\ Submit(NextRequest)
BY DEF SubmitsFor, NextRequest

\* Before the scheduler there is nothing to wait for, and after it nothing to construct.
LEMMA PastConstruction ==
    ASSUME Inv, main \notin {"arguments", "constructing"}
    PROVE  phase \notin Constructing
BY DEF Inv, Tool

\* A step of main, of a client or of the clock keeps the invariant.
LEMMA BenchmarkInv ==
    ASSUME Inv, BenchmarkNext
    PROVE  Inv'
<1> USE DEF Inv
<1>1. CASE LoadConfig
    BY <1>1, LoadConfigInv
<1>2. CASE ConstructorLeaves
    BY <1>2, ServingKept DEF ConstructorLeaves, Leave, Tool, Constructing, backendVars
<1>3. CASE SchedulerStarts
  <2>1. Serving' /\ phase' = phase /\ phase = "ready"
    BY <1>3, StartSchedulerInv DEF SchedulerStarts, StartScheduler
  <2> QED BY <1>3, <2>1 DEF SchedulerStarts, Tool, Constructing
<1>4. CASE Construct /\ UNCHANGED <<benchVars, syncVars>>
    BY <1>4, ConstructInv
<1>5. CASE WarmUpSubmits
  <2>1. Serving' /\ phase' = phase
    BY <1>5, NextIsRequest, SubmitInv DEF WarmUpSubmits
  <2> QED BY <1>5, <2>1, ToolKept DEF WarmUpSubmits
<1>6. CASE WarmUpGets
    BY <1>6, ServingKept, PastConstruction DEF WarmUpGets, Tool, backendVars
<1>7. CASE ClientsStart
    BY <1>7, ServingKept, PastConstruction DEF ClientsStart, Tool, backendVars
<1>8. CASE ClientsJoined
    BY <1>8, ServingKept, PastConstruction DEF ClientsJoined, Tool, backendVars
<1>9. CASE SchedulerStops
  <2>1. Serving' /\ phase' = phase
    BY <1>9, ShutdownInv DEF SchedulerStops, benchVars
  <2> QED BY <1>9, <2>1, ToolKept DEF SchedulerStops, benchVars
<1>10. CASE SchedulerJoined
  <2>1. Serving' /\ phase' = phase
    BY <1>10, JoinInv DEF SchedulerJoined
  <2> QED BY <1>10, <2>1, PastConstruction DEF SchedulerJoined, Leave, Tool
<1>11. CASE SchedulerWorks
  <2>1. Serving' /\ phase' = phase
    BY <1>11, WorkInv DEF SchedulerWorks, benchVars
  <2> QED BY <1>11, <2>1, ToolKept DEF SchedulerWorks, benchVars
<1>12. CASE KilledWhileSaving
    BY <1>12, KilledInv
<1>13. CASE TimePasses
    BY <1>13, ServingKept, ToolKept DEF TimePasses, backendVars
<1>14. ASSUME NEW c \in Clients, Client(c) PROVE Inv'
  <2>1. CASE ClientSubmits(c)
    <3>1. Serving' /\ phase' = phase
      BY <2>1, NextIsRequest, SubmitInv DEF ClientSubmits
    <3> QED BY <2>1, <3>1, ToolKept DEF ClientSubmits
  <2>2. CASE ClientGets(c)
    BY <2>2, ServingKept, PastConstruction DEF ClientGets, Leave, Tool, backendVars
  <2>3. CASE ClientLeaves(c)
    BY <2>3, ServingKept, ToolKept DEF ClientLeaves, backendVars
  <2> QED BY <1>14, <2>1, <2>2, <2>3 DEF Client
<1> QED BY <1>1, <1>2, <1>3, <1>4, <1>5, <1>6, <1>7, <1>8, <1>9, <1>10, <1>11, <1>12, <1>13, <1>14
        DEF BenchmarkNext, MainThread

\* A step of an owner of a scheduler keeps the invariant.
LEMMA OwnerInv ==
    ASSUME Inv, OwnerNext
    PROVE  Inv'
<1> USE DEF Inv
<1>1. CASE LoadConfig
    BY <1>1, LoadConfigInv
<1>2. CASE Construct /\ UNCHANGED <<benchVars, syncVars>>
    BY <1>2, ConstructInv
<1>3. CASE SyncNext /\ UNCHANGED benchVars
  <2>1. UNCHANGED <<cli, base, main, exit>>
    BY <1>3 DEF benchVars
  <2>2. Serving' /\ phase' = phase
    BY <1>3, <2>1, StartSchedulerInv, ShutdownInv, JoinInv, SubmitInv, WorkInv DEF SyncNext
  <2> QED BY <2>1, <2>2, ToolKept
<1> QED BY <1>1, <1>2, <1>3 DEF OwnerNext

------------------------------------------------------------------------------
(* The theorems. *)

\* However the programs are started, the invariant holds at the start.
LEMMA InitInv ==
    ASSUME Start
    PROVE  Inv
<1> USE DEF Start, BackendInit, SyncInit, BenchmarkInit
<1>1. Inputs /\ node.warmUp \in Nat
    BY DEF Inputs, Configs
<1>2. Construction
  <2>1. ctor \in Locals /\ ctor.registered = {}
    BY DEF Locals, NoLocals
  <2>2. phase = "none" /\ turns = 0 /\ runThrown = 0
    OBVIOUS
  <2>3. gpu = FALSE
    OBVIOUS
  <2>4. phase \in Phases
    <3>1. "none" \in Phases
      BY DEF Phases
    <3> QED BY <2>2, <3>1
  <2>5. gpu \in BOOLEAN /\ (gpu => build = "cuda")
    BY <2>3
  <2>6. ~(phase = "warmup" /\ turns # 0) /\ phase \notin {"outputs", "ready"}
    BY <2>2
  <2> QED BY <1>1, <2>1, <2>2, <2>4, <2>5, <2>6, ThrowsAssumption DEF Construction
<1>3. Pools
    BY BufferSizeAssumption DEF Pools
<1>4. Queue
  <2>1. <<>> \in Seq(Requests) /\ Distinct(<<>>) /\ Items(<<>>) = {}
    BY DEF Distinct, Items
  <2> QED BY <2>1, NoneAssumption DEF Queue
<1>5. Data
    BY DEF Data, EachGetsItsOwn
<1>6. Tool
    BY DEF Tool, Constructing
<1> QED BY <1>1, <1>2, <1>3, <1>4, <1>5, <1>6 DEF Inv, Serving

\* Every step of either program keeps the invariant, and so does stuttering.
LEMMA NextInv ==
    ASSUME Inv, [MCNext]_allVars
    PROVE  Inv'
<1>1. CASE MCNext
    BY <1>1, BenchmarkInv, OwnerInv DEF MCNext
<1>2. CASE UNCHANGED allVars
    BY <1>2, ServingKept, ToolKept DEF Inv, allVars, benchVars, backendVars
<1> QED BY <1>1, <1>2

\* The invariant holds of every start, of which the run's are a few.
THEOREM Invariant == System => []Inv
<1>1. Start => Inv
    BY InitInv
<1>2. Inv /\ [MCNext]_allVars => Inv'
    BY NextInv
<1> QED BY <1>1, <1>2, PTL DEF System

\* The types of the backend, of the worker's state and of the exit code
\* (OrtSessionWrapper.h, SyncScheduler.h, main.cpp).
THEOREM TypeCorrect == System => []TypeOK
<1>1. ASSUME Inv PROVE TypeOK
  <2>1. BackendTypeOK
    BY <1>1 DEF Inv, Serving, Inputs, Disks, Construction, Phases, Constructing, Pools, BackendTypeOK
  <2> QED BY <1>1, <2>1 DEF Inv, Serving, Queue, Data, Tool, TypeOK, SyncTypeOK
<1> QED BY <1>1, Invariant, PTL

\* A backend whose constructor returned can serve: the shape, the device and the
\* tensors are right, and no input buffer was lost to initialisation or warm-up
\* (OrtSessionWrapper.h 352-360, InferenceBackend.cpp warm_up).
THEOREM BackendServes == System => []ReadyBackendServes
<1>1. ASSUME Inv PROVE ReadyBackendServes
  <2> SUFFICES ASSUME phase = "ready" PROVE ReadyBackendServes
    BY DEF ReadyBackendServes
  <2>1. Accepts(raw, inputShape) /\ outputShape = "known" /\ gpu = (build = "cuda") /\ build \in {"cpu", "cuda"}
    BY <1>1 DEF Inv, Serving, Inputs, Construction
  <2>2. \A i \in DOMAIN pool : pool[i] \in inputTensors
  <3> SUFFICES ASSUME NEW i \in DOMAIN pool PROVE pool[i] \in inputTensors
    OBVIOUS
  <3>1. pool \in Seq(InSlices) /\ (build = "cpu" => pool = <<>>)
    BY <1>1 DEF Inv, Serving, Pools
  <3>2. pool[i] \in InSlices /\ build = "cuda"
    BY <2>1, <3>1
  <3> QED BY <1>1, <2>1, <3>2 DEF Inv, Serving, Pools
  <2>3. \A i \in DOMAIN outPool : outPool[i] \in outputTensors
  <3> SUFFICES ASSUME NEW i \in DOMAIN outPool PROVE outPool[i] \in outputTensors
    OBVIOUS
  <3>1. outPool \in Seq(OutSlices) /\ (build = "cpu" => outPool = <<>>)
    BY <1>1 DEF Inv, Serving, Pools
  <3>2. outPool[i] \in OutSlices /\ build = "cuda"
    BY <2>1, <3>1
  <3> QED BY <1>1, <3>2 DEF Inv, Serving, Pools
  <2> QED BY <1>1, <2>1, <2>2, <2>3 DEF Inv, Serving, Pools, Holding, ReadyBackendServes
<1> QED BY <1>1, Invariant, PTL

\* Every future's value was computed from its own request's data, although all
\* requests of a CPU build, and all of NAFNet, pass through one staging tensor
\* (NAFNet.cpp:49) and an output buffer is released twice.
THEOREM OwnResults == System => []EachGetsItsOwn
<1>1. Inv => EachGetsItsOwn
    BY DEF Inv, Serving, Data
<1> QED BY <1>1, Invariant, PTL

\* What is known of a start of the run.
Typed(x) ==
    /\ x.mode \in Words /\ x.filesExist \in BOOLEAN
    /\ x.override \in [warmUp : Nat \union {-1}, providers : Words]
    /\ x.level \in OptLevels \union {"absent"} /\ x.given \in {"absent", "list"}
    /\ x.providers \in SUBSET Words /\ x.warmUp \in Nat
    /\ x.model \in BOOLEAN /\ x.optimized \in {"absent", "whole"}

\* Every start of the run is in order, or differs from that in a field or two.
LEMMA StartsTyped ==
    ASSUME NEW s \in Starts
    PROVE  Typed(s)
<1>1. /\ "absent" \in Words /\ "sync" \in Words /\ "CUDA" \in Words /\ "Tensorrt" \in Words
      /\ "" \in Words
    BY ZenonT(30) DEF Words
<1>2. [warmUp |-> -1, providers |-> ""] \in [warmUp : Nat \union {-1}, providers : Words]
  <2> DEFINE word == ""
  <2>1. word \in Words
    BY <1>1
  <2> HIDE DEF word
  <2>2. [warmUp |-> -1, providers |-> word] \in [warmUp : Nat \union {-1}, providers : Words]
    BY <2>1
  <2> QED BY <2>2 DEF word
<1> DEFINE Fields == {"mode", "filesExist", "override", "level", "given", "providers", "warmUp", "raw",
                      "model", "optimized"}
<1>3. DOMAIN Good = Fields
    BY ZenonT(30) DEF Good
<1>4. Typed(Good)
  <2>1. /\ Good.mode = "sync" /\ Good.filesExist = TRUE /\ Good.level = "ORT_ENABLE_ALL"
        /\ Good.given = "list" /\ Good.providers = {"CUDA"} /\ Good.warmUp = 1
        /\ Good.model = TRUE /\ Good.optimized = "absent"
    BY ZenonT(30) DEF Good
  <2>2. Good.override = [warmUp |-> -1, providers |-> ""]
    BY ZenonT(30) DEF Good
  <2>3. Good.override \in [warmUp : Nat \union {-1}, providers : Words]
    BY <1>2, <2>2, Zenon
  <2>4. Good.level \in OptLevels
    BY <2>1 DEF OptLevels
  <2>5. Good.providers \in SUBSET Words
    BY <1>1, <2>1, Zenon
  <2>6. Good.mode \in Words
    BY <1>1, <2>1, Zenon
  <2>7. Good.filesExist \in BOOLEAN /\ Good.model \in BOOLEAN
    BY <2>1, Zenon
  <2>8. Good.given \in {"absent", "list"} /\ Good.warmUp \in Nat /\ Good.optimized \in {"absent", "whole"}
    BY <2>1
  <2> QED BY <2>3, <2>4, <2>5, <2>6, <2>7, <2>8, Zenon DEF Typed
<1>5. \A t \in {[Good EXCEPT !.mode = "absent"], [Good EXCEPT !.filesExist = FALSE]} : Typed(t)
  <2>1. "absent" \in Words
    BY <1>1
  <2> QED BY <1>3, <1>4, <2>1 DEF Typed
<1>6. \A n \in {0, 3} : Typed([Good EXCEPT !.override.warmUp = n])
    BY <1>3, <1>4 DEF Typed
<1>7. Typed([Good EXCEPT !.override.providers = "CUDA"])
  <2>1. "CUDA" \in Words
    BY <1>1
  <2> QED BY <1>3, <1>4, <2>1 DEF Typed
<1>8. \A t \in {[Good EXCEPT !.level = "absent"], [Good EXCEPT !.given = "absent"]} : Typed(t)
    BY <1>3, <1>4 DEF Typed
<1>9. \A p \in SUBSET {"Tensorrt", "CUDA"} :
        Typed([Good EXCEPT !.providers = p]) /\ Typed([Good EXCEPT !.providers = p, !.model = FALSE])
  <2>1. \A p \in SUBSET {"Tensorrt", "CUDA"} : p \in SUBSET Words
    BY <1>1, Zenon
  <2> QED BY <1>3, <1>4, <2>1 DEF Typed
<1>10. \A x : Typed([Good EXCEPT !.raw = x])
    BY <1>3, <1>4 DEF Typed
<1>11. \A t \in {[Good EXCEPT !.model = FALSE], [Good EXCEPT !.optimized = "whole", !.model = FALSE]} : Typed(t)
    BY <1>3, <1>4 DEF Typed
<1> QED
  <2>1. /\ {"Tensorrt", "CUDA"} \in SUBSET {"Tensorrt", "CUDA"}
        /\ {"Tensorrt"} \in SUBSET {"Tensorrt", "CUDA"}
    OBVIOUS
  <2> HIDE DEF Fields
  <2> DEFINE Arguments == {[Good EXCEPT !.mode = "absent"], [Good EXCEPT !.filesExist = FALSE]}
             Turns == {[Good EXCEPT !.override.warmUp = n] : n \in {0, 3}}
             Override == {[Good EXCEPT !.override.providers = "CUDA"]}
             Missing == {[Good EXCEPT !.level = "absent"], [Good EXCEPT !.given = "absent"]}
             Both == {[Good EXCEPT !.providers = {"Tensorrt", "CUDA"}]}
             NoModel == {[Good EXCEPT !.providers = {"Tensorrt"}, !.model = FALSE]}
             Shapes == {[Good EXCEPT !.raw = x] : x \in {<<1, 3, 640, 640>>, <<1, 640, 640, 3>>, <<1, 7, 7, 7>>}}
             Files == {[Good EXCEPT !.model = FALSE], [Good EXCEPT !.optimized = "whole", !.model = FALSE]}
  <2>2. Starts = {Good} \union Arguments \union Turns \union Override \union Missing \union Both
                    \union NoModel \union Shapes \union Files
    BY ZenonT(60) DEF Starts
  <2> HIDE DEF Good, Arguments, Turns, Override, Missing, Both, NoModel, Shapes, Files
  <2>3. \/ s = Good \/ s \in Arguments \/ s \in Turns \/ s \in Override \/ s \in Missing
        \/ s \in Both \/ s \in NoModel \/ s \in Shapes \/ s \in Files
    BY <2>2
  <2>4. s \in Arguments => Typed(s)
    BY <1>5, Zenon DEF Arguments
  <2>5. s \in Turns => Typed(s)
    BY <1>6, Zenon DEF Turns
  <2>6. s \in Override => Typed(s)
    BY <1>7, Zenon DEF Override
  <2>7. s \in Missing => Typed(s)
    BY <1>8, Zenon DEF Missing
  <2>8. s \in Both => Typed(s)
    BY <1>9, <2>1, Zenon DEF Both
  <2>9. s \in NoModel => Typed(s)
    BY <1>9, <2>1, Zenon DEF NoModel
  <2>10. s \in Shapes => Typed(s)
    BY <1>10, ZenonT(60) DEF Shapes
  <2>11. s \in Files => Typed(s)
    BY <1>11, Zenon DEF Files
  <2> QED BY <1>4, <2>3, <2>4, <2>5, <2>6, <2>7, <2>8, <2>9, <2>10, <2>11, Zenon

\* The starts of the run are starts: what it checks is an instance of the theorems.
THEOREM RunIsInstance == MCSpec => System
<1>1. ASSUME MCInit PROVE Start
  <2>1. PICK s \in Starts :
          /\ cli = [mode |-> s.mode, filesExist |-> s.filesExist, override |-> s.override]
          /\ base = [level |-> s.level, given |-> s.given, providers |-> s.providers,
                     warmUp |-> s.warmUp, size |-> <<640, 640>>, batch |-> 1]
          /\ disk = [model |-> s.model, optimized |-> s.optimized]
    BY <1>1, ZenonT(60) DEF MCInit
  <2>3. Typed(s)
    BY <2>1, StartsTyped
  <2>4. cli \in CommandLines
    BY <2>1, <2>3 DEF CommandLines, Typed
  <2>5. base \in Configs
    BY <2>1, <2>3 DEF Configs, Typed
  <2>6. disk \in Disks
    BY <2>1, <2>3 DEF Disks, Typed
  <2> QED BY <1>1, <2>4, <2>5, <2>6 DEF MCInit, Start
<1> QED BY <1>1, PTL DEF MCSpec, System

------------------------------------------------------------------------------
(* The scheduler is an InferenceScheduler. *)

\* A step that changes neither the futures nor whether the scheduler is open, or
\* ends a pending future with a value or an exception.
Serves ==
    \/ UNCHANGED <<outcome, isClose>>
    \/ \E r \in Requests, result \in {"value", "exception"} :
        outcome[r] = "pending" /\ Settle(r, result) /\ isClose' = isClose

\* What the worker does for a future is to settle it.
LEMMA WorkServes ==
    ASSUME Serving, NEW w \in Workers, Work(w)
    PROVE  Serves
<1>1. CASE Take(w)
    BY <1>1 DEF Take, Serves
<1>2. CASE Exit(w)
    BY <1>2 DEF Exit, Serves
<1>3. CASE PreExecute(w)
    BY <1>3 DEF PreExecute, Serves
<1>4. CASE Stage(w)
    BY <1>4 DEF Stage, Serves
<1>5. CASE Upload(w)
    BY <1>5 DEF Upload, Serves
<1>6. CASE InferRun(w)
    BY <1>6 DEF InferRun, Serves
<1>7. CASE TaskThrows(w) /\ wpc[w] \notin {"idle", "exited"}
    BY <1>7, Busy DEF TaskThrows, Serves
<1>8. CASE PostExecute(w)
    BY <1>8, Busy DEF PostExecute, Serves
<1>9. CASE InferAcquire(w)
    BY <1>9, <1>7 DEF InferAcquire, Serves
<1> QED BY <1>1, <1>2, <1>3, <1>4, <1>5, <1>6, <1>7, <1>8, <1>9
        DEF Work, PreThrow, InferThrow, PostThrow

\* What a step does for the futures is submit, settle or stop of the interface,
\* and breaks no promise.
Promised == Service!SchedulerNext /\ \A r \in Requests : outcome'[r] # "broken"

\* Settling a future is Settle of the interface.
LEMMA ServesSettles ==
    ASSUME Queue, Serves, ~UNCHANGED <<outcome, isClose>>
    PROVE  Promised
<1>1. PICK r \in Requests, result \in {"value", "exception"} :
        outcome[r] = "pending" /\ Settle(r, result) /\ isClose' = isClose
    BY DEF Serves
<1>2. \A s \in Requests : outcome'[s] = IF s = r THEN result ELSE outcome[s]
    BY <1>1 DEF Settle, Queue
<1>3. outcome' \in [Requests -> {"none", "pending", "value", "exception"}]
    BY <1>1 DEF Settle, Queue
<1>4. Service!Settle
  <2>1. outcome' \in [Requests -> {"none", "pending"} \union {"value", "exception", "broken"}]
    BY <1>3
  <2> QED BY <1>1, <1>2, <2>1 DEF Service!Settle, Service!Settled
<1> QED BY <1>3, <1>4 DEF Promised, Service!SchedulerNext

\* A request that is submitted is submitted to the interface.
LEMMA SubmitPromises ==
    ASSUME Queue, NEW r \in Requests, Submit(r)
    PROVE  Promised
<1>1. Service!Submit(r)
    BY DEF Submit, Settle, Service!Submit
<1>2. \A s \in Requests : outcome'[s] = IF s = r THEN "pending" ELSE outcome[s]
    BY DEF Submit, Settle, Queue
<1> QED BY <1>1, <1>2 DEF Promised, Service!SchedulerNext, Queue

\* Shutdown stops the interface.
LEMMA ShutdownPromises ==
    ASSUME Queue, Shutdown
    PROVE  Promised
<1>1. Service!Stop
    BY DEF Shutdown, Service!Stop
<1> QED BY <1>1 DEF Promised, Service!SchedulerNext, Shutdown, Queue

\* Every step of either program is a step of the interface, or does not concern it.
LEMMA StepPromises ==
    ASSUME Inv, [MCNext]_allVars
    PROVE  Promised \/ UNCHANGED <<outcome, isClose>>
<1>1. CASE UNCHANGED syncVars
    BY <1>1 DEF syncVars
<1>2. CASE \E r \in Requests : Submit(r)
    BY <1>2, SubmitPromises DEF Inv, Serving
<1>3. CASE Shutdown
    BY <1>3, ShutdownPromises DEF Inv, Serving
<1>4. CASE Join
    BY <1>4, JoinDropsNothing DEF Inv, Join
<1>5. CASE StartScheduler
    BY <1>5 DEF StartScheduler
<1>6. CASE \E w \in Workers : Work(w)
    BY <1>6, WorkServes, ServesSettles DEF Inv, Serving
<1>7. CASE WarmUpSubmits \/ \E c \in Clients : ClientSubmits(c)
    BY <1>2, <1>7, NextIsRequest DEF WarmUpSubmits, ClientSubmits
<1>8. ASSUME NEW c \in Clients, Client(c) PROVE Promised \/ UNCHANGED <<outcome, isClose>>
    BY <1>1, <1>7, <1>8 DEF Client, ClientGets, ClientLeaves
<1>9. CASE OwnerNext
    BY <1>1, <1>2, <1>3, <1>4, <1>5, <1>6, <1>9 DEF OwnerNext, SyncNext, LoadConfig
<1>10. CASE MainThread
    BY <1>1, <1>3, <1>4, <1>5, <1>7, <1>10
    DEF MainThread, LoadConfig, ConstructorLeaves, SchedulerStarts, WarmUpGets, ClientsStart,
        ClientsJoined, SchedulerStops, SchedulerJoined
<1>11. CASE BenchmarkNext
    BY <1>1, <1>6, <1>8, <1>10, <1>11 DEF BenchmarkNext, SchedulerWorks, KilledWhileSaving, TimePasses
<1> QED BY <1>1, <1>9, <1>11 DEF MCNext, allVars

\* The scheduler is an InferenceScheduler, and one that breaks no promise: what
\* was submitted before shutdown is worked off (SyncScheduler.h:49-55, :102).
THEOREM Refinement == System => ImplementsScheduler
<1>1. Start => Service!SchedulerInit
    BY DEF Start, SyncInit, Service!SchedulerInit
<1>2. ASSUME Inv, [MCNext]_allVars
      PROVE  [Service!SchedulerNext /\ \A r \in Requests : outcome'[r] # "broken"]_(Service!schedulerVars)
  <2>1. Promised \/ UNCHANGED <<outcome, isClose>>
    BY <1>2, StepPromises
  <2> QED BY <2>1 DEF Promised, Service!schedulerVars
<1> QED BY <1>1, <1>2, Invariant, PTL DEF System, ImplementsScheduler
==============================================================================
