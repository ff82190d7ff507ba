------------------------------ MODULE MCBenchmark ------------------------------
(***************************************************************************)
(* Two ways to use a backend and its scheduler; aspect says which.         *)
(*   "benchmark"  the tool: a start that is in order, or out of order in   *)
(*                one respect.  Three warm-up turns are more than the two  *)
(*                input buffers; five requests would use up four output    *)
(*                buffers that are not given back.                         *)
(*   "owner"      an owner that submits without waiting and shuts down at  *)
(*                any time, on a backend constructed by itself.            *)
(***************************************************************************)
EXTENDS Benchmark

VARIABLE aspect

allVars == <<aspect, benchVars, syncVars, backendVars>>

Good ==
    [mode |-> "sync", filesExist |-> TRUE, override |-> [warmUp |-> -1, providers |-> ""],
     level |-> "ORT_ENABLE_ALL", given |-> "list", providers |-> {"CUDA"}, warmUp |-> 1,
     raw |-> <<-1, 3, -1, -1>>, model |-> TRUE, optimized |-> "absent"]

\* One start in order, and those that differ in one respect.
Starts ==
    {Good}
    \union {[Good EXCEPT !.mode = "absent"], [Good EXCEPT !.filesExist = FALSE]}
    \union {[Good EXCEPT !.override.warmUp = n] : n \in {0, 3}}
    \union {[Good EXCEPT !.override.providers = "CUDA"]}
    \union {[Good EXCEPT !.level = "absent"], [Good EXCEPT !.given = "absent"]}
    \union {[Good EXCEPT !.providers = {"Tensorrt", "CUDA"}]}
    \union {[Good EXCEPT !.providers = {"Tensorrt"}, !.model = FALSE]}
    \union {[Good EXCEPT !.raw = s] : s \in {<<1, 3, 640, 640>>, <<1, 640, 640, 3>>, <<1, 7, 7, 7>>}}
    \union {[Good EXCEPT !.model = FALSE], [Good EXCEPT !.optimized = "whole", !.model = FALSE]}

MCInit ==
    /\ aspect \in {"benchmark", "owner"}
    /\ build \in {"cpu", "cuda"}
    /\ runner \in {"yolo", "nafnet"}
    /\ \E s \in Starts :
        /\ aspect = "owner" => s = Good
        /\ cli = [mode |-> s.mode, filesExist |-> s.filesExist, override |-> s.override]
        /\ base = [level |-> s.level, given |-> s.given, providers |-> s.providers,
                   warmUp |-> s.warmUp, size |-> <<640, 640>>, batch |-> 1]
        /\ raw = s.raw
        /\ disk = [model |-> s.model, optimized |-> s.optimized]
    /\ node = base
    /\ BackendInit /\ SyncInit /\ BenchmarkInit

\* The owner's backend is constructed as the tool's is; then the owner takes over.
OwnerNext ==
    \/ LoadConfig
    \/ Construct /\ UNCHANGED <<benchVars, syncVars>>
    \/ SyncNext /\ UNCHANGED benchVars

MCNext ==
    /\ UNCHANGED aspect
    /\ \/ aspect = "benchmark" /\ BenchmarkNext
       \/ aspect = "owner" /\ OwnerNext

\* The main thread, the clients, the worker and the clock go on; nothing else has
\* to happen.
MCSpec ==
    /\ MCInit /\ [][MCNext]_allVars
    /\ WF_allVars(aspect = "benchmark" /\ MainThread /\ UNCHANGED aspect)
    /\ WF_allVars(aspect = "benchmark" /\ SchedulerWorks /\ UNCHANGED aspect)
    /\ WF_allVars(aspect = "benchmark" /\ TimePasses /\ UNCHANGED aspect)
    /\ \A c \in Clients : WF_allVars(aspect = "benchmark" /\ Client(c) /\ UNCHANGED aspect)

------------------------------------------------------------------------------
TypeOK == SyncTypeOK /\ exit \in {"none", "0", "1", "aborted"} /\ (exit = "none") = (main # "over")

\* When it is the benchmark that runs, it ends.
ToolEnds == aspect = "benchmark" => BenchmarkEnds
==============================================================================
