------------------------------- MODULE Benchmark -------------------------------
(***************************************************************************)
(* The benchmark tool in its sync mode (benchmark/main.cpp and             *)
(* BenchmarkRunner::run_sync): arguments, overrides, the backend, the      *)
(* scheduler, a warm-up loop of the main thread, then concurrent clients   *)
(* that submit and wait until the duration is over and each has done its   *)
(* minimum.  An exception of a warm-up request unwinds main; one in a      *)
(* client thread has no handler and ends the process.                      *)
(*                                                                         *)
(* The process may be killed while the session saves the optimized model;  *)
(* whoever runs the tool starts it again on the same disk.                 *)
(***************************************************************************)
EXTENDS SyncScheduler

CONSTANTS
    Clients,        \* concurrent_clients
    WarmUps,        \* warmup_count
    MinIterations,  \* min_iterations
    MaxIterations,  \* a client's iterations before the time is up (bound)
    MaxCrashes      \* how often the process is killed (bound)

VARIABLES
    cli,        \* the command line, the files it names and the override of sync mode
    base,       \* the model configuration on the disk
    main,       \* where main is
    warm,       \* warm-up iterations done
    client,     \* where the clients are
    sent,       \* iterations of each client
    awaited,    \* the request whose future main or a client waits for
    timeUp,     \* test_duration_sec has elapsed
    exit,       \* "none", "0", "1", or "aborted"
    crashes

benchVars == <<cli, base, main, warm, client, sent, awaited, timeUp, exit, crashes>>
loop == <<warm, client, sent, awaited, timeUp>>

Main == "main"

BenchmarkInit ==
    /\ main = "arguments"
    /\ warm = 0
    /\ client = [c \in Clients |-> "none"]
    /\ sent = [c \in Clients |-> 0]
    /\ awaited = [c \in Clients \union {Main} |-> None]
    /\ timeUp = FALSE
    /\ exit = "none"
    /\ crashes = 0

Leave(code) == main' = "over" /\ exit' = code

\* A string where the model wants a list of providers.
ApplyOverride(config, override) ==
    LET turned == IF override.warmUp = -1 THEN config ELSE [config EXCEPT !.warmUp = override.warmUp]
    IN  IF override.providers = "" THEN turned
        ELSE [turned EXCEPT !.given = "scalar", !.providers = {override.providers}]

Modes == {"sync", "async", "batch", "all"}

\* --mode is required, whatever the file says; the files have to be there.  (With
\* another mode than sync the tool goes on to schedulers that are not modelled here.)
LoadConfig ==
    /\ main = "arguments"
    /\ \/ /\ cli.mode = "sync" /\ cli.filesExist
          /\ main' = "constructing" /\ node' = ApplyOverride(base, cli.override) /\ phase' = "options"
          /\ UNCHANGED exit
       \/ /\ cli.mode \notin Modes \/ ~cli.filesExist
          /\ Leave("1") /\ UNCHANGED <<node, phase>>
    /\ UNCHANGED <<cli, base, loop, crashes, syncVars>>
    /\ UNCHANGED <<build, raw, disk, ctor, gpu, shapes, tensors, turns, runThrown>>

\* The constructor's exception is caught in main.
ConstructorLeaves ==
    /\ main = "constructing"
    /\ \/ phase = "failed" /\ Leave("1")
       \/ phase = "crashed" /\ Leave("aborted")
    /\ UNCHANGED <<cli, base, loop, crashes, syncVars, backendVars>>

\* Killed while the optimized model is written, and started again.
KilledWhileSaving ==
    /\ phase = "saving"
    /\ crashes < MaxCrashes
    /\ crashes' = crashes + 1
    /\ main' = "arguments"
    /\ phase' = "none" /\ ctor' = NoLocals
    /\ UNCHANGED <<cli, base, loop, exit, syncVars, given, disk, gpu, shapes, tensors, turns, runThrown>>

SchedulerStarts ==
    /\ main = "constructing"
    /\ StartScheduler
    /\ main' = "warmup"
    /\ UNCHANGED <<cli, base, loop, exit, crashes>>

------------------------------------------------------------------------------
\* The next request of the process.
NextRequest == CHOOSE r \in Requests : outcome[r] = "none"

SubmitsFor(who) ==
    /\ awaited[who] = None
    /\ \E r \in Requests : outcome[r] = "none"
    /\ Submit(NextRequest)
    /\ awaited' = [awaited EXCEPT ![who] = NextRequest]

Ready(who) == awaited[who] # None /\ outcome[awaited[who]] # "pending"

Served(who) == Ready(who) /\ outcome[awaited[who]] = "value"

WarmUpSubmits ==
    /\ main = "warmup"
    /\ warm < WarmUps
    /\ SubmitsFor(Main)
    /\ UNCHANGED <<cli, base, main, warm, client, sent, timeUp, exit, crashes>>

\* get: with a value the next iteration; what it throws unwinds run_pipeline.
WarmUpGets ==
    /\ main = "warmup"
    /\ Ready(Main)
    /\ IF Served(Main) THEN warm' = warm + 1 /\ UNCHANGED main ELSE main' = "unwinding" /\ UNCHANGED warm
    /\ awaited' = [awaited EXCEPT ![Main] = None]
    /\ UNCHANGED <<cli, base, client, sent, timeUp, exit, crashes, syncVars, backendVars>>

ClientsStart ==
    /\ main = "warmup"
    /\ warm = WarmUps
    /\ main' = "clients"
    /\ client' = [c \in Clients |-> "loop"]
    /\ UNCHANGED <<cli, base, warm, sent, awaited, timeUp, exit, crashes, syncVars, backendVars>>

TimePasses ==
    /\ main = "clients"
    /\ ~timeUp
    /\ timeUp' = TRUE
    /\ UNCHANGED <<cli, base, main, warm, client, sent, awaited, exit, crashes, syncVars, backendVars>>

\* The loop goes on until the time is up and the minimum is reached.
ClientSubmits(c) ==
    /\ main = "clients"
    /\ client[c] = "loop"
    /\ ~timeUp \/ sent[c] < MinIterations
    /\ sent[c] < MaxIterations
    /\ SubmitsFor(c)
    /\ client' = [client EXCEPT ![c] = "waiting"]
    /\ UNCHANGED <<cli, base, main, warm, sent, timeUp, exit, crashes>>

\* What get throws leaves the thread's function: std::terminate.
ClientGets(c) ==
    /\ main = "clients"
    /\ client[c] = "waiting"
    /\ Ready(c)
    /\ IF Served(c)
       THEN /\ sent' = [sent EXCEPT ![c] = @ + 1]
            /\ client' = [client EXCEPT ![c] = "loop"]
            /\ awaited' = [awaited EXCEPT ![c] = None]
            /\ UNCHANGED <<main, exit>>
       ELSE Leave("aborted") /\ UNCHANGED <<sent, client, awaited>>
    /\ UNCHANGED <<cli, base, warm, timeUp, crashes, syncVars, backendVars>>

ClientLeaves(c) ==
    /\ main = "clients"
    /\ client[c] = "loop"
    /\ timeUp /\ sent[c] >= MinIterations
    /\ client' = [client EXCEPT ![c] = "done"]
    /\ UNCHANGED <<cli, base, main, warm, sent, awaited, timeUp, exit, crashes, syncVars, backendVars>>

ClientsJoined ==
    /\ main = "clients"
    /\ \A c \in Clients : client[c] = "done"
    /\ main' = "returning"
    /\ UNCHANGED <<cli, base, loop, exit, crashes, syncVars, backendVars>>

\* The scheduler's destructor, at the end of run_sync or of its unwinding.
SchedulerStops ==
    /\ main \in {"returning", "unwinding"}
    /\ Shutdown
    /\ UNCHANGED benchVars

SchedulerJoined ==
    /\ main \in {"returning", "unwinding"}
    /\ Join
    /\ Leave(IF main = "returning" THEN "0" ELSE "1")
    /\ UNCHANGED <<cli, base, loop, crashes>>

MainThread ==
    \/ LoadConfig \/ ConstructorLeaves \/ SchedulerStarts
    \/ Construct /\ UNCHANGED <<benchVars, syncVars>>
    \/ WarmUpSubmits \/ WarmUpGets \/ ClientsStart \/ ClientsJoined
    \/ SchedulerStops \/ SchedulerJoined

Client(c) == ClientSubmits(c) \/ ClientGets(c) \/ ClientLeaves(c)

SchedulerWorks == main # "over" /\ (\E w \in Workers : Work(w)) /\ UNCHANGED benchVars

BenchmarkNext ==
    \/ MainThread \/ SchedulerWorks \/ KilledWhileSaving \/ TimePasses
    \/ \E c \in Clients : Client(c)

------------------------------------------------------------------------------
\* Nothing gives the tool a reason to fail: its arguments, configuration, model
\* and disk are in order, the device is the one it was built for, nothing threw.
NothingWentWrong ==
    /\ cli.mode = "sync" /\ cli.filesExist
    /\ GraphOptimizationLevel \in OptLevels /\ node.given = "list" /\ node.warmUp > 0
    /\ disk.model /\ disk.optimized # "partial"
    /\ KnownLayout(raw) /\ Accepts(raw, [ParseInputMeta(raw, node.size) EXCEPT ![1] = node.batch])
    /\ build = "cuda" => gpu
    /\ runThrown = 0
    /\ \A r \in Requests : outcome[r] # "exception"

\* The tool comes to an end, and with exit code 0 if nothing went wrong, for
\* warm-ups longer than the pools, two builds and two runners, and client threads
\* that race the clock (benchmark_runner.h:268-279, main.cpp:299-305).
BenchmarkEnds == <>(main = "over" /\ (NothingWentWrong => exit = "0"))
==============================================================================
