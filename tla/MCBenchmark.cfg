CONSTANTS
    None = None
    BufferSize = 2
    MaxRunThrows = 1
    Requests = {r1, r2, r3, r4, r5}
    Clients = {c1, c2}
    WarmUps = 1
    MinIterations = 1
    MaxIterations = 2
    MaxCrashes = 1
SPECIFICATION MCSpec
INVARIANTS
    TypeOK
    ReadyBackendServes
    EachGetsItsOwn
PROPERTIES
    ImplementsScheduler
    ToolEnds
CHECK_DEADLOCK FALSE
