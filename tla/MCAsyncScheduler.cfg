CONSTANTS
    Requests = {r1, r2, r3}
    None = None
    BufferSize = 2
    InferThrows = 1
    PreMayThrow = TRUE
    PostMayThrow = TRUE
    PostCopies = FALSE
SPECIFICATION FairSpec
INVARIANTS
    TypeOK
    OutputBufferExclusive
    InputBuffersAccountedFor
    NoStageCalledAfterDestroy
PROPERTIES
    ImplementsScheduler
    SubmittedReachesPost
CHECK_DEADLOCK FALSE
