CONSTANTS
    Requests = {r1, r2}
    None = None
    BufferSize = 2
    InferThrows = 0
    PreMayThrow = FALSE
    PostMayThrow = FALSE
    PostCopies = TRUE
SPECIFICATION FairSpec
INVARIANT
    TasksOutlivedByStages
CHECK_DEADLOCK FALSE
