CONSTANTS
    Requests = {r1, r2}
    None = None
    BufferSize = 2
    InferThrows = 0
    PreMayThrow = FALSE
    PostMayThrow = TRUE
    PostCopies = TRUE
SPECIFICATION FairSpec
PROPERTY
    SubmittedSettles
CHECK_DEADLOCK FALSE
