CONSTANTS
    Callers = {c1, c2, c3, c4}
    Base = 64
    EleSize = 2
    EleBytes = 4
    Requested = {1, 2, 3}
    Frames = 6
    Producers = {p1, p2}
    Consumers = {q1, q2}
    Capacities = {0, 1, 2}
    MaxSize = 2
    Objects = {1, 2}
SPECIFICATION MCSpec
INVARIANTS
    TypeOK
    OneHolderPerSlice
    LentSliceIsRegistered
    ReleaseNeverThrows
    WakeupsCoverFreeSlices
    VideoInOrder
    ChannelWakesEverybody
    LendingServesEverybody
PROPERTIES
    NothingLentOnceClosed
    CloseEmptiesPool
