SPECIFICATION FairSpec
CONSTANTS
    Feed = {f1}
    BufferSize = 1
    None = None
    Handler = {h1, h2}
    Count = 2
    MaxViews = 2
    Loads <- MCLoads
INVARIANTS
    TypeOK
    ViewsCounted
    PanicOnlyWhenForced
    HealthSound
PROPERTIES
    StopEnds
    QueueMoves
CHECK_DEADLOCK FALSE
