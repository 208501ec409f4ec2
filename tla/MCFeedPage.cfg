SPECIFICATION FairSpec
CONSTANTS
    Uri = {u1, u2}
    Feed = {bald, head}
    Client = {r1}
    DefaultLimit = 1
    LimitCap = 2
    MaxCid = 2
    MaxClock = 1
    NoRow = NoRow
    Unread = Unread
    First = First
    Over = Over
PROPERTIES
    EveryTraversalEnds
INVARIANTS
    Descending
    Complete
