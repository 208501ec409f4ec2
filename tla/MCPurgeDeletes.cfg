SPECIFICATION Spec
CONSTANTS
    a = a k1 = k1 k2 = k2 k3 = k3
    Repo <- MCRepo
    Rkey = {k1, k2, k3}
    Cid = {}
    Word <- MCWord
    Lang <- MCLang
    Lower <- MCLower
    NoPost = NoPost
    Commit = {}
    NoRow = NoRow
    Configs <- MCConfigs
    Feed <- MCFeed
    Contents <- MCContents
    Gone = Gone
    PageLimit = 2
    BatchSize = 1
    MaxCid = 1
    MaxClock = 1
    MaxTrouble = 0
    Unread = Unread
    First = First
    Over = Over
INVARIANTS
    PurgedMatch
CHECK_DEADLOCK FALSE
