SPECIFICATION Spec
CONSTANTS
    a = a
    b = b
    k1 = k1
    c1 = c1
    c2 = c2
    Repo <- MCRepo
    Rkey <- MCRkey
    Cid <- MCCid
    Word <- MCWord
    Lang <- MCLang
    Lower <- MCLower
    Commit <- MCCommit
    Configs <- MCConfigs
    NoPost = NoPost
    NoRow = NoRow
    Worker = {p1}
    Consumer = {w1, w2}
    OutboxLimit = 1
    WireLimit = 1
    InboxLimit = 1
    MaxTrouble = 2
    MaxLog = 2
INVARIANTS
    DeletedPostGone
CHECK_DEADLOCK FALSE
