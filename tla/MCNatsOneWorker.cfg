SPECIFICATION Spec
CONSTANTS
    a = a
    b = b
    k1 = k1
    c1 = c1
    c2 = c2
    Repo <- MCRepo
    Rkey <- MCRkey
    Cid <- MCCid
    Word <- MCWord
    Lang <- MCLang
    Lower <- MCLower
    Commit <- MCCommit
    Configs <- MCConfigs
    NoPost = NoPost
    NoRow = NoRow
    Worker = {p1, p2}
    Consumer = {w1}
    OutboxLimit = 1
    WireLimit = 1
    InboxLimit = 2
    MaxTrouble = 2
    MaxLog = 3
INVARIANTS
    ConvergedWithOneWorker
CHECK_DEADLOCK FALSE
