SPECIFICATION Spec
CONSTANTS
    a = a
    b = b
    k1 = k1
    k2 = k2
    c1 = c1
    c2 = c2
    c3 = c3
    Repo <- MCRepo
    Rkey <- MCRkey
    Cid <- MCCid
    Word <- MCWord
    Lang <- MCLang
    Lower <- MCLower
    Commit <- MCCommit
    Configs <- MCConfigs
    NoPost = NoPost
    NoRow = NoRow
    Worker = {w1, w2}
    MaxLog = 3
INVARIANTS
    TypeOK
    RepoOrder
    NoOrphan
    NoSilentLoss
    Converged
PROPERTIES
    DeliversInOrder
