SPECIFICATION FairSpec
CONSTANTS
    Ip = {i1, i2}
    Request = {r1, r2}
    Limiter = {l1, l2, l3, l4}
    Rate = 1
    Burst = 2
    MaxAge = 5
    None = None
INVARIANTS
    TypeOK
    PromiseInv
PROPERTIES
    KeepsPromise
    Forgotten
