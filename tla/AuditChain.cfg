SPECIFICATION FairSpec
CONSTANTS
    Tenants = {t1, t2}
    Writers = {w1, w2, w3}
    Covered = {c1, c2}
    Uncovered = {u1}
    SetupTenants = {t1}
    SetupCovered = c1
    SetupUncovered = u1
    LockKey <- MCSharedKey
    SerializingLock = TRUE
    MaxId = 5
    NoWriter = NoWriter
    NoRequest = NoRequest
INVARIANTS ChainIntact TamperEvident
PROPERTIES ImplementsLog CallEnds
CHECK_DEADLOCK FALSE
