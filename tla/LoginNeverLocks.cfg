SPECIFICATION Spec
CONSTANTS
    Requests = {q1, q2}
    Tokens = {r1, r2}
    Challenges = {m1, m2}
    LockAfter = 5
    None = None
INVARIANTS FiveFailuresLock
CHECK_DEADLOCK FALSE
