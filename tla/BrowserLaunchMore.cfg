SPECIFICATION MFairSpec
CONSTANTS
    Sessions = {s1}
    Ticks = {k1, k2}
    Closers = {c1}
    Polls = {p1, p2}
    None = None
INVARIANTS TypeOK ModalTypeOK ErrorScreenIsSafe
PROPERTIES FailedIsFinal FailureIsShown
CHECK_DEADLOCK FALSE
