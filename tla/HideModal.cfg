SPECIFICATION MSpec
CONSTANTS
    Sessions = {s1}
    Ticks = {k1, k2}
    Closers = {c1}
    Polls = {p1, p2}
    None = None
PROPERTIES HideLeavesBrowser
CHECK_DEADLOCK FALSE
