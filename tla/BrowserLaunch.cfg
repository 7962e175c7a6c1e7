SPECIFICATION MFairSpec
CONSTANTS
    Sessions = {s1}
    Ticks = {k1, k2}
    Closers = {c1}
    Polls = {p1, p2}
    None = None
INVARIANTS BrowserWatched FailedIsQuiet
PROPERTIES BrowsersEnd MonitorsEnd ModalCatchesUp CancelCloses
CHECK_DEADLOCK FALSE
