SPECIFICATION Spec
CONSTANTS
    Creds = {c1}
    Procs = {p1, p2}
    Secrets = {s1, s2}
    MaxVersion = 2
    Ops = {"create", "rotate", "rekey"}
    Live = {c1}
    Faults = FALSE
    None = None
INVARIANTS Readable
CHECK_DEADLOCK FALSE
