SPECIFICATION Spec
CONSTANTS
    Creds = {c1}
    Procs = {p1}
    Secrets = {s1}
    MaxVersion = 2
    Ops = {"create", "rekey"}
    Live = {c1}
    Faults = FALSE
    None = None
INVARIANTS UsernameReadable
CHECK_DEADLOCK FALSE
