SPECIFICATION FairSpec
CONSTANTS
    Creds = {c1, c2}
    Procs = {p1, p2}
    Secrets = {s1}
    MaxVersion = 3
    Ops = {"create", "rekey", "delete"}
    Live = {c1, c2}
    Faults = TRUE
    None = None
PROPERTIES ImplementsStore RequestsEnd
CHECK_DEADLOCK FALSE
