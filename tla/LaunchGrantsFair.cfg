SPECIFICATION FairSpec
CONSTANTS
    Users = {u1}
    Creds = {c1}
    Apps = {a1}
    Janitor = Janitor
    Procs = {p1, p2}
    Grants = {g1}
    Sessions = {s1}
    Opens = {c1}
    GrantTTL = 1
    SessionTTL = 1
    Retention = 1
    MaxConcurrent = 1
    MaxTime = 3
    Faults = {Janitor}
    None = None
PROPERTIES RequestsEnd LapsedSessionsEnd StaleGrantsGo
CHECK_DEADLOCK FALSE
