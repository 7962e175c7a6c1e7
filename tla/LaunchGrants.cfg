SPECIFICATION Spec
CONSTANTS
    Users = {u1, u2}
    Creds = {c1}
    Apps = {a1}
    Janitor = Janitor
    Procs = {p1, p2}
    Grants = {g1}
    Sessions = {s1, s2}
    Opens = {c1}
    GrantTTL = 1
    SessionTTL = 1
    Retention = 1
    MaxConcurrent = 1
    MaxTime = 3
    Faults = {p1, p2, Janitor}
    None = None
SYMMETRY MCSymmetry
INVARIANTS OneSessionPerGrant AuditTrail
PROPERTIES UsedNeverPerformed ImplementsPromise
CHECK_DEADLOCK FALSE
