SPECIFICATION FairSpec
CONSTANTS
    Requests = {r1, r2}
    Janitor = Janitor
    Conns = {c1, c2}
    Mem = Mem
    MaxAsks = 3
    MaxTenants = 1
INVARIANTS OneDatabase ExitIsClean
PROPERTIES RequestsEnd DrainEnds JanitorReturns
CHECK_DEADLOCK FALSE
