SPECIFICATION FairSpec
CONSTANTS
    Users = {u1, u2}
    Collections = {c1}
    Credentials = {k1}
    Applications = {a1}
    Connectors = {n1}
    Requests = {r1}
    Present = {{u1, c1, k1, r1}, {u1, u2, c1}}
    Disabled = {u2}
    Slots = {h1, h2}
    MaxArrivals = 2
INVARIANTS ChangesRecorded
PROPERTIES StaysDeleted DecidedOnce MembersAsAsked RequestsEnd
CHECK_DEADLOCK FALSE
