SPECIFICATION FairSpec
CONSTANTS
    Users = {u1, u2}
    MfaUsers = {u2}
    Lists = {l1}
    Slots = {s1, s2}
    Nobody = Nobody
INVARIANTS ScreensHaveTheirUser OthersOnlyWhenLate SpinnersAreAwaited
PROPERTIES PollingStops
CHECK_DEADLOCK FALSE
