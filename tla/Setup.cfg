SPECIFICATION FairSpec
CONSTANTS
    Wizards = {w1, w2}
    Seeds = {d1, d2}
    Slugs = {meridian, acme}
    SeedSlug = meridian
    RowSecurity = FALSE
    Faults = TRUE
INVARIANTS TypeOK NothingHalfMade SeedingCompletes
PROPERTIES SetupsEnd
CHECK_DEADLOCK FALSE
