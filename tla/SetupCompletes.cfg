SPECIFICATION Spec
CONSTANTS
    Wizards = {w1}
    Seeds = {}
    Slugs = {meridian, acme}
    SeedSlug = meridian
    RowSecurity = FALSE
    Faults = FALSE
INVARIANTS RefusedOnlyAfterAnother
CHECK_DEADLOCK FALSE
