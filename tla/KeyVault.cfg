SPECIFICATION Spec
CONSTANTS
    Creds = {c1, c2}
    Procs = {p1, p2}
    Secrets = {s1, s2, s3}
    MaxVersion = 3
    Ops = {"create", "rotate", "rekey", "delete"}
    Live = {c1}
    Faults = TRUE
    None = None
SYMMETRY MCSymmetry
INVARIANTS NewestKeyActive RotationHoldsTarget
PROPERTIES KeyStatesAdvance OutOfStepOnlyBy
CHECK_DEADLOCK FALSE
