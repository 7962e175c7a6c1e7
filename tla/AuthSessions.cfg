SPECIFICATION Spec
CONSTANTS
    Requests = {q1, q2}
    Tokens = {r1, r2, r3}
    Challenges = {m1}
    LockAfter = 1
    None = None
SYMMETRY MCSymmetry
INVARIANTS SpentIsGone OneLiveToken
PROPERTIES DeadStaysDead
CHECK_DEADLOCK FALSE
