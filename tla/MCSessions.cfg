SPECIFICATION Spec
CONSTANTS
    Tokens = {t1, t2, t3}
    Codes = {c1}
    Requests = {r1, r2}
    MAX_VERIFY_ATTEMPTS = 2
    MaxResets = 1
    None = None
SYMMETRY Symmetry
INVARIANTS TypeOK OneTokenPerSession SignedOutStaysOut ResetEndsSessions CodeLimits
CHECK_DEADLOCK FALSE
