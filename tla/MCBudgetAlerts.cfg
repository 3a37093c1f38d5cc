SPECIFICATION Spec
CONSTANTS
    TxIds = {t1, t2}
    Requests = {r1, r2}
    Amounts = {4}
    Limits = {5, 10}
    MaxMonth = 2
    None = None
SYMMETRY Symmetry
INVARIANTS TypeOK NoRepeatedAlert AlertRaised
