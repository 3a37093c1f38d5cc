SPECIFICATION Spec
CONSTANTS
    Members = {alice, bob}
    Expenses = {e1}
    TxIds = {t1, t2}
    Requests = {r1, r2}
    Amounts = {a1, a2}
    Infos = {i1, i2}
    a1 = a1
    a2 = a2
    SplitLists <- MCSplitLists
    None = None
SYMMETRY Symmetry
INVARIANTS TypeOK LinkIsOwnCopy AckedCopyTracked ShareFollowsExpense
PROPERTY LinkStable
CHECK_DEADLOCK FALSE
