SPECIFICATION Spec
CONSTANTS
    Members = {ann, ben, cat}
    Expenses = {e1, e2, e3}
    Requests = {r1, r2}
    Bodies <- MCBodies
    Payments = {2}
    Tolerance = 1
    None = None
SYMMETRY Symmetry
CONSTRAINT FewAtOnce
INVARIANTS LedgerTypeOK SplitsAddUp SimplifiedLeavesDrift PairwiseLeavesDrift
PROPERTY SettleUpReducesDebt
