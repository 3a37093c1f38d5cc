SPECIFICATION Spec
CONSTANTS
    bob = bob
    Bob = Bob
    ann = ann
    _bob = _bob
    _You = _You
    Owner = owner
    Guests = {g1, g2}
    You = You
    Names <- MCNames
    Written <- MCWritten
    Trim <- MCTrim
    Fold <- MCFold
    Listed <- MCListed
    Edits <- MCEdits
    Requests = {r1, r2, r3, r4}
    None = None
SYMMETRY Symmetry
CHECK_DEADLOCK FALSE
INVARIANTS SettledStaysLinked ExpenseNamesKept
