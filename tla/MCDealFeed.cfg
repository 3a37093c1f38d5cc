SPECIFICATION FairSpec
CONSTANTS
    Products = {p1}
    Categories = {c1, c2}
    Prices = {85, 100}
    Queries = {q1}
    DefaultQuery = q1
    IsConfigured <- MCConfigured
    Refreshes = {1, 2}
    Clicks = {k1}
    None = None
CHECK_DEADLOCK FALSE
INVARIANTS AckedTrackingKept OneBatchPerCategory
PROPERTY DropAnnounced
