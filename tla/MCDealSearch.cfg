SPECIFICATION Spec
CONSTANTS
    headphones = headphones
    bag = bag
    wireless = wireless
    travel = travel
    q1 = q1
    Products = {headphones, bag}
    Queries = {q1}
    DefaultQuery = q1
    Title <- MCTitle
    Significant <- MCSignificant
    Generic <- MCGeneric
    Blocked = {}
    Words <- MCWords
    TitleHas <- MCTitleHas
    Mentioned <- MCMentioned
    Listings <- MCListings
    Configured = {"amazon", "cuelinks"}
    Requests = {r1, r2}
    StaleAfter = 0
    MaxTime = 1
    None = None
SYMMETRY Symmetry
CHECK_DEADLOCK FALSE
INVARIANTS LatestListingKept
PROPERTIES LowIsEarned CacheServesOwnSearch
