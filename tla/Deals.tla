-------------------------------- MODULE Deals --------------------------------
(***************************************************************************)
(* What the feed (DealFeed) and the marketplace search (DealSearch) are    *)
(* both about: products listed under search terms (src/src/modules/deals). *)
(***************************************************************************)
EXTENDS Undefined

CONSTANTS
    Products,      \* what the providers list
    Queries,       \* search terms
    DefaultQuery   \* resolveDefaultDealSearchQuery of the user's profile

ASSUME DealsAssumption == DefaultQuery \in Queries
=============================================================================
