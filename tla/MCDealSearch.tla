--------------------------- MODULE MCDealSearch ---------------------------
\* DealSearch on a small instance, for TLC.  Amazon lists one product at two prices, next
\* to one without a price or one that the query does not match; Cuelinks lists one that
\* only the empty query matches.
EXTENDS DealSearch, TLC

CONSTANTS headphones, bag, wireless, travel, q1

MCTitle == (headphones :> {wireless}) @@ (bag :> {travel})
MCSignificant == q1 :> {wireless}
MCGeneric == q1 :> {}
MCWords == q1 :> {wireless}
MCTitleHas == {<<wireless, headphones>>}
MCMentioned == {}

Raw(p, price) == [product |-> p, price |-> price]
MCListings ==
    [amazon |-> {{Raw(headphones, 100), Raw(bag, 0)}, {Raw(headphones, 90), Raw(bag, 50)}},
     cuelinks |-> {{Raw(bag, 50)}}]

Symmetry == Permutations(Requests)
============================================================================
