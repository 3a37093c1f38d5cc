--------------------------- MODULE MCGroupShares ---------------------------
\* GroupShares on a small instance, for TLC.
EXTENDS GroupShares, TLC

CONSTANTS a1, a2

\* Everyone at a1, or one member alone at a2: enough to change an amount, to drop a
\* member and to take a member back.
MCSplitLists ==
    {[m \in Members |-> a1]}
    \cup {[m \in Members |-> IF m = n THEN a2 ELSE None] : n \in Members}

\* Ids, requests, members and titles are interchangeable; amounts are not, as
\* MCSplitLists tells them apart.
Symmetry == Permutations(TxIds) \cup Permutations(Requests)
            \cup Permutations(Members) \cup Permutations(Infos)
============================================================================
