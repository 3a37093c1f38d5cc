------------------------- MODULE MCGroupMembership -------------------------
\* GroupMembership on a small instance, for TLC: Bob and bob differ in case only, and
\* " bob" and " You" are sent with a space in front.
EXTENDS GroupMembership, TLC

CONSTANTS bob, Bob, ann, _bob, _You

MCNames == {You, bob, Bob, ann}
MCWritten == MCNames \cup {_bob, _You}
MCTrim == [n \in MCNames |-> n] @@ (_bob :> bob) @@ (_You :> You)
MCFold == [n \in MCWritten |-> IF n = Bob THEN bob ELSE n]
MCListed == <<bob>>
MCEdits == {<<You, bob>>, <<Bob>>, <<ann, You>>, <<_bob>>, <<You, bob, _You>>}

Symmetry == Permutations(Requests) \cup Permutations(Guests)
============================================================================
