-------------------------- MODULE MCGroupBalances --------------------------
\* GroupBalances on small instances, for TLC.
EXTENDS GroupBalances, TLC

Alone(m, x) == [n \in Members |-> IF n = m THEN x ELSE 0]
Even == [n \in Members |-> 1]

Sent(p, t, s) == [paidBy |-> p, total |-> t, split |-> s]

\* A bill of three for three, which may be corrected to two and be split on one
\* member alone or be paid by another; a total of five does not fit these splits.
MCBodies ==
    {Sent(m, 3, Even) : m \in Members}
    \cup {Sent(None, 2, None)}
    \cup {Sent(None, t, Alone(m, 2)) : t \in {None, 5}, m \in Members}
    \cup {Sent(m, None, None) : m \in Members}

Symmetry == Permutations(Members) \cup Permutations(Expenses) \cup Permutations(Requests)

\* The bound on what is there at once: two bills and a settle-up, or fewer of them and
\* updates in flight; of two updates that overlap the bill is the only expense.
InFlight == {r \in Requests : edit[r] # NoEdit}
FewAtOnce ==
    /\ Cardinality(Recorded) + Cardinality(InFlight) <= 3
    /\ Cardinality(Bills) <= 2
    /\ overlapped # {} => Cardinality(Recorded) <= 1
============================================================================
