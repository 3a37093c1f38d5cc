----------------------- MODULE MCDebtSimplification -----------------------
\* DebtSimplification on all balances of a few members up to MaxNet, also on those
\* that do not add up to zero, for TLC.
EXTENDS DebtSimplification, TLC

CONSTANT MaxNet

MCBalances == [Members -> -MaxNet..MaxNet]
============================================================================
