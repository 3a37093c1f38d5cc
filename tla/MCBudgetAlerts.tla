-------------------------- MODULE MCBudgetAlerts --------------------------
\* BudgetAlerts on a small instance, for TLC.
EXTENDS BudgetAlerts, TLC

Symmetry == Permutations(TxIds) \cup Permutations(Requests)
============================================================================
