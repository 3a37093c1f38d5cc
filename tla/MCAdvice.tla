------------------------------ MODULE MCAdvice ------------------------------
\* The advisers on up to three transactions over two months and one bill, with amounts
\* that can exceed each other.
EXTENDS Advice, TLC

Symmetry == Permutations(Categories)
=============================================================================
