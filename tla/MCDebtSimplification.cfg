SPECIFICATION FairSpec
CONSTANTS
    Members = {ann, ben, cat, dan}
    MaxNet = 3
    Balances <- MCBalances
INVARIANTS TypeOK NothingOverpaid OneSideSettled FewPayments
PROPERTY Terminates
