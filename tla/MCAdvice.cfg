SPECIFICATION AdviceSpec
CONSTANTS
    None = None
    Categories = {Food, Shopping}
    Prices = {1, 2}
    Incomes = {4}
    Limits = {2}
    Dues = {2}
    Bills = {rent}
    SnapshotLimit = 2
    ProfileLimit = 3
    FewExpenses = 2
    LastMonth = 2
    MaxTransactions = 3
INVARIANTS
    BillsStayPayable
    BudgetAdviceRight
SYMMETRY Symmetry
