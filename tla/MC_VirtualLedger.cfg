SPECIFICATION LedgerSpec
CONSTANTS
    t1 = t1
    t2 = t2
    Tasks = {t1, t2}
    BudgetOf <- MCBudgetOf
    Keys = {k1, k2, k3, k4, k5}
    Amounts = {0, 1, 2, 3}
    Qualities = {50, 100}
    Rates = {0, 5000, 10000}
    MaxFunds = 4
SYMMETRY KeySymmetry
CHECK_DEADLOCK FALSE
INVARIANTS
    LedgerTypeOK
    Healthy
    EntriesTellAllocations
    RewardEndsOnce
