CONSTANTS
    p1 = p1
    p2 = p2
    f1 = f1
    t1 = t1
    Payments = {p1, p2}
    Profiles = {f1}
    Tasks = {t1}
    Days = {1, 2}
    MaxUnits = 2
    Amount <- MCAmount
    ProfileOf <- MCProfileOf
    TaskOf <- MCTaskOf
    Limits <- MCLimits
    Transactions = {x1, x2}
    NoTransaction = NoTransaction
SPECIFICATION LocksSpec
INVARIANTS
    CommitHoldsLocks
    Conserved
PROPERTIES
    ImplementsBudget
    EveryTransactionEnds
