CONSTANTS
    p1 = p1
    p2 = p2
    p3 = p3
    f1 = f1
    t1 = t1
    t2 = t2
    c1 = c1
    c2 = c2
    w1 = w1
    w2 = w2
    Payments = {p1, p2, p3}
    Profiles = {f1}
    Tasks = {t1}
    Days = {1}
    MaxUnits = 2
    Amount <- MCAmount
    ProfileOf <- MCProfileOf
    TaskOf <- MCTaskOf
    Limits <- TwoLimits
    Workers = {w1, w2}
    ChallengeOf <- MCChallengeOf
    Outside = {}
    Expires <- MCExpires
    Terms = {"plain"}
    Settings <- LimitChanges
    StopTargets = {"GLOBAL"}
    TTL = 1
    DayLength = 1
    MaxTime = 0
SYMMETRY WorkerSymmetry
SPECIFICATION PaymentSpec
INVARIANTS
    DeniedStaysDenied
    BudgetFollowsPayment
    UnapprovedWithinLimit
PROPERTIES
    MovesBudget
