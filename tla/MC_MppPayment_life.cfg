CONSTANTS
    p1 = p1
    p2 = p2
    p3 = p3
    f1 = f1
    t1 = t1
    t2 = t2
    c1 = c1
    c2 = c2
    w1 = w1
    w2 = w2
    Payments = {p1, p3}
    Profiles = {f1}
    Tasks = {t1, t2}
    Days = {1, 2, 3, 4}
    MaxUnits = 2
    Amount <- MCAmount
    ProfileOf <- MCProfileOf
    TaskOf <- TwoTasks
    Limits <- OneLimit
    Workers = {w1}
    ChallengeOf <- MCChallengeOf
    Outside = {}
    Expires <- MCExpires
    Terms = {"plain", "owner", "unlisted", "unregistered"}
    Settings <- StateChanges
    StopTargets = {"GLOBAL", "PROVIDER", "CAPABILITY"}
    TTL = 1
    DayLength = 1
    MaxTime = 3
SPECIFICATION PaymentSpec
INVARIANTS
    PaymentTypeOK
    WithinLimit
    ApprovalGate
    AuthorizedIsMarked
