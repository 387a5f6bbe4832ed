CONSTANTS
    r1 = r1
    global = global
    w1 = w1
    w2 = w2
    o1 = o1
    o2 = o2
    Targets = {global, r1}
    Operators = {o1, o2}
    MaxVersion = 3
    Workers = {w1, w2}
    Runs = {r1}
    ScanOf <- MCScanOf
    MaxRetries = 1
SPECIFICATION RunSpec
INVARIANTS
    CallsBounded
    StopHonoured
    HistoryTold
    AttemptsTold
PROPERTIES
    RunEnds
CHECK_DEADLOCK FALSE
