CONSTANTS
    m1 = m1
    m2 = m2
    e1 = e1
    y1 = y1
    k1 = k1
    k2 = k2
    k3 = k3
    n1 = n1
    n2 = n2
    alice = alice
    bob = bob
    t1 = t1
    s1 = s1
    s2 = s2
    NoParent = NoParent
    NoSource = NoSource
    Registrations <- MCRegistrations
    MaskOf <- MCMaskOf
    Sessions = {s1, s2}
    Tasks = {t1}
    Commands <- MCCommands
    Envelopes <- MCEnvelopes
    MaxTime = 1
SPECIFICATION GatewaySpec
CONSTRAINT RecordsApart
INVARIANTS
    AppliedIsAnswered
    OwnAnswer
    StoryTold
