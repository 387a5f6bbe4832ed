CONSTANTS
    c1 = c1
    c2 = c2
    c3 = c3
    k1 = k1
    k2 = k2
    n1 = n1
    n2 = n2
    Challenges = {c1, c2, c3}
    KeyOf <- MCKeyOf
    NonceOf <- MCNonceOf
    Foreign = {c3}
    Malformed = {}
    Barred = {c2, c3}
    Payments <- MCPayments
    MaxRaises = 1
    MaxLives = 2
SPECIFICATION ClientSpec
INVARIANTS
    PaidOnce
    OnlyAllowedIsPaid
    EffectsAccounted
    HistoryKeepsPace
PROPERTIES
    ImplementsPaidService
CHECK_DEADLOCK FALSE
