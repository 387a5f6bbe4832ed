SPECIFICATION SignerSpec
CONSTANTS
    Threads = {t1, t2}
    Requests = {"pay"}
    Unprepared = {}
    Outcomes = {"accepted"}
    PersistenceFails = FALSE
    MaxCalls = 2
    MaxVersion = 2
    KeyOf <- SomeKey
    NonceOf <- SomeNonce
    AuthOf <- SomeAuth
INVARIANT TransportRunsOnce
