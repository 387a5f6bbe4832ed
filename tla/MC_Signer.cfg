SPECIFICATION SignerSpec
CONSTANTS
    Threads = {t1}
    Requests = {"pay", "again", "rebind", "reuse"}
    Unprepared = {"pay"}
    Outcomes = {"accepted", "refused", "raised"}
    PersistenceFails = TRUE
    MaxCalls = 3
    MaxVersion = 2
    KeyOf <- SomeKey
    NonceOf <- SomeNonce
    AuthOf <- SomeAuth
INVARIANT EffectIsSingle
PROPERTY ResultIsFinal
