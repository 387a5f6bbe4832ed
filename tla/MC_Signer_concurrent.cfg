SPECIFICATION SignerSpec
CONSTANTS
    Threads = {t1, t2}
    Requests = {"pay", "again", "rebind"}
    Unprepared = {}
    Outcomes = {"accepted", "refused", "raised", "lost"}
    PersistenceFails = FALSE
    MaxCalls = 3
    MaxVersion = 2
    KeyOf <- SomeKey
    NonceOf <- SomeNonce
    AuthOf <- SomeAuth
INVARIANTS ConfirmedIsComplete NoLeakedReservation EachCallerSendsOnce
SYMMETRY CallerSymmetry
