SPECIFICATION MCFairSpec
CONSTANTS
    Packets <- MCPackets
    LoadedKeys <- MCLoadedKeys
    GoodOnly = FALSE
    Callers = {c1}
    Heights = {7}
    Nonces = {1, 2, 3}
    Mock = TRUE
    SqlCanFail = TRUE
    MaxRequests = 3
    MaxRestarts = 2
    None = None
INVARIANTS
    VerifiedBeforeStored
PROPERTIES
    SavedIsSettled
