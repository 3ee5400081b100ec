SPECIFICATION MCSpec
CONSTANTS
    Packets <- MCPackets
    LoadedKeys <- MCLoadedKeys
    GoodOnly = TRUE
    Callers = {c1}
    Heights = {7}
    Nonces = {1, 2}
    Mock = TRUE
    SqlCanFail = FALSE
    MaxRequests = 2
    MaxRestarts = 1
    None = None
INVARIANTS
    ValidIsAccepted
