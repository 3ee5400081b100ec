SPECIFICATION MCSpec
CONSTANTS
    Packets <- MCPackets
    LoadedKeys <- MCLoadedKeys
    GoodOnly = TRUE
    Callers = {c1, c2}
    Heights = {7}
    Nonces = {1, 2, 3}
    Mock = FALSE
    SqlCanFail = TRUE
    MaxRequests = 3
    MaxRestarts = 1
    None = None
SYMMETRY CallerSymmetry
INVARIANTS
    TypeOK
    AcceptedIsStored
    RejectedIsWithdrawn
    PendingIsExplained
    ProofIsOwn
    OneTxPerRecord
    IndexNeverRefuses
    MetricsMatchStorage
PROPERTIES
    LedgerSpec
