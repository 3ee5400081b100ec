SPECIFICATION Spec
CONSTANTS
    Caller = c1
    Hashes = {h1, h2}
    Heights = {7, 8}
    Nonces = {1, 2}
    RpcTimes = {0, 1, 13}
    MaxWait = 10
    PollInterval = 2
    None = None
INVARIANTS
    TypeOK
    PollsBounded
    ReceiptIsTrue
PROPERTIES
    ContractSpec
