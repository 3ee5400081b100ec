\* The process may have ended, or wait for clients that will not come.
CHECK_DEADLOCK FALSE
SPECIFICATION FairSpec
CONSTANTS
    c1 = c1
    c2 = c2
    Clients <- MCClients
    Purposes <- MCPurposes
    Packets <- MCPackets
    Requests = {"ingest", "query", "telemetry"}
    Fds = {f1, f2}
    Signals = 1
    LoadedKeys <- MCLoadedKeys
    Heights = {7}
    Nonces = {1, 2}
    Mock = FALSE
    SqlCanFail = TRUE
    MaxRestarts = 1
    None = None
    Thread = main
INVARIANTS
    TypeOK
    RepliesAreTrue
    EventsMatchStorage
    DuplicatesAreResends
PROPERTIES
    SavedIsSettled
