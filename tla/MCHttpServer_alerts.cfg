\* The process may have ended, or wait for clients that will not come.
CHECK_DEADLOCK FALSE
SPECIFICATION Spec
CONSTANTS
    Clients = {c1, c2}
    Requests = {"health", "query", "badJson", "garbage", "badUpgrade", "postUpgrade",
                "ingest", "telemetry", "alerts"}
    Fds = {f1, f2}
    Signals = 1
    MaxRestarts = 0
    None = None
INVARIANTS
    RejectedIsAnnounced
