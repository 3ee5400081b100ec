\* The process may have ended, or wait for clients that will not come.
CHECK_DEADLOCK FALSE
SPECIFICATION FairSpec
CONSTANTS
    Clients = {c1, c2, c3}
    Requests = {"badJson", "postUpgrade", "ingest", "telemetry"}
    Fds = {f1, f2}
    Signals = 1
    MaxRestarts = 0
    None = None
PROPERTIES
    StopEnds
    WaitEnds
