\* The process may have ended, or wait for clients that will not come.
CHECK_DEADLOCK FALSE
SPECIFICATION Spec
CONSTANTS
    Clients = {c1, c2, c3, c4}
    Requests = {"ingest", "telemetry", "alerts"}
    Fds = {f1, f2, f3}
    Signals = 1
    MaxRestarts = 1
    None = None
SYMMETRY Symmetry
INVARIANTS
    TypeOK
    OwnedOnce
    EventsComplete
