\* A health check that overlaps Shutdown.
SPECIFICATION Spec
CONSTANTS
    p1 = p1
    p2 = p2
    Pids = {p1, p2}
    Clients = {}
    MaxFailures = 2
    None = None
INVARIANT ShutdownIsFinal
