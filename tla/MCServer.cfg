SPECIFICATION FairSpec
CONSTANTS
    n1 = n1
    n2 = n2
    p1 = p1
    r1 = r1
    r2 = r2
    w1 = w1
    w2 = w2
    NfsConns = {n1, n2}
    PortmapConns = {p1}
    Reqs = {r1}
    ConnOf <- MCConnOf
    MaxConnections = 2
    HasPortmapper = TRUE
    Waiters = {w1, w2}
    NoWaiter = NoWaiter
INVARIANTS
    PermitsFollowConnections
    StopIsComplete
PROPERTIES
    ShutdownTerminates
CHECK_DEADLOCK FALSE
