SPECIFICATION Spec
CONSTANTS
    Proxies = {c1, c2}
    Conns = {x1, x2}
    Pods = {p1, p2}
    Uids = {u1}
    Versions = {1, 2, 3, 4, 5}
    Permits = {1, 2, 3, 4}
    MaxFaults = 2
    FaultKinds = {"read", "restart", "evict", "rollout", "status"}
    Overlap = FALSE
    SlowRequests = TRUE
    None = None
SYMMETRY Symmetry
INVARIANTS
    TypeOK
    ConnectionsCounted
    ClockStartsAfterConnections
    ForwardedFindsOpenGate
PROPERTIES
    IntervalIsOfThisWorker
