SPECIFICATION Spec
CONSTANTS
    Proxies = {c1, c2}
    Conns = {x1, x2}
    Pods = {p1, p2}
    Uids = {u1}
    Versions = {1, 2, 3, 4, 5}
    Permits = {1, 2, 3, 4}
    MaxFaults = 2
    FaultKinds = {"read", "timeout", "crash", "sigterm", "restart", "evict", "status", "rollout"}
    Overlap = FALSE
    SlowRequests = TRUE
    None = None
SYMMETRY Symmetry
INVARIANTS
    FencedBeforeReuse
PROPERTIES
    SleepKillsNoSession
    KeepsPromise
