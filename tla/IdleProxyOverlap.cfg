SPECIFICATION Spec
CONSTANTS
    Proxies = {c1, c2}
    Conns = {x1}
    Pods = {p1, p2}
    Uids = {u1, u2, u3}
    Versions = {1, 2, 3, 4, 5}
    Permits = {1, 2, 3, 4}
    MaxFaults = 2
    FaultKinds = {"sigterm", "timeout", "restart", "evict", "rollout", "helm", "replace"}
    Overlap = TRUE
    SlowRequests = FALSE
    None = None
SYMMETRY Symmetry
INVARIANTS
    FencedBeforeContact
PROPERTIES
    SleepKillsNoSession
    WakeOnlyFromNothing
