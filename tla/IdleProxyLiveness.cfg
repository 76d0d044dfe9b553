SPECIFICATION FairSpec
CONSTANTS
    Proxies = {c1, c2}
    Conns = {x1}
    Pods = {p1, p2}
    Uids = {u1}
    Versions = {1, 2, 3, 4, 5}
    Permits = {1, 2, 3}
    MaxFaults = 1
    FaultKinds = {"timeout", "crash", "sigterm", "restart", "evict", "status", "rollout"}
    Overlap = FALSE
    SlowRequests = TRUE
    None = None
PROPERTIES
    WaitingIsAnswered
    SuspensionEnds
    QuietWorkerSleeps
