SPECIFICATION Spec
CONSTANTS
    Loads = {a, b}
    Threads = {t}
    Fds = {fd3, fd4}
    Functions = 1
    Builds = {"bundled"}
    Configured = Configured
    None = None
INVARIANTS
    BundleOutlivesLibrary
CHECK_DEADLOCK FALSE
