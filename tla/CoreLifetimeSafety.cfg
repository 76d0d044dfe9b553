SPECIFICATION Spec
CONSTANTS
    Loads = {a, b, c}
    Threads = {t}
    Fds = {fd3, fd4, fd5}
    Functions = 2
    Builds = {"bundled", "external"}
    Configured = Configured
    None = None
INVARIANTS
    TypeOK
    CallsAreBacked
    LibraryIsOwn
    NothingLeft
CHECK_DEADLOCK FALSE
