SPECIFICATION Spec
CONSTANTS
    Procs = {p, q}
    Users = {alice, bob}
    Tokens = {airport}
    Policies = {tls, broken}
    BadPolicies = {broken}
    Counts = {1, 2}
    MinimumIterations = 2
    DefaultIterations = 3
    Environment = None
    None = None
    Absent = Absent
    Torn = Torn
    Before = Before
    Overlaps = {"none", "prompts", "all"}
    MaxEdits = 1
    MaxLosses = 1
INVARIANTS
    TypeOK
    WholeDocument
    NoLitter
PROPERTIES
    SectionsKept
    AcknowledgedStands
CHECK_DEADLOCK FALSE
