SPECIFICATION FairSpec
CONSTANTS
    Queries = {q1, q2}
    Texts = {empty, ephemeral, known, withnul}
    Empty = empty
    Null = Null
    NotUtf8 = NotUtf8
    Err = Err
    None = None
    ErrorCapacity = 2
    MaxUsize = 5
    MaxU32 = 56
    Serves = {"FlightSql"}
    StopNames = {"flight", "adbc"}
    Requested = {ephemeral, known, empty}
    Ephemeral = {ephemeral}
    Known = known
    Unprintable = {withnul}
    VectorSize = 2
    MessageSizes = {0, 2, 3}
    Tables <- SomeTables
    Earlier <- SomeEarlier
    Providers = {"mock", "other"}
INVARIANTS
    TypeOK
    CallsAreSound
    PagesInOrder
    DiagnosticIsWhole
PROPERTIES
    FailedServeStartsNothing
    KeepsRegistry
    QueriesAreAnswered
CHECK_DEADLOCK FALSE
