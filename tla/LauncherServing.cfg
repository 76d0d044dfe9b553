SPECIFICATION FairSpec
CONSTANTS
    Listeners = {"pg", "flight"}
    InitChunks = 2
    PipeCapacity = 2
    MaxSignals = 2
INVARIANTS
    TypeOK
    SealedBeforeServing
    FailureIsReported
PROPERTIES
    StopEnds
    CliEndEnds
CHECK_DEADLOCK FALSE
