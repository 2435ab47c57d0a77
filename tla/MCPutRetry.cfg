SPECIFICATION PutFairSpec
CONSTANTS
    MaxRetriesSet <- RetryCounts
    InitialDelay = 1
    MaxDelay = 6
    Multiplier = 2
    Operations = 2
    PatternLen = 2
    SourceKinds = {"random", "fixed"}
    ObjectSizes = {0, 1, 4, 7}
    BufferSizes = {1, 3, 8}
INVARIANTS
    PutTypeOK
    CallsBounded
    OneLateCall
    BackoffSchedule
    StoredIsHashed
    ReaderInSync
PROPERTIES
    OperationsEnd
    RepeatedOnlyIfRetryable
