SPECIFICATION FairSpec
CONSTANTS
    NumKeys = 5
    PageSize = 2
    OtherWrites = 1
    Faults = 1
INVARIANTS
    TypeOK
    SweptUnlessSkipped
    UnmarkedSurvives
    DeletedIsConfirmed
PROPERTIES
    CleanupEnds
