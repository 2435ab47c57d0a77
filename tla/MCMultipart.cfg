SPECIFICATION FairSpec
CONSTANTS
    PatternLen = 3
    Configs <- AllUploads
INVARIANTS
    TypeOK
    SerialFixedStores
    JoinAccounts
    AttemptsRecorded
PROPERTIES
    UploadReturns
