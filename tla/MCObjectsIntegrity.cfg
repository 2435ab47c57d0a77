SPECIFICATION Spec
CONSTANTS
    w1 = w1
    w2 = w2
    k1 = k1
    k2 = k2
    Workers <- WorkerSet
    Keys <- KeySet
    Sizes = {1, 2}
    Mix <- WriteMix
    Tags <- PlainTags
    Thresholds = {2}
    MaxAttempts = 2
    OpsBound = 3
SYMMETRY Symmetry
INVARIANTS
    TypeOK
    HashesFit
    FailuresWithinTotal
