SPECIFICATION PacedSpec
CONSTANTS
    w1 = w1
    w2 = w2
    w3 = w3
    Workers <- ThreeWorkers
    Configs <- PacedConfigs
    CounterCap = 7
    RateLimits <- SomeRates
    Gaps = {0, 1}
    MaxTicks = 3
SYMMETRY WorkerSymmetry
INVARIANTS
    PacedTypeOK
    QuotaOvershoot
    DrainedOnReturn
    GaugeClearAtReturn
    OneLateOp
    QuitOnlyForCause
    IInv
    RateConforms
    WaitBounded
    WaitersSpread
