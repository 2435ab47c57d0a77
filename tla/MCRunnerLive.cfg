SPECIFICATION FairSpec
CONSTANTS
    w1 = w1
    w2 = w2
    w3 = w3
    Workers <- TwoWorkers
    Configs <- LiveConfigs
    CounterCap = 4
PROPERTIES
    ImplementsContract
    ShutdownCompletes
    LimitEndsWorkers
