SPECIFICATION Spec
CONSTANTS
    w1 = w1
    w2 = w2
    w3 = w3
    Workers <- TwoWorkers
    Configs <- UntimedConfigs
    CounterCap = 4
INVARIANT GaugeShowsActivity
