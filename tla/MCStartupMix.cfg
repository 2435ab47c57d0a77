SPECIFICATION Spec
CONSTANTS
    Starts <- ReadHeavyOnly
    LogNormal = {1}
INVARIANT OnlyGivenOps
