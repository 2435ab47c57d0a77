SPECIFICATION Spec
CONSTANTS
    Starts <- AllStarts
    LogNormal = {1, 2, 300}
INVARIANTS
    TypeOK
    DrawsFollowShares
    SharesNearProportional
    StartBreaksOnlyUnvalidated
