SPECIFICATION ExtractionSpec
CONSTANTS
    Regions = 2
    GuestLen <- MCGuestLen
    HostLen <- MCHostLen
    GuestSizes = {1, 2}
    HostSizes = {1, 2, 3}
    Verify = TRUE
    MayBind <- MCMayBind
    Objects <- MCObjects
    NoSource = NoSource
    MaxRuns = 2
INVARIANTS
    DecisionsAreFinal
    PrunedSidesAreTiled
    DiagnosticsBalance
    EveryWindowDecided
    RegionIdsAreUnique
    BlocksAreAligned
CHECK_DEADLOCK FALSE
