SPECIFICATION Spec
CONSTANTS
    Problems <- MCProblems
    Values <- MCValues
    MaxSurface = 3
    MaxIterations = 3
    Exact = TRUE
INVARIANTS
    UnsatMeansNoBinding
    ProvedBindingOnly
    LimitNeedsManyMappings
    RoundsRefute
    SearchIsExhaustive
