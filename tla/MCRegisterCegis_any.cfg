SPECIFICATION FairSpec
CONSTANTS
    Problems <- MCFewProblems
    Values <- MCValues
    MaxSurface = 3
    MaxIterations = 2
    Exact = FALSE
PROPERTIES
    ImplementsPromise
    Termination
