SPECIFICATION SurfacesSpec
CONSTANTS
    Code <- MCCode
    Families <- Fam
    AbiLiveOut = {"a"}
    CallArgs = {"b"}
    CallRets = {"a"}
    ConditionFamilies = {"flags"}
    MemoryPairs <- MCMemoryPairs
    StackPointer <- MCStackPointer
    FramePairs <- MCFramePairs
    MaxDepth = 8
    WindowPairs <- MCInferencePairs
    FixedRole <- MCFixedRole
    MemoryAnswers <- MCMemoryAnswers
    SurfaceAnswers <- MCSurfaceAnswers
    SolverAnswers <- MCSolverAnswers
INVARIANTS
    DoneIsFixpoint
    LeastSolution
    SlicesAreExact
    SlotsPairRightly
    FixedRolesAreWritten
    CandidatesAreWhole
PROPERTIES
    AnalysisEnds
