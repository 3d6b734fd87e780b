SPECIFICATION KernelsSpec
CONSTANTS
    Parts <- AllParts
    Signatures <- MCSignatures
    ObjectSets <- MCObjectSets
    Operations <- MCOperations
    MaxLength = 3
    MemoryOperations <- MCMemoryOperations
    ScalarOperations <- MCScalarOperations
    Kernels <- MCKernels
    Compilations <- MCCompilations
    Statuses <- MCStatuses
INVARIANTS
    RecordPerKernel
    ListsInStep
    RecordsNameRules
    CountersDescribeRules
    CandidatesKeepTheABI
    LivenessIsExact
    BodyIsFaithful
PROPERTIES
    SuiteEnds
