SPECIFICATION KernelsSpec
CONSTANTS
    Parts = {"schema"}
    Signatures <- MCMemorySignatures
    ObjectSets <- MCObjectSets
    Operations <- MCOperations
    MaxLength = 3
    MemoryOperations <- ClashOperations
    ScalarOperations <- MCScalarOperations
    Kernels <- MCKernels
    Compilations <- MCCompilations
    Statuses <- MCStatuses
INVARIANTS
    BodyIsSSA
