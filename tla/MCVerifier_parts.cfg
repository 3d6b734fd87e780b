SPECIFICATION VerifierSpec
CONSTANTS
    Candidates <- MCCandidates
    Family <- MCFamily
    Observe <- MCObserve
    MemoryCandidates <- MCMemoryCandidates
    FramePairs <- MCFramePairs
    MemoryBase = 100
    Stride = 8
    FrameStride = 8
    IndexWitness = 3
INVARIANTS
    PassIsSound
    BranchPassIsSound
    FailIsReal
    PassMeansSameEffects
    SlotsArePlaced
PROPERTIES
    ImplementsPromise
