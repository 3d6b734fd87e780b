CONSTANTS
    Candidates <- MCBranchCandidates
    Family <- MCFamily
    Observe <- MCObserve
SPECIFICATION Spec
INVARIANT
    BranchEffectsAreChecked
