SPECIFICATION Spec
CONSTANTS
    Code <- CbzCode
    Families <- Fam
    AbiLiveOut = {"a"}
    CallArgs = {"b"}
    CallRets = {"a"}
    ConditionFamilies = {"flags"}
INVARIANTS
    BranchTargetsAreLive
