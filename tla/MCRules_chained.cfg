SPECIFICATION RulesSpec
CONSTANTS
    Passes = {"rewriting"}
    RewritingCandidates <- ChainedUnknown
    ImmediatesCandidates <- MCImmediatesCandidates
    Lines = {"line 1", "line 2"}
    MaxBranches = 3
    Fragments <- MCPlanFragments
    Inputs <- MCPlanInputs
    FixedRole <- Count
    Rules <- MCRuleSet
    Forms <- MCForms
    MaxCandidates = 3
INVARIANTS
    GuestAndHostAgree
CHECK_DEADLOCK FALSE
