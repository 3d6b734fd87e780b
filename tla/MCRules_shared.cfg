SPECIFICATION RulesSpec
CONSTANTS
    Passes = {"immediates"}
    RewritingCandidates <- MCRewritingCandidates
    ImmediatesCandidates <- Scaled
    Lines = {"line 1", "line 2"}
    MaxBranches = 3
    Fragments <- MCPlanFragments
    Inputs <- MCPlanInputs
    FixedRole <- Count
    Rules <- MCRuleSet
    Forms <- MCForms
    MaxCandidates = 3
INVARIANTS
    ImmediatesAlwaysSound
CHECK_DEADLOCK FALSE
