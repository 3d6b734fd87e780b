SPECIFICATION RulesSpec
CONSTANTS
    Passes <- AllPasses
    RewritingCandidates <- MCRewritingCandidates
    ImmediatesCandidates <- MCImmediatesCandidates
    Lines = {"line 1", "line 2"}
    MaxBranches = 3
    Fragments <- MCPlanFragments
    Inputs <- MCPlanInputs
    FixedRole <- Count
    Rules <- MCRuleSet
    Forms <- MCForms
    MaxCandidates = 3
INVARIANTS
    RuleContract
    ImmediatesAreSound
    LabelsAreSound
    PlansAreSound
    RepeatsAreExact
PROPERTIES
    RemovedAreCovered
CHECK_DEADLOCK FALSE
