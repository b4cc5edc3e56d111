CONSTANTS
    a1 = a1
    a2 = a2
    a3 = a3
    NoAction = NoAction
    Actions <- MCActions
    RiskOf <- MCRiskOf
    Blocked <- MCBlocked
    Policies <- MCPolicies
    max_steps = 4
    max_tool_calls = 3
    max_tokens = 3
    max_step_attempts = 2
    replan_budget = 1
    MaxPlan = 2
    MaxTitles = 2
    MaxOutput = 2
SPECIFICATION FairSpec
CHECK_DEADLOCK FALSE
INVARIANTS
    TypeOK
    VerdictObeyed
    RepetitionBounded
    WithinBudget
    PlanWorkedOff
    SuccessCoversFailures
PROPERTIES
    SettledStepsStay
    ImplementsContract
    Terminates
