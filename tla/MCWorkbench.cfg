SPECIFICATION FairSpec
CONSTANTS
    Tenants = {u, v}
    Keys = {k}
    Commons = {c}
    Projects = {p}
    MaxTokens = 3
    NONE = NONE
    FALLBACK = FALLBACK
    Starters = {u}
    Plans <- MCPlans
    MaxCalls = 2
INVARIANTS
    SessionCoherent
    ShownSecretsWork
PROPERTIES
    ViewConverges
CHECK_DEADLOCK FALSE
