SPECIFICATION Spec
CONSTANTS
    Tenants = {t1}
    Jobs = {j1, j2}
    Audits = {a1}
    Days = {1, 2}
    Costs = {1}
    Requests = {r1, r2}
    Tokens = {k1}
    Guests = {}
    Owner <- MCOwner
    Budgets = {0, 1, 2}
    CostEstimate = 0
    NoToken = NoToken
    Env <- MCEnv
    Inputs <- MCInputs
    RouteErrors <- MCRouteErrors
    Envs <- MCEnvs
    Probes <- MCProbes
    Unanswered = Unanswered
    Never = Never
SYMMETRY MCSymmetry
INVARIANTS
    SpendExact
    OverspendBounded
    LedgerAndAnswers
    RollupBacked
PROPERTIES
    ReconcileRepairs
CHECK_DEADLOCK FALSE
CONSTRAINT Bound
