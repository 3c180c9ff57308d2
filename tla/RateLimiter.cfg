SPECIFICATION Spec
CONSTANTS
    MsPerSecond = 2
    windowSizeMs = 3
    dayWindowMs = 5
    rpmLimit = 2
    rpdLimit = 3
    maxBudgetMicrodollars = 3
    DefaultRetryAfterSeconds = 2
    Keys = {k1}
    Costs = {0, 1}
    ReportsPerRequest = 2
    MaxPending = 4
    MaxRecords = 5
    MaxTime = 7
INVARIANTS
    CountsExact
    OvershootBounded
    RetryAfterExact
