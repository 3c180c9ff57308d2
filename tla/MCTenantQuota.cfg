SPECIFICATION Spec
CONSTANTS
    Tiers = {"probationary", "builder"}
    DefaultTier = "builder"
    RpmLimit <- MCRpmLimit
    RpdLimit <- MCRpdLimit
    Unlimited = Unlimited
    Projects = {"a"}
    NoProject = NoProject
    SubCaps = {1}
    NoSubCap = NoSubCap
    Counts = {1, 2}
    RpmWindow = 3
    RpdWindow = 4
    MsPerSecond = 2
    Weights = {10}
    TrustDays = 1
    MaxTime = 5
    MaxDebt = 20
    MaxContributed = 10
    MaxDays = 2
INVARIANTS
    NeverOvergranted
    RetryAfterExact
    RecordExact
