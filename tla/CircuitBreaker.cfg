SPECIFICATION FairSpec
CONSTANTS
    Keys = {k1}
    FailureThreshold = 3
    CooldownSeconds = 2
    SecondMs = 2
    HalfOpenSuccessThreshold = 2
    ReportsPerRequest = 2
    MaxPending = 4
    MaxTime = 9
INVARIANTS
    EvictionTransparent
    ClosedCountsStreak
    RecordsCoherent
    RetryAfterExact
PROPERTIES
    DeadlineKept
    KeepsPromise
    Recovers
