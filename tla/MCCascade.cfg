SPECIFICATION FairSpec
CONSTANTS
    FailureThreshold = 3
    CooldownSeconds = 1
    SecondMs = 1
    HalfOpenSuccessThreshold = 1
    Requests = {r1, r2}
    Candidates <- MCCandidates
    KeysOf <- MCKeysOf
    MaxFallbacks = 1
    NoKey = NoKey
    MaxRepeats = 1
    MaxTime = 1
    MTok = 1000000
    Unknown = Unknown
    IdOrder <- MCIdOrder
    Registries <- MCRegistries
    Bodies <- MCBodies
    Contexts <- MCContexts
    ModelsPriced <- MCModelsPriced
    Usages <- MCUsages
    Json <- MCJson
    Numbers <- MCNumbers
INVARIANTS
    OpensOnFailures
    UsageNotOvercounted
    SelectionRight
PROPERTIES
    AbortStopsCascade
    Settles
CHECK_DEADLOCK FALSE
