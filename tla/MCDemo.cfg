SPECIFICATION DemoSpec
CONSTANTS
    Ips = {i1, i2}
    IpRpmLimit = 1
    IpRpdLimit = 2
    GlobalRpmLimit = 2
    GlobalRpdLimit = 4
    MINUTE = 2
    DAY = 6
    ROTATION = 3
    STALE = 2
    MaxClock = 7
    MaxTokens = 3
    MaxEvictions = 1
    NONE = NONE
    DATACENTER_ASNS <- MCDatacenters
    DISPOSABLE_EMAIL_DOMAINS <- MCDisposable
INVARIANTS
    CapsHold
    GradesRight
    PromiseKept
PROPERTIES
    ExpiredIsReplaced
CHECK_DEADLOCK FALSE
