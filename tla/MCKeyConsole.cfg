SPECIFICATION Spec
CONSTANTS
    k1 = k1
    k2 = k2
    t1 = t1
    p1 = p1
    i1 = i1
    Keys = {k1, k2}
    Tenants = {t1}
    GitHub = {t1}
    DEFAULT = DEFAULT
    Projects = {p1}
    Isolates = {i1}
    TTL = 1
    LATENCY = 0
    MaxTime = 1
    MaxSecrets = 2
    MaxChanges = 1
    MaxNotices = 1
    MaxLoads = 1
    NONE = NONE
SYMMETRY Symmetry
CONSTRAINT Apart
INVARIANTS
    OneKeyPerProject
    StaleAtMost
    ReadableUntilRotated
PROPERTY
    ObservationStaysHome
CHECK_DEADLOCK FALSE
