SPECIFICATION Spec
CONSTANTS
    Tenants = {t1, t2, t3}
    Volumes = {1, 2}
    WindowSeconds = 2
    BrakeSeconds = 1
    Providers = {p1}
    Stats = {s1}
    NoStats = NoStats
    MaxReports = 3
    MaxTime = 3
INVARIANTS
    StateExact
PROPERTIES
    BrakeLasts
    BrakesTheSpiker
