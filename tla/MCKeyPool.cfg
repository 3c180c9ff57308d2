SPECIFICATION Spec
CONSTANTS
    Ids = {1, 2}
    Priority <- MCPriority
    RRModulus = 3
    Loads = {l1, l2}
INVARIANTS
    SelectorAgrees
    RemovedStaysOut
PROPERTIES
    TakesTurns
