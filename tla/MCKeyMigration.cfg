SPECIFICATION Spec
CONSTANTS
    DEFAULT = "default"
    RowCount = 4
    BatchSize = 2
    InvalidRows = {2}
INVARIANT
    EveryKeyMigrated
CHECK_DEADLOCK FALSE
