CONSTANTS
    None = None
    QueryTypes = {"logs", "metrics", "events"}
    Timeframes <- MCTimeframes
    MaxClock = 2
SPECIFICATION Spec
INVARIANT QueriedWindowIsExposed
