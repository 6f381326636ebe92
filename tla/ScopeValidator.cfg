CONSTANTS
    None = None
    QueryTypes = {"logs", "events"}
    Timeframes <- MCTimeframes
    MaxClock = 1
    Statuses = {"403", "429"}
SPECIFICATION Spec
INVARIANT TypeOK
INVARIANT ForbiddenNeverGranted
INVARIANT ProbeLeakReported
PROPERTY ValidationRefinement
