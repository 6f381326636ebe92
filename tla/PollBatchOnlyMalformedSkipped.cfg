\* _get_alerts over every listing and feed of MCPollBatch: OnlyMalformedSkipped.
CONSTANTS
    None = None
    Wildcard = Wildcard
    g1 = g1
    g2 = g2
    ops = ops
    MonitorListings <- MCMonitorListings
    EventFeeds <- MCEventFeeds
SPECIFICATION Spec
INVARIANT OnlyMalformedSkipped
