\* validate_scopes where a probe may be refused with 403 or throttled with
\* 429: is the webhook capability reported only when its probes succeeded?
CONSTANTS
    None = None
    QueryTypes = {"logs"}
    Timeframes <- MCTimeframes
    MaxClock = 1
    Statuses = {"403", "429"}
SPECIFICATION Spec
INVARIANT WebhookScopesProbed
