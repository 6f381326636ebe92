CONSTANTS
    None = None
    Monitors = {m1}
    Wildcard = Wildcard
    g1 = g1
    g2 = g2
    GroupLists <- MCGroupLists
    Ends = {12, 36}
    Day = 24
    MaxClock = 25
SPECIFICATION Spec
INVARIANT TypeOK
