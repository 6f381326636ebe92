\* Both channels on every alert of MCCrossPath.
CONSTANTS
    None = None
    Wildcard = Wildcard
    g1 = g1
    g2 = g2
    Priorities = {"P1", "P5"}
    Statuses = {"Triggered"}
    Texts = {"cpu high"}
    Ids = {1}
    TagLists <- MCTagLists
    GroupLists <- MCGroupLists
SPECIFICATION Spec
INVARIANT TypeOK
INVARIANT SameAlertFromBothPaths
