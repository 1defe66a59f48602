SPECIFICATION Spec
CONSTANTS
    Entry = {1, 2, 3}
    Path = {"a", "b", "x", "d"}
    Directory = {"d"}
    Above <- AboveDef
    Logs <- LogsDef
    None = None
    MaxDepth = 1
INVARIANTS TypeOK WalksExact FailuresExplained
PROPERTIES EntryAgrees
CHECK_DEADLOCK FALSE
