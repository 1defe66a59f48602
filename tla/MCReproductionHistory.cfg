SPECIFICATION Spec
CONSTANTS
    None = None
    Opaque = Opaque
    Command <- Commands
    Entry <- Entries
    EntryOf <- EntriesOf
    Prereqs <- Reads
    Automatic <- Commands
    Evidence = {"b"}
    Version = {v1, v2}
    Content = {x1, x2}
    RunId = {1, 2}
    Required = {"a", "b"}
    Requests <- Targets
    Edited = {"a", "b"}
    MaxEdits = 1
    MaxStops = 1
CHECK_DEADLOCK FALSE
SYMMETRY Alike
INVARIANTS TypeOK SettledWork SavedMatchesBaseline PrerequisitesHeld MarkedReportIsCurrent BoundariesNotPromoted
PROPERTIES ReconciledWorkIsCurrent
