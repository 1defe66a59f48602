SPECIFICATION Spec
CONSTANTS
    None = None
    Opaque = Opaque
    Command <- Commands
    Entry <- Entries
    EntryOf <- EntriesOf
    Prereqs <- Reads
    Automatic = {"b"}
    Evidence = {"b"}
    Version = {v1, v2}
    Content = {x1, x2}
    RunId = {1}
    Required = {}
    Requests <- Targets
    Edited = {"a"}
    MaxEdits = 1
    MaxStops = 0
INVARIANT NonautomaticNeedsAuthority
CHECK_DEADLOCK FALSE
SYMMETRY Alike
