SPECIFICATION Spec
CONSTANTS
    None = None
    a = a
    b = b
    Content = {a, b}
    Source = {1, 2}
    Member = {3, 4}
    Document = {5}
    Research = {5}
    Entry = {"e1"}
    Task = {"first", "second", "scoped", "render"}
    Op <- Operations
    MaxEdits = 2
    MaxRows = 2
    Mortal = {"first"}
    Faulty = {"first"}
SYMMETRY Symmetry
INVARIANTS TypeOK CachesAreTrue SnapshotsAreCuts MarkedReportIsExact
PROPERTIES RenderRecovers
CHECK_DEADLOCK FALSE
