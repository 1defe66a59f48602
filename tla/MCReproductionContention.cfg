SPECIFICATION Spec
CONSTANTS
    r1 = r1
    r2 = r2
    a = a
    b = b
    c = c
    Run = {r1, r2}
    Execution = {a, b, c}
    RunOf <- RunOfTwo
    Exclusive = {a}
    Reads <- ReadsOfA
    Mutable <- OwnPaths
    Jobs <- PoolOfTwo
    Stoppable = {}
    Mortal = {r2}
    Faulty = {r1}
    MaxSupervisors = 2
INVARIANTS TypeOK AuditHolds LiveCommandsCovered ClosedRunsQuiet
PROPERTIES AccessSpec CompletedWorkStays
CHECK_DEADLOCK FALSE
