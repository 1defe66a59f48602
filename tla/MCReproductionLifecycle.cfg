SPECIFICATION RecoveredSpec
CONSTANTS
    r1 = r1
    r2 = r2
    a = a
    b = b
    c = c
    Run = {r1}
    Execution = {b}
    RunOf <- RunOfOne
    Exclusive = {}
    Reads <- ReadsOfA
    Mutable <- OwnPaths
    Jobs <- PoolOfTwo
    Stoppable = {r1}
    Mortal = {r1}
    Faulty = {r1}
    MaxSupervisors = 3
INVARIANTS ClosingSucceeds
PROPERTIES RunsClose
CHECK_DEADLOCK FALSE
