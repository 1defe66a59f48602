SPECIFICATION LiveSpec
CONSTANTS
    r1 = r1
    r2 = r2
    a = a
    b = b
    c = c
    Run = {r1, r2}
    Execution = {a, b, c}
    RunOf <- RunOfTwo
    Exclusive = {a}
    Reads <- ReadsOfA
    Mutable <- OwnPaths
    Jobs <- PoolOfTwo
    Stoppable = {}
    Mortal = {}
    Faulty = {r2}
    MaxSupervisors = 1
PROPERTIES FaultedRunsEnd
CHECK_DEADLOCK FALSE
