SPECIFICATION LiveSpec
CONSTANTS
    r1 = r1
    r2 = r2
    a = a
    b = b
    c = c
    Run = {r1, r2}
    Execution = {a, b, c}
    RunOf <- RunOfTwo
    Exclusive = {a, b}
    Reads <- ReadsOfA
    Mutable <- OwnPaths
    Jobs <- PoolOfTwo
    Stoppable = {r2}
    Mortal = {r1}
    Faulty = {}
    MaxSupervisors = 1
PROPERTIES WaitersServed SupervisorsEnd
CHECK_DEADLOCK FALSE
