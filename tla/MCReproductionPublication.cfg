SPECIFICATION Spec
CONSTANTS
    r1 = r1
    r2 = r2
    a = a
    b = b
    c = c
    Run = {r1}
    Execution = {a}
    RunOf <- RunOfOne
    Exclusive = {}
    Reads <- ReadsOfA
    Mutable <- OwnPaths
    Jobs <- PoolOfTwo
    Stoppable = {r1}
    Mortal = {r1}
    Faulty = {}
    MaxSupervisors = 2
INVARIANTS FrozenPublicationResumes
CHECK_DEADLOCK FALSE
