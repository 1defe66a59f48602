SPECIFICATION Spec
CONSTANTS
    Invocation = {"a", "b"}
    Path <- RerunPath
    Plan <- RerunPlan
    MaxReservations = 2
    Key <- RerunKey
    Cid <- RerunCid
    Recoverer = {"r", "s"}
    Editable <- MCEditable
    AuthoringWrites <- MCAuthoringWrites
    NoExecution = NoExecution
    Earlier = Earlier
    MaxVersion = 2
    MaxEdits = 1
INVARIANTS TypeOK Sheltered PublishedInputsHeld ReceiptsAreRecovered
PROPERTIES OutputsSettled NoLostExecution ImplementsAccess
CHECK_DEADLOCK FALSE
