\* Two loops of one process, every kind of fault; one alert, two stages.
SPECIFICATION Spec
CONSTANTS
    w1 = w1
    w2 = w2
    p1 = p1
    p2 = p2
    a1 = a1
    a2 = a2
    Workers = {w1, w2}
    Nobody = Nobody
    Alerts = {a1}
    NStages = 2
    FailureLimit = 2
    MaxTasks = 4
    Processes = {p1}
    ProcessOf <- OneProcess
    FaultKinds = {"crash", "stall", "dberror", "block"}
    MaxFaults = 2
INVARIANTS
    TypeOK
    HasLease
    ExactlyOnceWithoutFaults
    RerunsArePaid
    NoLostFailure
    AlertNotLost
    RetriesStopAtLimit
PROPERTIES
    TerminalIsFinal
    ImplementsLease
CHECK_DEADLOCK FALSE
