\* The claim of a second process on the same file, without any fault.
SPECIFICATION Spec
CONSTANTS
    w1 = w1
    w2 = w2
    p1 = p1
    p2 = p2
    a1 = a1
    a2 = a2
    Workers = {w1, w2}
    Nobody = Nobody
    Alerts = {a1}
    NStages = 2
    FailureLimit = 2
    MaxTasks = 4
    Processes = {p1, p2}
    ProcessOf <- TwoProcesses
    FaultKinds = {}
    MaxFaults = 0
INVARIANTS
    HasLease
CHECK_DEADLOCK FALSE
