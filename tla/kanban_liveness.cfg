\* One loop in each of two processes, one fault of any kind.
SPECIFICATION FairSpec
CONSTANTS
    w1 = w1
    w2 = w2
    p1 = p1
    p2 = p2
    a1 = a1
    a2 = a2
    Workers = {w1, w2}
    Nobody = Nobody
    Alerts = {a1}
    NStages = 2
    FailureLimit = 1
    MaxTasks = 3
    Processes = {p1, p2}
    ProcessOf <- TwoProcesses
    FaultKinds = {"crash", "stall", "dberror"}
    MaxFaults = 1
PROPERTIES
    AlertSettles
CHECK_DEADLOCK FALSE
