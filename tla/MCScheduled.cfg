CONSTANTS
    m1 = m1
    f1 = f1
    r1 = r1
    worker = worker
    Ids = {m1}
    Files = {f1}
    Requests = {r1}
    Worker = worker
    MaxRetries = 2
    FaultKinds = {"crash", "dbError", "slowSend", "panic"}
    MaxFaults = 2
    MaxEdits = 1
SPECIFICATION FairSpec
INVARIANTS
    AtMostOnceUnlessReclaimed
    GoneOnlyIfSentOrDeleted
    QueuedMeansUnsent
PROPERTIES
    OutboxKept
    DueMessageSettles
