SPECIFICATION Spec
CONSTANTS
    Calls = {c1}
    Workers = {w1, w2}
    Threads = {t1, t2}
    MaxConcurrent = 1
    CallsPerDay = 2
    MonthlyUnits = 2
    MaxCrashes = 1
    EventKinds = {"in_call", "wrapup", "done", "failed", "achieved", "unachieved", "heartbeat", "turn", "escalation"}
    JobsMayBeLost = TRUE
    NoCall = NoCall
    NoWorker = NoWorker
    NoRequest = NoRequest
SYMMETRY Symmetry
INVARIANTS TypeOK ActiveHasOwner
PROPERTIES ImplementsPromise LinkedAsAssumed
CHECK_DEADLOCK FALSE
