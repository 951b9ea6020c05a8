SPECIFICATION FairSpec
CONSTANTS
    Calls = {c1}
    Workers = {w1}
    Threads = {t1}
    MaxConcurrent = 1
    CallsPerDay = 2
    MonthlyUnits = 2
    MaxCrashes = 1
    EventKinds = {"in_call", "wrapup", "failed", "achieved", "heartbeat"}
    JobsMayBeLost = TRUE
    NoCall = NoCall
    NoWorker = NoWorker
    NoRequest = NoRequest
PROPERTY ActiveCallEnds DraftEnds
CHECK_DEADLOCK FALSE
