SPECIFICATION FairSpec
CONSTANTS
    MaxTasks = 2
    Versions = {v0, v1}
    Factory = v0
    Threads = {h1, h2}
INVARIANT SuccessWasRun
PROPERTY TaskEnds
CHECK_DEADLOCK FALSE
