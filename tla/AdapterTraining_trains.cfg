SPECIFICATION FairSpec
CONSTANTS
    Runs = {r1, r2}
    Threads = {t1, t2}
    None = None
    Modes = {TRUE, FALSE}
    MinExamples = 1
    MaxExamples = 2
    MaxTroubles = 1
INVARIANTS OnePending LiveWasApproved
PROPERTY TrainingGoesOn
CHECK_DEADLOCK FALSE
