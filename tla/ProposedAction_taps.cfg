SPECIFICATION FairSpec
CONSTANTS
    Taps = {t1, t2}
    NoRow = NoRow
    MaxCrashes = 1
INVARIANTS ToldDoneWasDone TapAfterDoneRunsNothing CommandRunsOnce
PROPERTY PollTerminates
CHECK_DEADLOCK FALSE
