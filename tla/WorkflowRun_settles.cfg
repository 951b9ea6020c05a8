SPECIFICATION FairSpec
CONSTANTS
    Plans <- WaitsThenCheckpoint
    Additions <- SomeAdditions
    Drivers = {d1}
    MaxSteps = 3
    MaxCrashes = 1
    MaxFaults = 0
    Nobody = Nobody
PROPERTIES RunSettles CheckpointDecided
CHECK_DEADLOCK FALSE
