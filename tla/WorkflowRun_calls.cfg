SPECIFICATION Spec
CONSTANTS
    Plans <- CallsOrCheckpoints
    Additions <- SomeAdditions
    Drivers = {d1, d2}
    MaxSteps = 4
    MaxCrashes = 2
    MaxFaults = 1
    Nobody = Nobody
SYMMETRY Symmetry
INVARIANTS OneDriver StepAtMostOnce SignalMatchesWait ChainOnlyOnSuccess NeverVanishes CancelledHasNoDraft
PROPERTIES ApproveAppliesShown ImplementsDurableRun
CHECK_DEADLOCK FALSE
