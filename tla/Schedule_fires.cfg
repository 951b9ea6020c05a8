SPECIFICATION FairSpec
CONSTANTS
    Sweeps = {s1, s2}
    Recurrence = "interval"
    Period = 2
    Horizon = 6
    MaxCrashes = 1
    Nobody = Nobody
INVARIANTS OncePerOccurrence NeverEarly
PROPERTIES CancelIsFinal DueFires FiredIsPut
CHECK_DEADLOCK FALSE
