SPECIFICATION PlanSpec
CONSTANTS
    Contents = {p, q, r}
    Tasks = {t1, t2}
    MaxRevision = 3
    MaxRestarts = 0
    MaxFaults = 0
    Nothing = Nothing
SYMMETRY Symmetry
INVARIANT RunsWhatWasTapped
CHECK_DEADLOCK FALSE
