SPECIFICATION PlanSpec
CONSTANTS
    Contents = {p, q, r}
    Tasks = {t1, t2}
    MaxRevision = 4
    MaxRestarts = 1
    MaxFaults = 1
    Nothing = Nothing
SYMMETRY Symmetry
INVARIANTS LaunchedOnce CancelledPlanStops ShownIsCurrent
CHECK_DEADLOCK FALSE
