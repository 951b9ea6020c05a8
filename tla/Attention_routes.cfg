SPECIFICATION Spec
CONSTANTS
    Requests <- MCRequests
    Sources <- MCSources
    Ceiling <- MCCeiling
    TierCap <- MCTierCap
    PushBudget = 1
    InboxBudget = 1
    SourceCap = 3
    Workers = 1
    MaxCrashes = 1
    MaxDays = 1
INVARIANTS SafetyNotSilenced PushBudgetHolds NeverDropped
CHECK_DEADLOCK FALSE
