SPECIFICATION Spec
CONSTANTS
    Keys = {k1}
    NativeIters = 2
    TextIters = 3
    ForceTools = TRUE
    InvalidMax = 1
    HistoryTurns = 1
    MaxRequests = 3
INVARIANTS SteeringIsOneShot PromptIsSound
PROPERTIES AnswerNotSilenced
CHECK_DEADLOCK FALSE
