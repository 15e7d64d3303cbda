\* The model stops when its finite supply of runs is used up.
CHECK_DEADLOCK FALSE
SPECIFICATION Spec
CONSTANTS
    Runs = {r1}
    Ids = {s1}
    None = None
    LastStage = 4
    MaxSessions = 1
    SameTick = FALSE
INVARIANT AcceptedResumeIsPending
