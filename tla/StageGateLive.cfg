\* The model stops when its finite supply of runs is used up.
CHECK_DEADLOCK FALSE
SPECIFICATION FairSpec
CONSTANTS
    Runs = {r1, r2}
    Ids = {s1, s2}
    None = None
    LastStage = 3
    MaxSessions = 1
    SameTick = TRUE
INVARIANT LiveRunsRegistered
PROPERTY PipelinesExit
