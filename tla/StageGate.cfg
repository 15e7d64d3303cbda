\* The model stops when its finite supply of runs is used up.
CHECK_DEADLOCK FALSE
SPECIFICATION Spec
CONSTANTS
    Runs = {r1, r2}
    Ids = {s1, s2}
    None = None
    LastStage = 4
    MaxSessions = 2
    SameTick = TRUE
SYMMETRY Symmetry
INVARIANTS
    StageNeedsResume
    HandlerStaleByAtMostOneStage
    LiveRunsRegistered
PROPERTIES
    ImplementsGate
