\* The model stops after a shutdown, when every thread has ended.
CHECK_DEADLOCK FALSE
SPECIFICATION Spec
CONSTANTS
    Ids = {s1, s2}
    Objs = {o1, o2}
    Versions = {v1}
    Default = Default
    None = None
    Failures = {"create", "start"}
    MaxInbox = 1
    MaxControl = 2
SYMMETRY ObjSymmetry
INVARIANTS
    AgentsAreRegistered
    StatusWriteIsCurrent
