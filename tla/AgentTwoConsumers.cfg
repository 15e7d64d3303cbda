\* The model stops after a shutdown, when every thread has ended.
CHECK_DEADLOCK FALSE
SPECIFICATION Spec
CONSTANTS
    Ids = {s1}
    Objs = {o1, o2}
    Versions = {v1}
    Default = Default
    None = None
    Failures = {}
    MaxInbox = 1
    MaxControl = 2
INVARIANT OneConsumerPerInputQueue
