\* The model stops once the node is stopped, or out of attempts.
CHECK_DEADLOCK FALSE
SPECIFICATION FairSpec
CONSTANTS
    Invokes = {i1, i2}
    Connectors = {c1, c2}
    None = None
    MaxSockets = 3
    MaxAttempts = 2
INVARIANTS
    OneTaskOwnsTheConnection
    ResultOnItsConnection
    DisconnectIsFinal
PROPERTIES
    LossIsRepaired
