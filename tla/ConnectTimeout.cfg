SPECIFICATION Spec
CONSTANTS
    MaxCount = 1
    Timeout = 2
    Interval = 1
    ConnectLimit = 3
INVARIANT
    ConnectionWaitBounded
CHECK_DEADLOCK FALSE
