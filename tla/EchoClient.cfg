\* Up to three echoes, timeouts of two ticks, intervals of one.
SPECIFICATION FairSpec
CONSTANTS
    MaxCount = 3
    Timeout = 2
    Interval = 1
    ConnectLimit = 3
INVARIANTS
    TypeOK
    SuccessMeansEchoed
    OneEchoAtATime
    NoUseAfterClose
PROPERTIES
    Terminates
CHECK_DEADLOCK FALSE
