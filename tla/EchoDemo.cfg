\* Two echoes of a message of three bytes; the stream takes one at a time.
SPECIFICATION DemoFairSpec
CONSTANTS
    MaxCount = 2
    Timeout = 1
    Interval = 1
    ConnectLimit = 1
    b1 = b1
    b2 = b2
    Message <- MCMessage
    SendThreshold = 1
INVARIANT
    EchoMatches
PROPERTIES
    EveryEchoAnswered
    ServerDoneBetweenEchoes
CHECK_DEADLOCK FALSE
