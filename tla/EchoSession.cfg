\* Three incoming unidirectional streams; the limits grow from 0 to 3.
SPECIFICATION FairSpec
CONSTANTS
    Uni = {u1, u2, u3}
    MaxCredit = 3
    ServerInitiated = TRUE
INVARIANTS
    TypeOK
    EchoedInOrder
    NoIdleCredit
    EchoStreamOpenedOnce
PROPERTY
    EveryStreamEchoed
CHECK_DEADLOCK FALSE
