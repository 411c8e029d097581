\* Safety, liveness and refinement of one echo stream: five bytes of two
\* values, two of which fit the send buffer.
SPECIFICATION FairSpec
CONSTANTS
    Byte = {b1, b2}
    MaxBytes = 5
    SendThreshold = 2
INVARIANTS
    TypeOK
    EchoConserved
    FinBehindEcho
    NothingStuck
PROPERTIES
    EveryByteEchoed
    EndAnswered
    PipeRefined
CHECK_DEADLOCK FALSE
