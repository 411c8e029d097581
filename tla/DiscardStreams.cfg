\* Three incoming streams that could fill the window of two bytes each.
SPECIFICATION FairSpec
CONSTANTS
    Bidi = {s1}
    Uni = {s2, s3}
    Window = 2
    MaxPush = 2
    ResponseLength = 2
INVARIANT
    NoByteForgotten
PROPERTY
    ResponseReceived
CHECK_DEADLOCK FALSE
