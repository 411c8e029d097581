\* The receive log repeats bytes whose echo was refused.
SPECIFICATION LogSpec
CONSTANTS
    Byte = {b1, b2}
    MaxBytes = 3
    SendThreshold = 1
INVARIANT
    BytesLoggedOnce
CHECK_DEADLOCK FALSE
