\* The real sizes; room for nothing, for the prefix, for prefix and hash, and
\* for one byte less or more than each plaintext needs.
SPECIFICATION Spec
CONSTANTS
    kSamplePrefixSize = 8
    HashSize = 12
    SampleSize = 16
    SampleOffset = 4
    b1 = b1
    b2 = b2
    b3 = b3
    Byte <- MCByte
    Plaintexts <- MCPlaintexts
    Rooms = {0, 7, 8, 19, 20, 21, 22, 28, 29, 40, 41, 44, 45}
    BufferSize = 45
INVARIANTS
    TypeOK
    RoundTrip
    AcceptedIsGenuine
    SizesAgree
    SampleAvailable
CHECK_DEADLOCK FALSE
