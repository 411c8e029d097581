\* Two endpoints in each of the four combinations of modes.
SPECIFICATION FairSpec
CONSTANTS
    MaxPackets = 3
    MaxUpdates = 2
INVARIANTS
    TypeOK
    NothingOpensAcrossModes
    NullExactlyWhereAsked
    DirectionsUpdateTogether
PROPERTIES
    OnlyStaleRefused
    HandshakeCompletes
    ConnectionUsable
CHECK_DEADLOCK FALSE
