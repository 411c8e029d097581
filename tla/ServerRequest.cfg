\* The last queries have three pairs, so that one can overrule another and a
\* third come in between; the numbers are those at both ends of the range.
CONSTANTS
    Key = {"count", "baton", "version"}
    IntValue <- Boundaries
    NotANumber = NotANumber
    Draw = {7, 263}
    MaxQuery = 3
SPECIFICATION Spec
INVARIANTS
    TypeOK
    BatonAsAsked
    RefusedIfMalformed
\* A request is answered once.
CHECK_DEADLOCK FALSE
