SPECIFICATION Spec

CONSTANTS
    Ids = {a, b, c}
    Ranked = {a, b}
    MaxRevision = 2
    Documents <- MCDocuments
    MaxPredicates = 2
    MaxPredicateIds = 2
    MaxNodes = 2
    MaxDeltas = 3

SYMMETRY Symmetry

INVARIANT ReplayIsAccepted

CHECK_DEADLOCK FALSE
