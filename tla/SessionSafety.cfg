SPECIFICATION Spec
CONSTANTS
    Tracks = {a, v}
    Channels = {}
    \* one call, of either method
    Stops = {s}
    Renegotiations = {s}
    IceCanFail = TRUE
    CacheCanEvict = TRUE
SYMMETRY MCSymmetry
INVARIANTS
    TypeOK
    FiledOnce
    FiledLast
CHECK_DEADLOCK FALSE
