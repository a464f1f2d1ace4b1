SPECIFICATION FairSpec
CONSTANTS
    Tracks = {a, v}
    Channels = {d}
    Stops = {}
    Renegotiations = {}
    IceCanFail = FALSE
    CacheCanEvict = FALSE
INVARIANTS
    PermitUsed
    CountAccurate
    EndedHasCloser
PROPERTIES
    EndedIsFiled
    FiledThenQuiet
CHECK_DEADLOCK FALSE
