SPECIFICATION FairSpec
CONSTANTS
    Tracks = {a, v}
    Channels = {}
    Stops = {s}
    Renegotiations = {}
    IceCanFail = TRUE
    CacheCanEvict = FALSE
PROPERTY
    EndedIsFiled
CHECK_DEADLOCK FALSE
