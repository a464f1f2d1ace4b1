SPECIFICATION Spec
CONSTANTS
    Tracks = {a, v}
    Channels = {}
    Stops = {s}
    Renegotiations = {}
    IceCanFail = FALSE
    CacheCanEvict = FALSE
INVARIANT
    StopStopsRecording
CHECK_DEADLOCK FALSE
