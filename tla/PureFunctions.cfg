SPECIFICATION Spec
CONSTANTS
    Recordings <- MCRecordings
    PortRanges <- MCPortRanges
    AccessStrings <- MCAccessStrings
    Licences <- MCLicences
    Limits <- MCLimits
    Now = 2
    MaxChannels = 5
    MaxVideos = 100
    MaxLetters = 5
INVARIANTS
    PictureComplete
    StretchFits
    PortRangeKept
    AccessModes
    ScopeGranted
    LimitExact
