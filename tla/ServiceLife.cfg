CONSTANTS
    MaxAttempts = 2
    MaxErrors = 2
    MaxRequests = 1
    Configs <- MCConfigs
SPECIFICATION Spec
INVARIANTS
    TypeOK
    UpdatersBounded
    EntryReturnsOnce
    RequestsHaveResources
    
    ReachableWhilePassing
    AllGivenBack
    EntryRemoved
PROPERTIES
    Heals
    SignalEnds
CHECK_DEADLOCK FALSE
