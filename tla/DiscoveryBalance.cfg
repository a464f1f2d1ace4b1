CONSTANTS
    Catalogue <- MCCatalogue
    Limit = 3
    MaxResets = 1
    ClientCanFail = TRUE
    Modulus = 4
SPECIFICATION Spec
INVARIANTS
    TypeOK
    FairShare
    WaitsAnswered
PROPERTIES
    NeverBack
    Converges
    QuitEndsFetcher
CHECK_DEADLOCK FALSE
