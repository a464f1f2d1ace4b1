CONSTANTS
    Catalogue <- MCCatalogue
    Limit = 3
    MaxResets = 0
    ClientCanFail = FALSE
    Modulus = 4
SPECIFICATION Spec
PROPERTY CloseEndsAll
CHECK_DEADLOCK FALSE
