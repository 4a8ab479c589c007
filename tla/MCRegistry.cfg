\* Two tenants, two keys, every save may fail.
SPECIFICATION RegSpec
CONSTANTS
    t1 = t1
    t2 = t2
    k1 = k1
    k2 = k2
    Ids <- MCIds
    Keys <- MCKeys
    Quotas = {1}
    Credits = {0, 1}
    Expires = {1}
    Periods = {0}
    Deltas <- MCDeltas
    Times = {1, 2}
    IntMax = 7
    MaxUsed = 2
    MaxPeriod = 2
    StoreMayFail = TRUE
SYMMETRY Symm
INVARIANTS
    KeyIndexInverse
    StoreCoversMemory
    StoreNeverAhead
    AuthorizeAgreesWithEnforce
PROPERTIES
    RestartKeepsKeys
    
