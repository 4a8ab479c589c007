CONSTANTS
    k1 = k1
    k2 = k2
    badKey = badKey
    unparsed = unparsed
    Keys <- MCKeys
    ParseKey <- MCParseKey
    Invalid = unparsed
    NoKey = NoKey
    Pool <- MCPool
    BadIP = "bad"
    Dirs = {"rx"}
    Plans <- MCPlans
SPECIFICATION Spec
CHECK_DEADLOCK FALSE
INVARIANTS StoreOneToOne KernelMatchesStore NeverOverReported
PROPERTIES NothingForgotten ImplementsPeerTable
