\* One tenant with two users that come, change and go.
SPECIFICATION AccSpec
CONSTANTS
    a = a
    x = x
    y = y
    k1 = k1
    c1 = c1
    Ids <- MCIds
    Keys <- MCKeys
    Emails <- MCEmails
    Creds <- MCCreds
    Usable <- MCCreds
    Configs = {"cfg1"}
    Quotas = {1}
    Credits = {0}
    Expires = {0}
    Periods = {0}
    Deltas = {}
    Times = {1}
    IntMax = 7
    MaxUsed = 4
    MaxPeriod = 1
    MaxBytes = 2
    MaxCarried = 3
    StoreMayFail = FALSE
    CoreMayFail = FALSE
SYMMETRY Symm
INVARIANTS
    
    ExactAccounting
