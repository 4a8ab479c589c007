\* A call on the core that fails lets two tenants share a credential.
SPECIFICATION Spec
CONSTANTS
    a = a
    b = b
    x = x
    y = y
    k1 = k1
    k2 = k2
    c1 = c1
    c2 = c2
    Ids <- MCIds
    Keys <- MCKeys
    Emails <- OneEmail
    Creds <- MCCreds
    Usable <- MCCreds
    Configs = {"cfg1"}
    Quotas = {1}
    Credits = {0}
    Expires = {0}
    Periods = {0}
    Deltas = {}
    Times = {1}
    IntMax = 7
    MaxUsed = 1
    MaxPeriod = 1
    MaxBytes = 0
    StoreMayFail = FALSE
    CoreMayFail = TRUE
SYMMETRY Symm
INVARIANT
    CredentialIsolation
