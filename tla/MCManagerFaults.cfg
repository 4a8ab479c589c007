\* Saves and calls on the core fail: one tenant, two emails, traffic.
SPECIFICATION Spec
CONSTANTS
    a = a
    b = b
    x = x
    y = y
    k1 = k1
    k2 = k2
    c1 = c1
    c2 = c2
    Ids <- OneId
    Keys <- MCKeys
    Emails <- TwoEmails
    Creds <- OneCred
    Usable <- OneCred
    Configs = {"cfg1"}
    Quotas = {1}
    Credits = {0}
    Expires = {0}
    Periods = {0}
    Deltas = {}
    Times = {1}
    IntMax = 7
    MaxUsed = 1
    MaxPeriod = 1
    MaxBytes = 1
    StoreMayFail = TRUE
    CoreMayFail = TRUE
SYMMETRY Symm
PROPERTIES
    BillingMonotone
    ConfigPushRepairs
