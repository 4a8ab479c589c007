\* Who is live: two tenants, two emails, expiry, resets and config pushes, no failures.
SPECIFICATION Spec
CONSTANTS
    a = a
    b = b
    x = x
    y = y
    k1 = k1
    k2 = k2
    c1 = c1
    c2 = c2
    Ids <- MCIds
    Keys <- MCKeys
    Emails <- TwoEmails
    Creds <- MCCreds
    Usable <- MCCreds
    Configs = {"cfg1"}
    Quotas = {1}
    Credits = {0}
    Expires = {1}
    Periods = {0}
    Deltas = {}
    Times = {1, 2}
    IntMax = 7
    MaxUsed = 1
    MaxPeriod = 2
    MaxBytes = 0
    StoreMayFail = FALSE
    CoreMayFail = FALSE
SYMMETRY Symm
INVARIANTS
    CredentialIsolation
    LiveMatchesRecords
    ActiveTenantsServed
    EmailIndexExact
    RecordsIsolated
