\* Two tenants whose panels' requests are performed late, traffic, no failures.
SPECIFICATION AgentSpec
CONSTANTS
    a = a
    b = b
    x = x
    k1 = k1
    k2 = k2
    c1 = c1
    master = master
    corekey = corekey
    Ids <- MCIds
    Keys = {k1, k2}
    MasterKey = master
    CoreKey = corekey
    MaxCalls = 1
    Emails <- MCEmails
    Creds = {c1}
    Usable = {c1}
    Configs = {"cfg1"}
    Quotas = {1}
    Credits = {0}
    Expires = {0}
    Periods = {0}
    Deltas = {}
    Times = {1}
    IntMax = 7
    MaxUsed = 1
    MaxPeriod = 1
    MaxBytes = 1
    StoreMayFail = FALSE
    CoreMayFail = FALSE
PROPERTIES
    CallsStayInScope
    OverLimitDisconnected
