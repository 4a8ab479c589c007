\* One or two users, two inbounds, restarts at any moment, API calls that fail.
SPECIFICATION Spec
CONSTANTS
    e1 = e1
    e2 = e2
    Vless = Vless
    SS = SS
    Emails <- MCEmails
    Tags <- MCTags
    Protocol <- MCProtocol
    Method <- MCMethod
    UserKinds <- MCUserKinds
    RawDocs <- MCRawDocs
    PrivateCIDRs = {"net1", "net2"}
    HostAddrs = {"127.0.0.1"}
    Absent = Absent
INVARIANTS
    
    AddedUsersServed
    RevokedUsersGone
    DocumentReady
