\* Two process ids, one request that restarts, node crashes and failed starts.
SPECIFICATION FairSpec
CONSTANTS
    p1 = p1
    p2 = p2
    Pids = {p1, p2}
    Clients = {"request"}
    MaxFailures = 2
    None = None

    
    
PROPERTIES
    OnlyOwnKilled
    StartEnds
    HealedEventually
