\* Two panels and two backends, two owners of rules, one update at a time.
\* The machines may stop: a node that has exited, an upload that has ended.
CONSTANTS
    c1 = c1
    c2 = c2
    o1 = o1
    o2 = o2
    admin = admin
    u1 = u1
    v1 = v1
    v2 = v2
    hole = hole
    a = a
    b = b
    Clients = {c1, c2}
    MaxStarts = 2
    Owners = {o1, o2}
    Admin = admin
    NatChain <- MCNat
    Chains <- MCChains
    Lines = {a, b}
    RingSizes <- MCSizes
    MaxLines = 5
    LinkDirs = {"rx", "tx"}
    MaxLink = 3
    ChunkUsers <- MCChunkUsers
    MaxIndex = 2
    MaxChunks = 4
    LargeUpload = 2
    Updaters = {u1}
    Releases = {v1, v2}
    Blocks <- MCBlocks
    Hole = hole
    MaxFiles = 4
SPECIFICATION Spec
CHECK_DEADLOCK FALSE
INVARIANTS
    CurrentBackendUsable
    OneBackendAtATime
    CleanupLeavesNothing
    RingKeepsNewest
    
    UploadWhole
    BinaryWhole
PROPERTIES
    KeepAliveEnds
    
