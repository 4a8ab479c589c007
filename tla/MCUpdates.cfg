\* Two updates of one binary at the same time; the second release is longer.
SPECIFICATION UpdSpec
CONSTANTS
    u1 = u1
    u2 = u2
    v1 = v1
    v2 = v2
    hole = hole
    Updaters = {u1, u2}
    Releases = {v1, v2}
    Blocks <- MCBlocks
    Hole = hole
    MaxFiles = 3
INVARIANT BinaryWhole
