SPECIFICATION Spec
CONSTANTS
    t1 = t1
    Txns = {t1, t2}
    Ids = {root, a, b, c}
    Root = root
    Builders = {b1, b2}
    Capacity = 1
    Blocks <- MCBlocks
    MaxSent = 2
    MaxStored = 2
SYMMETRY Symmetry
VIEW Reachable
INVARIANTS
    TypeOK
    QueuesInSync
    RecentNotQueued
    LostOnlyByRace
