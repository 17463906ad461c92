SPECIFICATION Spec
CONSTANTS
    t1 = t1
    Txns = {t1, t2}
    Ids = {root, a, b}
    Root = root
    Builders = {b1}
    Capacity = 2
    Blocks <- MCBlocks
    MaxSent = 2
    MaxStored = 3
SYMMETRY Symmetry
INVARIANT EnqueuedInAll
