SPECIFICATION Spec
CONSTANTS
    large = large
    oversized = oversized
    Txns = {large, oversized}
    len <- MCLen
    Oversized = {oversized}
    Tasks = {0, 1, 2, 3}
    HotShot = hotshot
    Submitters = {hotshot, client}
    Batches <- MCBatches
    Capacity = 2
    StatusCapacity = 1
    MAX_BLOCK_SIZE_FLOOR = 9
    protocol_max_block_size = 10
    MaxSent = 2
    MaxProgress = 4
INVARIANTS
    TypeOK
    PendingKept
    RecentNotQueued
PROPERTY DroppedOnlyOversized
