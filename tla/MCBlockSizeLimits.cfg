SPECIFICATION SizeSpec
CONSTANTS
    Claims = {c1, c2}
    protocol_max_block_size = 24
    increment_period = 2
    MAX_BLOCK_SIZE_FLOOR = 5
    Word = 64
    MaxTime = 4
INVARIANTS
    SizeTypeOK
    SizeWithinLimits
PROPERTY Recovers
