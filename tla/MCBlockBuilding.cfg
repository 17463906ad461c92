SPECIFICATION FairSpec
CONSTANTS
    Requests = {r1, r2}
    Txns <- MCTxns
    min_block_size <- MCSizes
    Unfit = {"huge"}
    Included = {"old"}
    Limits = {2, 5}
    References <- MCReferences
    MaxSent = 2
INVARIANTS
    TypeOK
    BlockIsNew
PROPERTIES
    FitPoppedOnlyAfterRace
    EveryRequestEnds
