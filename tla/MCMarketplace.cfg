SPECIFICATION FairSpec
CONSTANTS
    approved = approved
    rejected = rejected
    Txns = {approved, rejected}
    Approved = {approved}
    filtered <- MCFiltered
    Events <- MCEvents
    MaxEvents = 2
    Views = {0, 1}
    Requests = {r}
    Batches <- MCBatches
    Capacity = 1
    MaxSent = 1
INVARIANTS
    TypeOK
    MissedOnlyUnheard
    HookFirst
    BundleApproved
PROPERTIES
    Reconnects
    BundleAnswered
