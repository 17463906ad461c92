SPECIFICATION Spec
CONSTANTS
    Clients = {c1}
    StateIds <- MCStateIds
    BootstrapId <- MCBootstrap
    Payloads = {p, q}
    Decides = {1, 3}
    Capacity = 2
    ChannelCapacity = 2
    MaxRequests = 3
    MaxInfos = 3
INVARIANTS
    TypeOK
    MissingOnlyEvicted
    NewestNotRefused
    StarvedOnlyRebuilt
SYMMETRY Symmetry
