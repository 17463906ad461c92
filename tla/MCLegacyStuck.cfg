SPECIFICATION FairSpec
CONSTANTS
    Clients = {c1}
    StateIds <- MCStateIds
    BootstrapId <- MCBootstrap
    Payloads = {p}
    Decides = {3}
    Capacity = 2
    ChannelCapacity = 1
    MaxRequests = 6
    MaxInfos = 2
CHECK_DEADLOCK FALSE
PROPERTY CallsAnswered
