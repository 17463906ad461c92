SPECIFICATION Spec
CONSTANTS
    Requests = {r1, r2}
    StateIds <- MCStateIds
    BootstrapId <- MCBootstrap
    Payloads = {p1, p2}
    Cutoffs = {1, 2}
INVARIANTS
    TypeOK
    OfferedClaimable
