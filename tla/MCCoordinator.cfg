SPECIFICATION Spec
CONSTANTS
    QuorumProposals <- MCQuorum
    DaProposals <- MCDa
    DecideViews = {1, 3}
    Clients = {c1}
    Vids <- MCPayloads
    Payloads <- MCPayloads
    Leaves <- MCLeaves
    Empty <- MCEmpty
    BootstrapVid = "q"
    BootstrapLeaf = "fake"
INVARIANTS
    TypeOK
    ChildExtendsJustified
    PairsAttempted
    DecidedBelowNewest
PROPERTIES
    WindowSpec
    PairLostOnlyBehind
