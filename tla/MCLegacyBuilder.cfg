SPECIFICATION Spec
CONSTANTS
    Quorum <- MCQuorum
    BootstrapId <- MCBootstrap
    Decides = {2}
    MaxTasks = 5
INVARIANTS
    TypeOK
    HandlesRun
    PairLostOnlyToFork
PROPERTY WindowSpec
CHECK_DEADLOCK FALSE
