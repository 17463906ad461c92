SPECIFICATION StatusSpec
CONSTANTS
    Txns <- MCTxns
    Tasks = {k1, k2}
    LeafChains <- MCLeafChains
    Capacity = 1
INVARIANTS
    StatusTypeOK
    StatusGrounded
PROPERTY FinalUnlessOverlap
