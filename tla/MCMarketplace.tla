---------------------------- MODULE MCMarketplace ----------------------------
(* An instance of Marketplace for TLC: one transaction that the hook lets    *)
(* through and one that it does not, one block, one decide.                  *)
EXTENDS Marketplace

CONSTANTS approved, rejected

MCEvents == {[type |-> "raw", txns |-> <<rejected, approved>>],
             [type |-> "proposal", view |-> 1, txns |-> {approved}],
             [type |-> "decide", view |-> 1]}

MCFiltered == [txns \in {<<rejected, approved>>} |-> <<approved>>]

MCBatches == {<<rejected, approved>>}
=============================================================================
