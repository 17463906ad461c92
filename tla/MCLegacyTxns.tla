---------------------------- MODULE MCLegacyTxns ----------------------------
(* An instance of LegacyTxns for TLC: a transaction as large as the limit at *)
(* first is, and one that no block can hold.                                *)
EXTENDS LegacyTxns

CONSTANTS large, oversized

MCLen == (large :> 10) @@ (oversized :> 4)
MCBatches == {<<large, oversized>>}
=============================================================================
