---------------------------- MODULE MCTxStatus ----------------------------
(* Instances of TxStatus for TLC.                                          *)
EXTENDS TxStatus

MCTxns == {"t", "u"}
MCLeafChains == {<<"t", "u">>, <<"u">>}
============================================================================
