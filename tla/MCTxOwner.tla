------------------------------ MODULE MCTxOwner ------------------------------
(* Two applications and two requests for a turn on one channel, of which   *)
(* any three are made in one history.                                      *)
EXTENDS TxOwner
=============================================================================
