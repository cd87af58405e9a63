------------------------------ MODULE MCRxOwner ------------------------------
(* Two calls of SubscribeRX for one session, with the same or other ids.   *)
EXTENDS RxOwner
=============================================================================
