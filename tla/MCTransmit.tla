---------------------------- MODULE MCTransmit ----------------------------
(* Requests of one and three transactions, one of them refused. *)
EXTENDS Transmit

MCRequests == {<<"good">>, <<"bad", "good", "good">>}
=============================================================================
