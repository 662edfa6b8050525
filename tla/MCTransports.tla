---------------------------- MODULE MCTransports ----------------------------
(* Fills in the first slot and in another one, for nothing and for a price. *)
EXTENDS Transports
MCFills == [slot : {0, 1}, price : {0, 5}]
=============================================================================
