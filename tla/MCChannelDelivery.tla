------------------------- MODULE MCChannelDelivery -------------------------
(***************************************************************************)
(* ChannelDelivery for TLC: a meter, which has something to send in every  *)
(* round, and a relay behind it.  setup() creates the relay first; this is *)
(* the order in which the one may take the turn of the other.              *)
(***************************************************************************)
EXTENDS ChannelDelivery
=============================================================================
