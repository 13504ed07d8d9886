------------------------------ MODULE MCRelay ------------------------------
(***************************************************************************)
(* Relay for TLC: a clock of six ticks, so that countdowns, saves and      *)
(* the wrap of millis() meet in every order.                               *)
(***************************************************************************)
EXTENDS Relay
=============================================================================
