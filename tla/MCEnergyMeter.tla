--------------------------- MODULE MCEnergyMeter ---------------------------
(***************************************************************************)
(* EnergyMeter for TLC: a pulse counter that wraps every four pulses, and  *)
(* a pulse worth less than a unit of the energy counter.                   *)
(***************************************************************************)
EXTENDS EnergyMeter
=============================================================================
