-------------------------- MODULE MCBistableRelay --------------------------
(***************************************************************************)
(* BistableRelay for TLC: pulses of two ticks on a clock that wraps every  *)
(* four, so that a pulse may straddle the wrap of millis().                *)
(***************************************************************************)
EXTENDS BistableRelay
=============================================================================
