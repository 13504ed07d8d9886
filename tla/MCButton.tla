------------------------------ MODULE MCButton ------------------------------
(***************************************************************************)
(* Model checking of Button with the three set-ups of this board and one   *)
(* that has both clicks and a hold.  A series takes two presses and is     *)
(* reported at once, or after a pause; the longest clock value a button    *)
(* waits for is 3 * 6.                                                     *)
(***************************************************************************)
EXTENDS Button

ClicksMode == [multiclick |-> 6, hold |-> 0, max |-> 2] \* CONFIG_MODE_10_ON_PRESSES
HoldMode   == [multiclick |-> 6, hold |-> 8, max |-> 0] \* CONFIG_MODE_5SEK_HOLD
PressMode  == [multiclick |-> 0, hold |-> 0, max |-> 0] \* the relay's button
BothMode   == [multiclick |-> 6, hold |-> 8, max |-> 2]

MCModes == {ClicksMode, HoldMode, PressMode, BothMode}
=============================================================================
