--------------------------- MODULE LatchingRelay ---------------------------
(***************************************************************************)
(* What the bistable relay promises as long as its commands keep out of    *)
(* each other's way: a command is one step, which reports the new state    *)
(* and drives the coil of that side, and the coil is let go in one step,   *)
(* never before the contact has moved, and always in the end.              *)
(*                                                                         *)
(* Commands that meet inside the relay or during a pulse end the calm, and *)
(* with it every promise, until the next reset.                            *)
(***************************************************************************)

VARIABLES
    on,      \* the state the relay has taken on
    contact, \* the contact is closed
    coil,    \* the coil that is driven, or "none"
    calm     \* no command has met another one since the reset

latchVars == <<on, contact, coil, calm>>

CoilFor(position) == IF position THEN "set" ELSE "reset"

Init ==
    /\ on = FALSE
    /\ contact \in BOOLEAN
    /\ coil = "none"
    /\ calm = TRUE

Command(position) ==
    /\ calm
    /\ coil = "none"
    /\ on' = position
    /\ coil' = CoilFor(position)
    /\ UNCHANGED <<contact, calm>>

Move ==
    /\ calm
    /\ coil = CoilFor(on)
    /\ contact' = on
    /\ UNCHANGED <<on, coil, calm>>

Release ==
    /\ calm
    /\ coil = CoilFor(on)
    /\ contact = on
    /\ coil' = "none"
    /\ UNCHANGED <<on, contact, calm>>

\* A reset of the processor; the contact stays where it is.
Reset ==
    /\ on' = FALSE
    /\ coil' = "none"
    /\ calm' = TRUE
    /\ UNCHANGED contact

Next ==
    \/ \E position \in BOOLEAN : Command(position)
    \/ Move
    \/ Release
    \/ Reset
    \/ ~calm'

Safety == Init /\ [][Next]_latchVars

Spec == Safety /\ WF_latchVars(Move \/ Release)
=============================================================================
