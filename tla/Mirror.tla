------------------------------- MODULE Mirror -------------------------------
(***************************************************************************)
(* What the delivery of channel values promises: the server's picture of   *)
(* the device follows the device.  It is never set back to an earlier      *)
(* value, never shows a value the channel did not have, and whatever       *)
(* happens on the way, a picture that is behind catches up.                *)
(*                                                                         *)
(* A value is its version: how often the channel has changed.  The server  *)
(* starts with what it kept from before the boot, version 0.               *)
(***************************************************************************)
EXTENDS Integers

CONSTANTS
    Elements,   \* the elements that own a channel
    Version     \* 0 .. MaxVersion

VARIABLES
    value,  \* the value of each channel
    seen    \* the value the server shows for it

mirrorVars == <<value, seen>>

Init ==
    /\ value = [c \in Elements |-> 1]
    /\ seen = [c \in Elements |-> 0]

Change(c) ==
    /\ value[c] + 1 \in Version
    /\ value' = [value EXCEPT ![c] = @ + 1]
    /\ UNCHANGED seen

\* The server learns of newer values, of one channel or of several at once.
Learn ==
    /\ seen' \in [Elements -> Version]
    /\ \A c \in Elements : seen[c] <= seen'[c] /\ seen'[c] <= value[c]
    /\ UNCHANGED value

LearnAbout(c) == Learn /\ seen'[c] > seen[c]

Next == Learn \/ \E c \in Elements : Change(c)

Safety == Init /\ [][Next]_mirrorVars

Spec == Safety /\ \A c \in Elements : WF_mirrorVars(LearnAbout(c))
=============================================================================
