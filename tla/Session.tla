------------------------------ MODULE Session ------------------------------
(***************************************************************************)
(* What the link to the server promises the rest of the device: sessions,  *)
(* one per connection.  The device asks, the server grants, the device     *)
(* learns of it; the connection may be gone at any moment, and the device  *)
(* always comes to know.  A grant never outlives its connection: after one *)
(* is lost the device has to ask again.                                    *)
(*                                                                         *)
(* Two modules implement it: ServerLink, with the timeouts that decide     *)
(* when a connection is given up, and ChannelDelivery, which leaves them   *)
(* out and follows the messages instead.                                   *)
(***************************************************************************)

VARIABLES
    device, \* "closed", "asking" or "registered"
    server  \* "unaware", "granted", or "gone": there is no connection

sessionVars == <<device, server>>

Init == device = "closed" /\ server = "gone"

\* On a new connection, which may be gone before anything arrives.
Ask ==
    /\ device = "closed"
    /\ device' = "asking"
    /\ server' \in {"unaware", "gone"}

Grant ==
    /\ device = "asking"
    /\ server = "unaware"
    /\ server' = "granted"
    /\ UNCHANGED device

Learn ==
    /\ device = "asking"
    /\ server = "granted"
    /\ device' = "registered"
    /\ UNCHANGED server

\* The connection is gone and the device does not know.
Vanish ==
    /\ server # "gone"
    /\ server' = "gone"
    /\ UNCHANGED device

\* The device ends the connection, for whatever reason.
End ==
    /\ device # "closed"
    /\ device' = "closed"
    /\ server' = "gone"

Notice == server = "gone" /\ End

Next == Ask \/ Grant \/ Learn \/ Vanish \/ End

Safety == Init /\ [][Next]_sessionVars

Spec == Safety /\ WF_sessionVars(Learn) /\ WF_sessionVars(Notice)
=============================================================================
