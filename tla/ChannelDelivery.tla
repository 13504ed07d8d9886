-------------------------- MODULE ChannelDelivery --------------------------
(***************************************************************************)
(* How a channel value gets to the server: Channel::changedFields and      *)
(* sendUpdate, the registration message that carries every value, the      *)
(* round of iterateConnected over the elements, and the connection under   *)
(* them, which may be lost at any moment.  Three actors: the loop task     *)
(* (SuplaDevice.iterate), the timer task, in which a button switches a     *)
(* relay, and the server (external).                                       *)
(*                                                                         *)
(* A value is its version.  The bits of changedFields other than           *)
(* CHANNEL_SEND_VALUE are never set on this board, so its |= and &= are    *)
(* plain writes, and of the eight bytes of a value only one is written by  *)
(* the timer task: copying them is one step.  How long the steps of        *)
(* SuplaSrpc::iterate wait is the subject of module ServerLink; here a     *)
(* wait is the loop going round.                                           *)
(***************************************************************************)
EXTENDS Integers, Sequences

CONSTANTS
    N,              \* the elements are 1 .. N, in the order of the list
    Switched,       \* the relays: a button changes them in the timer task
    Measured,       \* elements that ask to be sent without a new value
    MaxVersion,     \* bound: versions of a value
    MaxInFlight,    \* bound: messages a direction of the connection holds
    MaxFaults       \* bound: lost connections, rejections, failed calls

Elements == 1 .. N
Version  == 0 .. MaxVersion

ASSUME DeliveryAssumption ==
    /\ N \in Nat \ {0}
    /\ Switched \subseteq Elements
    /\ Measured \subseteq Elements
    /\ MaxVersion \in Nat \ {0}
    /\ MaxInFlight \in Nat \ {0}
    /\ MaxFaults \in Nat

VARIABLES
    value,      \* Channel::value of each element's channel
    sendValue,  \* CHANNEL_SEND_VALUE of its changedFields
    timerAt,    \* the channel the timer task has written and not yet flagged
    timerNews,  \* relays with timerUpdateTimestamp # durationTimestamp
    loopAt,     \* where the loop task is in SuplaDevice.iterate
    iterateConnectedPtr,    \* N + 1 is nullptr
    form,       \* the registration message so far: the values of 1, 2, ...
    registered, \* SuplaSrpc::registered
    connection, \* "none", "up", or "dead": closed, the device does not know
    toServer,   \* messages on their way to the server
    toDevice,   \* messages on their way to the device
    session,    \* the server has accepted the registration
    seen,       \* what the server shows
    faults

Nobody == 0

channelVars == <<value, sendValue, timerAt, timerNews>>
loopVars    == <<loopAt, iterateConnectedPtr, form>>
linkVars    == <<registered, connection, toServer, toDevice, session>>
vars == <<channelVars, loopVars, linkVars, seen, faults>>

LoopAt == {"always", "link", "receive", "dispatch", "clear", "copy",
           "elements", "send"}

Told     == UNION {[S -> Version] : S \in SUBSET Elements}
Report   == [register : BOOLEAN, values : Told]
Command  == [type : {"registered", "rejected"}, channel : {Nobody}]
                \cup [type : {"setValue"}, channel : Elements]

TypeOK ==
    /\ value \in [Elements -> Version]
    /\ sendValue \in [Elements -> BOOLEAN]
    /\ timerAt \in Switched \cup {Nobody}
    /\ timerNews \subseteq Switched
    /\ loopAt \in LoopAt
    /\ iterateConnectedPtr \in 1 .. N + 1
    /\ form \in Seq(Version)
    /\ loopAt \in {"clear", "copy"} => Len(form) < N
    /\ loopAt = "send" => iterateConnectedPtr \in Elements
    /\ registered \in {-1, 0, 1, 2}
    /\ connection \in {"none", "up", "dead"}
    /\ toServer \in Seq(Report)
    /\ toDevice \in Seq(Command)
    /\ session \in BOOLEAN
    /\ seen \in [Elements -> Version]
    /\ faults \in 0 .. MaxFaults

Init ==
    /\ value = [c \in Elements |-> 1]
    /\ sendValue = [c \in Elements |-> FALSE]
    /\ timerAt = Nobody
    /\ timerNews = {}
    /\ loopAt = "always"
    /\ iterateConnectedPtr = N + 1
    /\ form = <<>>
    /\ registered = 0
    /\ connection = "none"
    /\ toServer = <<>>
    /\ toDevice = <<>>
    /\ session = FALSE
    /\ seen = [c \in Elements |-> 0]
    /\ faults = 0

----------------------------------------------------------------------------
(* The timer task: a button's action runs Channel::setNewValue, which      *)
(* copies the value and then sets the flag.                                *)

\* A relay that is switched may start or end a countdown.
MayStartTimer(c) ==
    \/ UNCHANGED timerNews
    \/ timerNews' = timerNews \cup ({c} \cap Switched)

TimerCopies(c) ==
    /\ timerAt = Nobody
    /\ value[c] < MaxVersion
    /\ value' = [value EXCEPT ![c] = @ + 1]
    /\ MayStartTimer(c)
    /\ timerAt' = c
    /\ UNCHANGED <<sendValue, loopVars, linkVars, seen, faults>>

TimerFlags ==
    /\ timerAt # Nobody
    /\ sendValue' = [sendValue EXCEPT ![timerAt] = TRUE]
    /\ timerAt' = Nobody
    /\ UNCHANGED <<value, timerNews, loopVars, linkVars, seen, faults>>

----------------------------------------------------------------------------
(* The loop task                                                           *)

Goto(to) == loopAt' = to

\* A fault costs one of MaxFaults.
Fault == faults < MaxFaults /\ faults' = faults + 1

\* Mutant: what has arrived survives the disconnect.
Drop_KeepsReplies ==
    /\ toServer' = <<>>
    /\ session' = FALSE
    /\ UNCHANGED toDevice

\* disconnect(): what is on its way in either direction is lost, or has
\* arrived before, and the server's session ends.
Drop ==
    /\ toServer' = <<>>
    /\ toDevice' = <<>>
    /\ session' = FALSE

Disconnect == registered' = 0 /\ connection' = "none" /\ Drop

\* Mutant: a value changed in the loop task is not flagged.
SetNewValue_Unflagged(c) ==
    /\ value' = IF value[c] < MaxVersion
                THEN [value EXCEPT ![c] = @ + 1] ELSE value
    /\ UNCHANGED <<sendValue, timerNews>>

\* setNewValue in the loop task: the timer task's writes to the same bytes
\* do not tell its two writes apart.
SetNewValue(c) ==
    IF value[c] < MaxVersion
    THEN /\ value' = [value EXCEPT ![c] = @ + 1]
         /\ sendValue' = [sendValue EXCEPT ![c] = TRUE]
         /\ MayStartTimer(c)
    ELSE UNCHANGED <<value, sendValue, timerNews>>

\* iterateAlways of an element that has something new to show.
ElementChanges(c) ==
    /\ loopAt = "always"
    /\ value[c] < MaxVersion
    /\ SetNewValue(c)
    /\ UNCHANGED <<timerAt, loopVars, linkVars, seen, faults>>

\* The rest of iterateAlways: a meter asks to be sent, new value or not.
IterateAlways ==
    /\ loopAt = "always"
    /\ \E refreshed \in SUBSET Measured :
          sendValue' = [c \in Elements |-> sendValue[c] \/ c \in refreshed]
    /\ Goto("link")
    /\ UNCHANGED <<value, timerAt, timerNews, iterateConnectedPtr, form,
                   linkVars, seen, faults>>

\* The network interface is gone: DisconnectProtocols.
NetworkLost ==
    /\ loopAt = "link"
    /\ Fault
    /\ Disconnect
    /\ Goto("always")
    /\ UNCHANGED <<channelVars, iterateConnectedPtr, form, seen>>

\* client->connected() is false: connection lost.
ConnectionLost ==
    /\ loopAt = "link"
    /\ connection = "dead"
    /\ Disconnect
    /\ Goto("always")
    /\ UNCHANGED <<channelVars, iterateConnectedPtr, form, seen, faults>>

Connect ==
    /\ loopAt = "link"
    /\ connection = "none"
    /\ connection' = "up"
    /\ Goto("receive")
    /\ UNCHANGED <<channelVars, iterateConnectedPtr, form, registered,
                   toServer, toDevice, session, seen, faults>>

\* The client takes a dead connection for a good one until it is told.
StillConnected ==
    /\ loopAt = "link"
    /\ connection # "none"
    /\ Goto("receive")
    /\ UNCHANGED <<channelVars, iterateConnectedPtr, form, linkVars, seen,
                   faults>>

\* Mutant: the flags are cleared when the registration is confirmed.
ReceiveResult_ClearsFlags ==
    /\ loopAt = "receive"
    /\ toDevice # <<>>
    /\ Head(toDevice).type # "setValue"
    /\ IF Head(toDevice).type = "registered"
       THEN /\ registered' = 1
            /\ timerNews' = Switched
            /\ sendValue' = [c \in Elements |-> FALSE]
       ELSE registered' = 2 /\ UNCHANGED <<timerNews, sendValue>>
    /\ toDevice' = Tail(toDevice)
    /\ UNCHANGED <<value, timerAt, loopVars, connection, toServer, session,
                   seen, faults>>

\* srpc_iterate_device hands over everything that has arrived; onRegistered
\* has every relay report its countdown.
ReceiveResult ==
    /\ loopAt = "receive"
    /\ toDevice # <<>>
    /\ Head(toDevice).type # "setValue"
    /\ IF Head(toDevice).type = "registered"
       THEN registered' = 1 /\ timerNews' = Switched
       ELSE registered' = 2 /\ UNCHANGED timerNews
    /\ toDevice' = Tail(toDevice)
    /\ UNCHANGED <<value, sendValue, timerAt, loopVars, connection, toServer, session, seen,
                   faults>>

ReceiveSetValue ==
    /\ loopAt = "receive"
    /\ toDevice # <<>>
    /\ Head(toDevice).type = "setValue"
    /\ SetNewValue(Head(toDevice).channel)
    /\ toDevice' = Tail(toDevice)
    /\ UNCHANGED <<timerAt, loopVars, registered, connection, toServer,
                   session, seen, faults>>

ReceiveDone ==
    /\ loopAt = "receive"
    /\ toDevice = <<>>
    /\ Goto("dispatch")
    /\ UNCHANGED <<channelVars, iterateConnectedPtr, form, linkVars, seen,
                   faults>>

\* srpc_iterate_device failed: communication failure.
ReceiveFails ==
    /\ loopAt = "receive"
    /\ Fault
    /\ Disconnect
    /\ Goto("always")
    /\ UNCHANGED <<channelVars, iterateConnectedPtr, form, seen>>

StartRegistration ==
    /\ loopAt = "dispatch"
    /\ registered = 0
    /\ registered' = -1
    /\ form' = <<>>
    /\ Goto("clear")
    /\ UNCHANGED <<channelVars, iterateConnectedPtr, connection, toServer,
                   toDevice, session, seen, faults>>

\* fillDeviceChannelStruct, for one channel after the other: the flag is
\* cleared before the value is copied.
FillClear ==
    /\ loopAt = "clear"
    /\ sendValue' = [sendValue EXCEPT ![Len(form) + 1] = FALSE]
    /\ Goto("copy")
    /\ UNCHANGED <<value, timerAt, timerNews, iterateConnectedPtr, form,
                   linkVars, seen, faults>>

Send(report) ==
    toServer' = IF connection = "up" THEN Append(toServer, report)
                                     ELSE toServer

FillCopy ==
    /\ loopAt = "copy"
    /\ form' = Append(form, value[Len(form) + 1])
    /\ IF Len(form) + 1 = N
       THEN /\ Send([register |-> TRUE, values |-> form'])
            /\ Goto("always")
       ELSE UNCHANGED toServer /\ Goto("clear")
    /\ UNCHANGED <<channelVars, iterateConnectedPtr, registered, connection,
                   toDevice, session, seen, faults>>

AwaitRegistration ==
    /\ loopAt = "dispatch"
    /\ registered = -1
    /\ Goto("always")
    /\ UNCHANGED <<channelVars, iterateConnectedPtr, form, linkVars, seen,
                   faults>>

\* No reply to the registration: the connection is dead, or the server was
\* too slow.
RegistrationTimeout ==
    /\ loopAt = "dispatch"
    /\ registered = -1
    /\ IF connection = "dead" THEN UNCHANGED faults ELSE Fault
    /\ Disconnect
    /\ Goto("always")
    /\ UNCHANGED <<channelVars, iterateConnectedPtr, form, seen>>

LeaveRejected ==
    /\ loopAt = "dispatch"
    /\ registered = 2
    /\ Disconnect
    /\ Goto("always")
    /\ UNCHANGED <<channelVars, iterateConnectedPtr, form, seen, faults>>

\* Mutant: every round starts with the first element.
EnterElements_FromBegin ==
    /\ iterateConnectedPtr' = 1
    /\ Goto("elements")

\* The round of iterateConnected goes on where it stopped.
EnterElements ==
    /\ iterateConnectedPtr' = IF iterateConnectedPtr = N + 1
                              THEN 1 ELSE iterateConnectedPtr
    /\ Goto("elements")

PingOk ==
    /\ loopAt = "dispatch"
    /\ registered = 1
    /\ EnterElements
    /\ UNCHANGED <<channelVars, form, linkVars, seen, faults>>

\* iterate() disconnects and still returns true.  The live connection of a
\* server that is silent for good counts as dead here.
PingTimeout ==
    /\ loopAt = "dispatch"
    /\ registered = 1
    /\ connection = "dead"
    /\ Disconnect
    /\ EnterElements
    /\ UNCHANGED <<channelVars, form, seen, faults>>

\* A relay spends its turn on the countdown; its value waits for the next.
ReportTimer ==
    /\ loopAt = "elements"
    /\ iterateConnectedPtr \in timerNews
    /\ timerNews' = timerNews \ {iterateConnectedPtr}
    /\ iterateConnectedPtr' = iterateConnectedPtr + 1
    /\ Goto("always")
    /\ UNCHANGED <<value, sendValue, timerAt, form, linkVars, seen, faults>>

SkipElement ==
    /\ loopAt = "elements"
    /\ iterateConnectedPtr \in Elements \ timerNews
    /\ ~sendValue[iterateConnectedPtr]
    /\ iterateConnectedPtr' = iterateConnectedPtr + 1
    /\ UNCHANGED <<channelVars, loopAt, form, linkVars, seen, faults>>

RoundEnds ==
    /\ loopAt = "elements"
    /\ iterateConnectedPtr = N + 1
    /\ Goto("always")
    /\ UNCHANGED <<channelVars, iterateConnectedPtr, form, linkVars, seen,
                   faults>>

\* sendUpdate: the flag is cleared, then the value is read and sent.
UpdateClears ==
    /\ loopAt = "elements"
    /\ iterateConnectedPtr \in Elements \ timerNews
    /\ sendValue[iterateConnectedPtr]
    /\ sendValue' = [sendValue EXCEPT ![iterateConnectedPtr] = FALSE]
    /\ Goto("send")
    /\ UNCHANGED <<value, timerAt, timerNews, iterateConnectedPtr, form,
                   linkVars, seen, faults>>

ValueReport(c) == [register |-> FALSE, values |-> [d \in {c} |-> value[d]]]

\* Mutant: the pointer moves on at the break and once more in the for.
UpdateSends_SkipsOne ==
    /\ loopAt = "send"
    /\ connection = "up" => Len(toServer) < MaxInFlight
    /\ IF registered = 1 THEN Send(ValueReport(iterateConnectedPtr))
                         ELSE UNCHANGED toServer
    /\ iterateConnectedPtr' = iterateConnectedPtr + 2
    /\ Goto("always")
    /\ UNCHANGED <<channelVars, form, registered, connection, toDevice,
                   session, seen, faults>>

\* Only a registered device sends, and only one element sends per round.
UpdateSends ==
    /\ loopAt = "send"
    /\ connection = "up" => Len(toServer) < MaxInFlight
    /\ IF registered = 1 THEN Send(ValueReport(iterateConnectedPtr))
                         ELSE UNCHANGED toServer
    /\ iterateConnectedPtr' = iterateConnectedPtr + 1
    /\ Goto("always")
    /\ UNCHANGED <<channelVars, form, registered, connection, toDevice,
                   session, seen, faults>>

----------------------------------------------------------------------------
(* The server and the connection                                           *)

Reply(type, c) == Append(toDevice, [type |-> type, channel |-> c])

Learns ==
    LET told == Head(toServer).values
    IN  seen' = [c \in Elements |-> IF c \in DOMAIN told THEN told[c]
                                                        ELSE seen[c]]

ServerAccepts ==
    /\ toServer # <<>>
    /\ Head(toServer).register
    /\ Learns
    /\ session' = TRUE
    /\ toServer' = Tail(toServer)
    /\ toDevice' = Reply("registered", Nobody)
    /\ UNCHANGED <<channelVars, loopVars, registered, connection, faults>>

ServerRejects ==
    /\ toServer # <<>>
    /\ Head(toServer).register
    /\ Fault
    /\ toServer' = Tail(toServer)
    /\ toDevice' = Reply("rejected", Nobody)
    /\ UNCHANGED <<channelVars, loopVars, registered, connection, session,
                   seen>>

ServerLearns ==
    /\ toServer # <<>>
    /\ ~Head(toServer).register
    /\ Learns
    /\ toServer' = Tail(toServer)
    /\ UNCHANGED <<channelVars, loopVars, registered, connection, toDevice,
                   session, faults>>

ServerCommands(c) ==
    /\ session
    /\ Len(toDevice) < MaxInFlight
    /\ value[c] < MaxVersion
    /\ toDevice' = Reply("setValue", c)
    /\ UNCHANGED <<channelVars, loopVars, registered, connection, toServer,
                   session, seen, faults>>

ConnectionDies ==
    /\ connection = "up"
    /\ Fault
    /\ connection' = "dead"
    /\ Drop
    /\ UNCHANGED <<channelVars, loopVars, registered, seen>>

----------------------------------------------------------------------------

Timer  == TimerFlags \/ \E c \in Switched : TimerCopies(c)

Link ==
    \/ NetworkLost \/ ConnectionLost \/ Connect \/ StillConnected
    \/ ReceiveResult \/ ReceiveSetValue \/ ReceiveDone \/ ReceiveFails
    \/ StartRegistration \/ FillClear \/ FillCopy \/ AwaitRegistration
    \/ RegistrationTimeout \/ LeaveRejected \/ PingOk \/ PingTimeout

Round ==
    \/ \E c \in Elements : ElementChanges(c)
    \/ IterateAlways
    \/ ReportTimer \/ SkipElement \/ RoundEnds \/ UpdateClears \/ UpdateSends

Server ==
    \/ ServerAccepts \/ ServerRejects \/ ServerLearns
    \/ \E c \in Elements : ServerCommands(c)

Next == Timer \/ Link \/ Round \/ Server \/ ConnectionDies

\* The tasks run; the server reads what it is sent; and a timeout on a dead
\* connection comes, however often the loop finds it not yet due.
Fairness ==
    /\ WF_vars(TimerFlags)
    /\ WF_vars(Link \/ Round)
    /\ WF_vars(Server)
    /\ SF_vars(connection = "dead" /\ (RegistrationTimeout \/ PingTimeout))

Spec == Init /\ [][Next]_vars /\ Fairness

----------------------------------------------------------------------------
(* Properties                                                              *)

Promise == INSTANCE Mirror

\* The delivery is a Mirror: across registrations, updates, lost connections
\* and the timer task's changes in between, the server never goes back to an
\* older value and always catches up.
FollowsTheDevice == Promise!Spec

OnItsWay(c) == \E i \in DOMAIN toServer : c \in DOMAIN toServer[i].values

\* A change that still has its flag to be set or cleared, or its value to be
\* read.
Pending(c) ==
    \/ sendValue[c]
    \/ timerAt = c
    \/ loopAt = "send" /\ iterateConnectedPtr = c

\* No change falls between the flag and the value: on a registered connection
\* a channel with nothing pending and nothing on its way is known to the
\* server as it is (channel.cpp 298-305, 424-426, 1575-1594).
NothingForgotten ==
    registered = 1 /\ connection = "up" =>
        \A c \in Elements :
            Pending(c) \/ OnItsWay(c) \/ seen[c] = value[c]

\* The connection under the delivery.
Sessions == INSTANCE Session WITH
    device <- CASE registered \in {0, 2} -> "closed"
                [] registered = -1       -> "asking"
                [] registered = 1        -> "registered",
    server <- IF registered \in {0, 2} \/ connection # "up" THEN "gone"
              ELSE IF session THEN "granted" ELSE "unaware"

\* The link that the delivery runs on is the one of module ServerLink: both
\* implement Session, so nothing is delivered on the strength of a registration
\* the server granted on an earlier connection.
RunsSessions == Sessions!Spec

\* A meter that asks to be sent in every round does not keep the elements
\* after it from their turn (SuplaDevice.cpp 532-543).
EveryElementServed ==
    \A c \in Elements : sendValue[c] ~> ~sendValue[c]

=============================================================================
