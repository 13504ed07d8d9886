----------------------------- MODULE ServerLink -----------------------------
(***************************************************************************)
(* The link to the server: SuplaSrpc::iterate, which connects, registers,  *)
(* pings and gives up, with its timeouts, and the server and network       *)
(* around it, which may be slow, silent, gone or of another opinion.       *)
(*                                                                         *)
(* A tick is a second, and the loop iterates at least once in each, as the *)
(* main loop does while nothing blocks it.  Every timestamp of the code is *)
(* kept as the time since it was taken, every waitForIterate as the time   *)
(* left; an age stops counting at Oldest.  The server is known by name     *)
(* (no autodiscovery), the device is not in configuration mode, and the    *)
(* network restarts only when the link asks for it.                        *)
(***************************************************************************)
EXTENDS Integers

CONSTANTS
    DefaultTimeout, \* activityTimeoutS at boot
    Requested,      \* activity timeouts the program and the server ask for
    ServerDelay,    \* a server that answers does so within these ticks
    Oldest,         \* bound: ages are counted up to here
    MaxFaults       \* bound: failures of the network and of the server

Lead       == 5     \* s before the timeout at which a ping is due
Grace      == 10    \* s after the timeout at which the device gives up
PingGap    == 5     \* s between two pings
MinTimeout == 6
RegistrationTimeout == 10
RestartAfter == 6   \* failed connections until the network is restarted
ShortRetry == 1     \* s after the first failed connection
LongRetry  == 10    \* s after the others
None == -1

ActivityTimeout_NoMinimum(requested) == requested % 256

\* setActivityTimeout: at least MinTimeout, kept in a uint8_t.
ActivityTimeout(requested) ==
    (IF requested < MinTimeout THEN MinTimeout ELSE requested) % 256

Timeout == {ActivityTimeout(r) : r \in Requested \cup {DefaultTimeout}}
Age     == 0 .. Oldest

ASSUME LinkAssumption ==
    /\ Requested \subseteq Nat
    /\ DefaultTimeout \in Nat
    /\ ServerDelay \in Nat /\ ServerDelay < Grace
    /\ Oldest \in Nat
    /\ \A t \in Timeout : t + Grace < Oldest
    /\ MaxFaults \in Nat

VARIABLES
    network,        \* the network interface is ready
    connected,      \* client->connected()
    registered,
    firstConnectionAttempt,
    connectionFailCounter,  \* modulo RestartAfter
    requestNetworkRestart,  \* asked of the main loop's next iterate
    waitForIterate,         \* what is left of it
    activityTimeoutS,
    sinceRegister,  \* since lastIterateTime while registered is -1, else 0
    sinceResponse, sinceSent,   \* since last...Ms
    sincePing,      \* since lastPingTimeMs, up to PingGap
    iterated,       \* the loop has iterated in this tick
    reachable,      \* the server accepts connections
    silent,         \* this connection carries nothing any more
    inbox,          \* what has arrived and was not yet read
    owed,           \* age of the oldest message the server has to answer
    asked,          \* the server has to answer setActivityTimeout
    faults,
    failsInRow,     \* history: attempts failed, up to 2, with no connection
                    \* and no restart between them
    sinceFail       \* history: since the last of them, up to LongRetry

timers  == <<waitForIterate, sinceRegister, sinceResponse, sinceSent,
             sincePing>>
client  == <<connected, registered, firstConnectionAttempt,
             connectionFailCounter, requestNetworkRestart, activityTimeoutS>>
server  == <<reachable, silent, inbox, owed, asked>>
history == <<failsInRow, sinceFail>>
vars == <<network, timers, client, iterated, server, faults, history>>

Message == {"accepted", "rejected", "versionError", "timeoutResult", "other"}

TypeOK ==
    /\ network \in BOOLEAN
    /\ connected \in BOOLEAN
    /\ registered \in {-1, 0, 1}
    /\ firstConnectionAttempt \in BOOLEAN
    /\ connectionFailCounter \in 0 .. RestartAfter - 1
    /\ requestNetworkRestart \in BOOLEAN
    /\ waitForIterate \in 0 .. 15
    /\ activityTimeoutS \in Timeout
    /\ sinceRegister \in Age
    /\ sinceResponse \in Age
    /\ sinceSent \in Age
    /\ sincePing \in 0 .. PingGap
    /\ iterated \in BOOLEAN
    /\ reachable \in BOOLEAN
    /\ silent \in BOOLEAN
    /\ inbox \subseteq Message
    /\ owed \in None .. ServerDelay
    /\ asked \in BOOLEAN
    /\ faults \in 0 .. MaxFaults
    /\ failsInRow \in 0 .. 2
    /\ sinceFail \in 0 .. LongRetry

Init ==
    /\ network = FALSE
    /\ connected = FALSE
    /\ registered = 0
    /\ firstConnectionAttempt = TRUE
    /\ connectionFailCounter = 0
    /\ requestNetworkRestart = FALSE
    /\ waitForIterate = 0
    /\ activityTimeoutS = ActivityTimeout(DefaultTimeout)
    /\ sinceRegister = 0
    /\ sinceResponse = 0
    /\ sinceSent = 0
    /\ sincePing = 0
    /\ iterated = FALSE
    /\ reachable = TRUE
    /\ silent = FALSE
    /\ inbox = {}
    /\ owed = None
    /\ asked = FALSE
    /\ faults = 0
    /\ failsInRow = 0
    /\ sinceFail = 0

----------------------------------------------------------------------------
(* SuplaSrpc::iterate                                                      *)

Fault == faults < MaxFaults /\ faults' = faults + 1

\* Mutant: what the last connection brought is still read.
Hangup_KeepsInbox ==
    /\ connected' = FALSE
    /\ silent' = FALSE
    /\ owed' = None
    /\ asked' = FALSE
    /\ UNCHANGED inbox

\* The connection is gone, and what was on its way with it.
Hangup ==
    /\ connected' = FALSE
    /\ silent' = FALSE
    /\ inbox' = {}
    /\ owed' = None
    /\ asked' = FALSE

Disconnect ==
    /\ Hangup
    /\ firstConnectionAttempt' = TRUE
    /\ registered' = 0
    /\ sinceRegister' = 0

Iterates == iterated' = TRUE

Ready == ~requestNetworkRestart /\ network /\ waitForIterate = 0

IterateWaits ==
    /\ ~requestNetworkRestart
    /\ ~network \/ waitForIterate > 0
    /\ Iterates
    /\ UNCHANGED <<network, timers, client, server, faults, history>>

NoticeLoss ==
    /\ Ready
    /\ ~connected
    /\ registered # 0
    /\ registered' = 0
    /\ sinceRegister' = 0
    /\ waitForIterate' = 1
    /\ failsInRow' = 0
    /\ Iterates
    /\ UNCHANGED <<network, connected, firstConnectionAttempt,
                   connectionFailCounter, requestNetworkRestart,
                   activityTimeoutS, sinceResponse, sinceSent, sincePing,
                   server, faults, sinceFail>>

Attempt == Ready /\ ~connected /\ registered = 0 /\ Iterates

ConnectFails_AlwaysFirst ==
    /\ Attempt
    /\ ~reachable
    /\ waitForIterate' = ShortRetry
    /\ firstConnectionAttempt' = FALSE
    /\ connectionFailCounter' = (connectionFailCounter + 1) % RestartAfter
    /\ requestNetworkRestart' = (connectionFailCounter' = 0)
    /\ failsInRow' = IF failsInRow < 2 THEN failsInRow + 1 ELSE 2
    /\ sinceFail' = 0
    /\ UNCHANGED <<network, connected, registered, activityTimeoutS,
                   sinceRegister, sinceResponse, sinceSent, sincePing, server,
                   faults>>

ConnectFails_CountsPast ==
    /\ Attempt
    /\ ~reachable
    /\ waitForIterate' =
          IF firstConnectionAttempt THEN ShortRetry ELSE LongRetry
    /\ firstConnectionAttempt' = FALSE
    /\ connectionFailCounter' = connectionFailCounter + 1
    /\ requestNetworkRestart' = (connectionFailCounter' = RestartAfter)
    /\ failsInRow' = IF failsInRow < 2 THEN failsInRow + 1 ELSE 2
    /\ sinceFail' = 0
    /\ UNCHANGED <<network, connected, registered, activityTimeoutS,
                   sinceRegister, sinceResponse, sinceSent, sincePing, server,
                   faults>>

\* The wait is chosen before disconnect() sets firstConnectionAttempt, which
\* is cleared after it.
ConnectFails ==
    /\ Attempt
    /\ ~reachable
    /\ waitForIterate' =
          IF firstConnectionAttempt THEN ShortRetry ELSE LongRetry
    /\ firstConnectionAttempt' = FALSE
    /\ connectionFailCounter' = (connectionFailCounter + 1) % RestartAfter
    /\ requestNetworkRestart' = (connectionFailCounter' = 0)
    /\ failsInRow' = IF failsInRow < 2 THEN failsInRow + 1 ELSE 2
    /\ sinceFail' = 0
    /\ UNCHANGED <<network, connected, registered, activityTimeoutS,
                   sinceRegister, sinceResponse, sinceSent, sincePing, server,
                   faults>>

\* A new connection is used for the registration in the same iterate.
ConnectAndRegister ==
    /\ Attempt
    /\ reachable
    /\ connected' = TRUE
    /\ registered' = -1
    /\ connectionFailCounter' = 0
    /\ sinceRegister' = 0
    /\ sinceSent' = 0
    /\ owed' = 0
    /\ failsInRow' = 0
    /\ UNCHANGED <<network, firstConnectionAttempt, requestNetworkRestart,
                   activityTimeoutS, waitForIterate, sinceResponse,
                   sincePing, reachable, silent, inbox, asked, faults,
                   sinceFail>>

\* srpc_iterate_device hands over what has arrived: registered and the time
\* since the last response as they are after it.
Online == Ready /\ connected /\ "versionError" \notin inbox /\ Iterates

Registered ==
    IF "accepted" \in inbox THEN 1
    ELSE IF "rejected" \in inbox THEN 2 ELSE registered

Response == IF inbox = {} THEN sinceResponse ELSE 0

ReadTimeout ==
    IF "timeoutResult" \in inbox
    THEN activityTimeoutS' \in {ActivityTimeout(r) : r \in Requested}
    ELSE UNCHANGED activityTimeoutS

StillRegistering_Refreshes ==
    /\ Online
    /\ Registered = -1
    /\ sinceRegister <= RegistrationTimeout
    /\ sinceResponse' = Response
    /\ inbox' = {}
    /\ sinceRegister' = 0
    /\ UNCHANGED <<network, waitForIterate, sinceSent,
                   sincePing, client, reachable, silent, owed, asked, faults,
                   history>>

StillRegistering ==
    /\ Online
    /\ Registered = -1
    /\ sinceRegister <= RegistrationTimeout
    /\ sinceResponse' = Response
    /\ inbox' = {}
    /\ UNCHANGED <<network, waitForIterate, sinceRegister, sinceSent,
                   sincePing, client, reachable, silent, owed, asked, faults,
                   history>>

\* The device ends the connection and waits before it opens another.
EndConnection(wait) ==
    /\ Disconnect
    /\ waitForIterate' = wait
    /\ sinceResponse' = Response
    /\ failsInRow' = 0
    /\ UNCHANGED <<network, connectionFailCounter, requestNetworkRestart,
                   sinceSent, sincePing, reachable, sinceFail>>

RegistrationTimesOut ==
    /\ Online
    /\ Registered = -1
    /\ sinceRegister > RegistrationTimeout
    /\ EndConnection(2)
    /\ UNCHANGED <<activityTimeoutS, faults>>

Rejected ==
    /\ Online
    /\ Registered = 2
    /\ EndConnection(10)
    /\ UNCHANGED <<activityTimeoutS, faults>>

GiveUpDue_SinceSent == sinceSent >= activityTimeoutS' + Grace

GiveUpDue == Response >= activityTimeoutS' + Grace

\* activityTimeoutS - 5 is unsigned: below 5 it is never reached.
Reached(age) == activityTimeoutS' >= Lead /\ age >= activityTimeoutS' - Lead

PingDue_OnSilence(sent) ==
    sincePing >= PingGap /\ Reached(Response)

PingDue(sent) == sincePing >= PingGap /\ (Reached(Response) \/ Reached(sent))

PingTimesOut ==
    /\ Online
    /\ Registered = 1
    /\ ReadTimeout
    /\ GiveUpDue
    /\ EndConnection(0)
    /\ UNCHANGED faults

\* A device just accepted names its timeout, unless the server named the
\* same one; then, as in every later iterate, ping().
StayRegistered ==
    /\ Online
    /\ Registered = 1
    /\ registered' = 1
    /\ ReadTimeout
    /\ ~GiveUpDue
    /\ sinceRegister' = 0
    /\ sinceResponse' = Response
    /\ inbox' = {}
    /\ \E names \in BOOLEAN :
          LET sent == IF names THEN 0 ELSE sinceSent
          IN  /\ names => "accepted" \in inbox /\ ~silent
              /\ asked' = (names \/ asked)
              /\ IF PingDue(sent)
                 THEN /\ sincePing' = 0
                      /\ sinceSent' = 0
                      /\ owed' = IF silent \/ owed # None THEN owed ELSE 0
                 ELSE /\ sinceSent' = sent
                      /\ UNCHANGED <<sincePing, owed>>
    /\ UNCHANGED <<network, connected, firstConnectionAttempt,
                   connectionFailCounter, requestNetworkRestart,
                   waitForIterate, reachable, silent, faults, history>>

IterateFails ==
    /\ Online
    /\ Fault
    /\ EndConnection(5)
    /\ UNCHANGED activityTimeoutS

\* onVersionError disconnects and frees the object srpc_iterate_device is
\* working on.  What that still reads decides: the iterate ends as a failure,
\* or goes on to a registration without a connection, or the device resets.
VersionErrorFails ==
    /\ Ready /\ connected /\ "versionError" \in inbox /\ Iterates
    /\ EndConnection(5)
    /\ UNCHANGED <<activityTimeoutS, faults>>

VersionErrorGoesOn ==
    /\ Ready /\ connected /\ "versionError" \in inbox /\ Iterates
    /\ Hangup
    /\ firstConnectionAttempt' = TRUE
    /\ registered' = -1
    /\ waitForIterate' = 15
    /\ sinceRegister' = 0
    /\ sinceResponse' = 0
    /\ failsInRow' = 0
    /\ UNCHANGED <<network, connectionFailCounter, requestNetworkRestart,
                   activityTimeoutS, sinceSent, sincePing, reachable, faults,
                   sinceFail>>

\* The device boots: nothing of the link is kept.
Boot ==
    /\ Hangup
    /\ network' = FALSE
    /\ registered' = 0
    /\ firstConnectionAttempt' = TRUE
    /\ connectionFailCounter' = 0
    /\ requestNetworkRestart' = FALSE
    /\ waitForIterate' = 0
    /\ activityTimeoutS' = ActivityTimeout(DefaultTimeout)
    /\ sinceRegister' = 0 /\ sinceResponse' = 0
    /\ sinceSent' = 0 /\ sincePing' = 0
    /\ failsInRow' = 0
    /\ Iterates
    /\ UNCHANGED <<reachable, sinceFail>>

VersionErrorResets ==
    /\ Ready /\ connected /\ "versionError" \in inbox
    /\ Boot
    /\ UNCHANGED faults

Restart == Fault /\ Boot

\* iterateNetworkSetup: every layer is disconnected, its waiting time kept.
RestartNetwork ==
    /\ requestNetworkRestart
    /\ requestNetworkRestart' = FALSE
    /\ network' = FALSE
    /\ Disconnect
    /\ failsInRow' = 0
    /\ Iterates
    /\ UNCHANGED <<waitForIterate, sinceResponse, sinceSent, sincePing,
                   connectionFailCounter, activityTimeoutS,
                   reachable, faults, sinceFail>>

NetworkLost ==
    /\ network
    /\ Fault
    /\ network' = FALSE
    /\ Disconnect
    /\ failsInRow' = 0
    /\ Iterates
    /\ UNCHANGED <<waitForIterate, sinceResponse, sinceSent, sincePing,
                   connectionFailCounter, requestNetworkRestart,
                   activityTimeoutS, reachable, sinceFail>>

\* An element sends a value.
ElementSends ==
    /\ connected
    /\ registered = 1
    /\ iterated
    /\ sinceSent' = 0
    /\ UNCHANGED <<network, waitForIterate, sinceRegister, sinceResponse,
                   sincePing, client, iterated, server, faults, history>>

----------------------------------------------------------------------------
(* The network, the server and time                                        *)

NetworkReady ==
    /\ ~network
    /\ network' = TRUE
    /\ UNCHANGED <<timers, client, iterated, server, faults, history>>

Arrives(message) ==
    /\ connected
    /\ ~silent
    /\ inbox' = inbox \cup {message}
    /\ UNCHANGED <<network, timers, client, iterated, reachable, silent,
                   history>>

\* The answer to a registration or to a ping.
ServerAnswers ==
    /\ owed # None
    /\ Arrives(IF registered = -1 THEN "accepted" ELSE "other")
    /\ owed' = None
    /\ UNCHANGED <<asked, faults>>

ServerRefuses ==
    /\ owed # None
    /\ registered = -1
    /\ Fault
    /\ \E message \in {"rejected", "versionError"} : Arrives(message)
    /\ owed' = None
    /\ UNCHANGED asked

ServerSetsTimeout ==
    /\ asked
    /\ Arrives("timeoutResult")
    /\ asked' = FALSE
    /\ UNCHANGED <<owed, faults>>

\* A command from a user.
ServerSends ==
    /\ registered = 1
    /\ Arrives("other")
    /\ UNCHANGED <<owed, asked, faults>>

ServerFallsSilent ==
    /\ connected
    /\ ~silent
    /\ Fault
    /\ silent' = TRUE
    /\ owed' = None
    /\ asked' = FALSE
    /\ UNCHANGED <<network, timers, client, iterated, reachable, inbox,
                   history>>

ConnectionCloses ==
    /\ connected
    /\ Fault
    /\ Hangup
    /\ UNCHANGED <<network, timers, registered, firstConnectionAttempt,
                   connectionFailCounter, requestNetworkRestart,
                   activityTimeoutS, iterated, reachable, history>>

ServerGone ==
    /\ reachable
    /\ Fault
    /\ reachable' = FALSE
    /\ UNCHANGED <<network, timers, client, iterated, silent, inbox, owed,
                   asked, history>>

ServerBack ==
    /\ ~reachable
    /\ reachable' = TRUE
    /\ UNCHANGED <<network, timers, client, iterated, silent, inbox, owed,
                   asked, faults, history>>

Older(age, limit) == IF age < limit THEN age + 1 ELSE age

Tick ==
    /\ iterated
    /\ owed # None => owed < ServerDelay
    /\ owed' = IF owed = None THEN None ELSE owed + 1
    /\ waitForIterate' = IF waitForIterate = 0 THEN 0 ELSE waitForIterate - 1
    /\ sinceRegister' =
          IF registered = -1 THEN Older(sinceRegister, Oldest) ELSE 0
    /\ sinceResponse' = Older(sinceResponse, Oldest)
    /\ sinceSent' = Older(sinceSent, Oldest)
    /\ sincePing' = Older(sincePing, PingGap)
    /\ sinceFail' = Older(sinceFail, LongRetry)
    /\ iterated' = FALSE
    /\ UNCHANGED <<network, client, reachable, silent, inbox, asked, faults,
                   failsInRow>>

Iterate ==
    \/ IterateWaits \/ NoticeLoss \/ ConnectFails \/ ConnectAndRegister
    \/ StillRegistering \/ RegistrationTimesOut \/ Rejected
    \/ StayRegistered \/ PingTimesOut \/ IterateFails
    \/ VersionErrorFails \/ VersionErrorGoesOn \/ VersionErrorResets
    \/ RestartNetwork

Server ==
    \/ ServerAnswers \/ ServerRefuses \/ ServerSetsTimeout \/ ServerSends
    \/ ServerFallsSilent \/ ConnectionCloses \/ ServerGone

Next ==
    \/ Iterate \/ Restart \/ NetworkLost \/ NetworkReady
    \/ ElementSends \/ Server \/ ServerBack \/ Tick

Fairness ==
    /\ WF_vars(Iterate)
    /\ WF_vars(Tick)
    /\ WF_vars(NetworkReady)
    /\ WF_vars(ServerBack)
    /\ WF_vars(ServerAnswers)

Spec == Init /\ [][Next]_vars /\ Fairness

----------------------------------------------------------------------------
(* Properties                                                              *)

\* A registered device says something before its activity timeout is over,
\* so that the server never has a reason to take it for lost: ping() is in
\* time whatever else is sent and whenever the timeout changes.
HeardInTime ==
    registered = 1 /\ connected => sinceSent < activityTimeoutS

\* A server that has fallen silent is given up: Grace after the timeout when
\* registered, RegistrationTimeout after the request before that.
SilenceNoticed ==
    /\ registered = 1 => sinceResponse <= activityTimeoutS + Grace
    /\ registered = -1 /\ connected =>
           sinceRegister <= RegistrationTimeout + 1

\* The connection to a server that answers within ServerDelay is never given
\* up for a timeout: a ping was sent, and its answer read, before it.
ResponsiveKept == [][PingTimesOut => silent]_vars

\* From the third attempt in a row on, attempts to connect are at least
\* LongRetry apart, although every failure runs disconnect(), which makes the
\* next attempt a first one.
FailuresSpaced ==
    [][(ConnectFails \/ ConnectAndRegister) /\ failsInRow = 2
           => sinceFail = LongRetry]_vars

\* However the link was lost, it is registered again once the failures stop.
ComesBack == registered # 1 ~> registered = 1

\* The link as the rest of the device sees it.
Link == INSTANCE Session WITH
    device <- CASE registered = 0  -> "closed"
                [] registered = -1 -> "asking"
                [] registered = 1  -> "registered",
    server <- IF registered = 0 \/ ~connected THEN "gone"
              ELSE IF registered = 1 \/ "accepted" \in inbox THEN "granted"
              ELSE "unaware"

\* Every connection is a session of its own: whatever is lost, late or refused,
\* the device is registered only on the word of the server on the very
\* connection it uses, it learns of that word, and notices when it is gone.
RunsSessions == Link!Spec

\* A connection is given up Grace after an activity timeout that the program
\* or the server asked for, as the comment of ping() has it.
GivesUpWhenAsked ==
    [][PingTimesOut =>
          \E asks \in Requested \cup {DefaultTimeout} :
              /\ activityTimeoutS' = ActivityTimeout(asks)
              /\ sinceResponse >= asks + Grace]_vars
=============================================================================
