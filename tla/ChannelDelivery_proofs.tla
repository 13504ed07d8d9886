---------------------- MODULE ChannelDelivery_proofs ----------------------
(***************************************************************************)
(* The delivery of channel values, for any number of elements, versions    *)
(* and faults: what the run channel_delivery checks for two elements, its  *)
(* liveness excepted.                                                      *)
(***************************************************************************)
EXTENDS ChannelDelivery, TLAPS

(* Types                                                                   *)

\* Taking from and adding to a queue of messages.
LEMMA QueueTypes ==
    ASSUME NEW S
    PROVE  /\ <<>> \in Seq(S)
           /\ Len(<<>>) = 0
           /\ \A q \in Seq(S), e \in S : Append(q, e) \in Seq(S)
           /\ \A q \in Seq(S) : q # <<>> => Head(q) \in S /\ Tail(q) \in Seq(S)
OBVIOUS

\* The elements of a queue with one message more.
LEMMA AppendElements ==
    ASSUME NEW S, NEW q \in Seq(S), NEW e \in S
    PROVE  /\ Len(Append(q, e)) = Len(q) + 1
           /\ \A i \in 1 .. Len(q) : Append(q, e)[i] = q[i]
           /\ Append(q, e)[Len(q) + 1] = e
           /\ q = <<>> => Len(q) = 0
OBVIOUS

\* The messages that are sent, and what receiving one yields.
LEMMA MessageTypes ==
    /\ \A r \in Report : /\ r.register \in BOOLEAN
                         /\ DOMAIN r.values \subseteq Elements
                         /\ \A c \in DOMAIN r.values : r.values[c] \in Version
    /\ \A m \in Command : m.type = "setValue" => m.channel \in Elements
    /\ \A f \in Seq(Version) :
          Len(f) = N => [register |-> TRUE, values |-> f] \in Report
    /\ \A c \in Elements : value \in [Elements -> Version] =>
          ValueReport(c) \in Report
    /\ \A c \in Elements : [type |-> "setValue", channel |-> c] \in Command
    /\ [type |-> "registered", channel |-> Nobody] \in Command
    /\ [type |-> "rejected", channel |-> Nobody] \in Command
<1>1. \A r \in Report : /\ r.register \in BOOLEAN
                         /\ DOMAIN r.values \subseteq Elements
                         /\ \A c \in DOMAIN r.values : r.values[c] \in Version
  BY DEF Report, Told
<1>2. \A m \in Command : m.type = "setValue" => m.channel \in Elements
  BY DEF Command
<1>3. ASSUME NEW f \in Seq(Version), Len(f) = N
      PROVE  [register |-> TRUE, values |-> f] \in Report
  <2>1. f \in [Elements -> Version]
    BY <1>3 DEF Elements
  <2>2. f \in Told
    BY <2>1 DEF Told
  <2>3. QED
    BY <2>2 DEF Report
<1>4. ASSUME NEW c \in Elements, value \in [Elements -> Version]
      PROVE  ValueReport(c) \in Report
  <2>1. [d \in {c} |-> value[d]] \in [{c} -> Version]
    BY <1>4
  <2>2. [d \in {c} |-> value[d]] \in Told
    BY <2>1 DEF Told
  <2>3. QED
    BY <2>2 DEF Report, ValueReport
<1>5. QED
  BY <1>1, <1>2, <1>3, <1>4 DEF Command

\* A queue with one message more is a queue.
LEMMA AppendTypes ==
    ASSUME NEW S, NEW q \in Seq(S), NEW e \in S PROVE Append(q, e) \in Seq(S)
OBVIOUS

\* Sending a report keeps the queue's type.
LEMMA SendTypes ==
    ASSUME toServer \in Seq(Report), NEW r \in Report, Send(r)
    PROVE  toServer' \in Seq(Report)
<1>1. Append(toServer, r) \in Seq(Report)
  BY AppendTypes
<1>2. QED
  BY <1>1 DEF Send

\* The first report of a connection, if the connection is up.
LEMMA SendFirst ==
    ASSUME toServer = <<>>, NEW r \in Report, Send(r)
    PROVE  \/ connection # "up" /\ toServer' = <<>>
           \/ connection = "up" /\ toServer' = <<r>>
<1>1. Append(<<>>, r) = <<r>>
  OBVIOUS
<1>2. QED
  BY <1>1 DEF Send

\* A fault is counted.
LEMMA FaultTypes ==
    ASSUME TypeOK, Fault PROVE faults' \in 0 .. MaxFaults
BY DeliveryAssumption DEF TypeOK, Fault

\* disconnect() leaves the link's fields in their types.
LEMMA DisconnectTypes ==
    ASSUME Disconnect
    PROVE  /\ registered' \in {-1, 0, 1, 2}
           /\ connection' \in {"none", "up", "dead"}
           /\ toServer' \in Seq(Report) /\ toDevice' \in Seq(Command)
           /\ session' \in BOOLEAN
BY QueueTypes DEF Disconnect, Drop

\* A change leads to a version.
LEMMA ChangeTypes ==
    ASSUME TypeOK, NEW c \in Elements, value[c] < MaxVersion
    PROVE  [value EXCEPT ![c] = @ + 1] \in [Elements -> Version]
BY DeliveryAssumption DEF TypeOK, Version

\* setNewValue keeps the types of what it writes.
LEMMA SetNewValueTypes ==
    ASSUME TypeOK, NEW c \in Elements, SetNewValue(c)
    PROVE  /\ value' \in [Elements -> Version]
           /\ sendValue' \in [Elements -> BOOLEAN]
           /\ timerNews' \subseteq Switched
<1>1. value \in [Elements -> Version] /\ sendValue \in [Elements -> BOOLEAN]
      /\ timerNews \subseteq Switched
  BY DEF TypeOK
<1>2. QED
  BY <1>1, ChangeTypes DEF SetNewValue, MayStartTimer

\* The report that completes the registration, and what it does to toServer.
LEMMA FormComplete ==
    ASSUME TypeOK, FillCopy, Len(form) + 1 = N
    PROVE  LET report == [register |-> TRUE, values |-> form']
           IN  /\ report \in Report
               /\ DOMAIN form' = Elements
               /\ Send(report)
<1> DEFINE report == [register |-> TRUE, values |-> form']
<1>1. /\ form' = Append(form, value[Len(form) + 1])
      /\ Send(report)
  BY DEF FillCopy
<1>2. Len(form) + 1 \in Elements
  BY DeliveryAssumption DEF Elements
<1>3. form' \in Seq(Version) /\ Len(form') = N
  BY <1>1, <1>2 DEF TypeOK
<1>4. QED
  BY <1>1, <1>3, MessageTypes DEF Elements

\* Every step keeps the types.
LEMMA TypeStep == TypeOK /\ [Next]_vars => TypeOK'
<1> SUFFICES ASSUME TypeOK, [Next]_vars PROVE TypeOK'
  OBVIOUS
<1>q. /\ toServer \in Seq(Report) /\ toDevice \in Seq(Command)
      /\ form \in Seq(Version)
  BY DEF TypeOK
<1> USE QueueTypes, MessageTypes
<1> USE DeliveryAssumption
        DEF TypeOK, channelVars, loopVars, linkVars, Goto, LoopAt, Elements,
            Version, Nobody
<1>1. CASE TimerFlags
  BY <1>1 DEF TimerFlags
<1>2. CASE NetworkLost
  BY <1>2, FaultTypes, DisconnectTypes DEF NetworkLost
<1>3. CASE ConnectionLost
  BY <1>3, DisconnectTypes DEF ConnectionLost
<1>4. CASE Connect
  BY <1>4 DEF Connect
<1>5. CASE StillConnected
  BY <1>5 DEF StillConnected
<1>6. CASE ReceiveResult
  BY <1>6 DEF ReceiveResult
<1>7. CASE ReceiveSetValue
  BY <1>7, SetNewValueTypes DEF ReceiveSetValue
<1>8. CASE ReceiveDone
  BY <1>8 DEF ReceiveDone
<1>9. CASE ReceiveFails
  BY <1>9, FaultTypes, DisconnectTypes DEF ReceiveFails
<1>10. CASE StartRegistration
  BY <1>10 DEF StartRegistration
<1>11. CASE FillClear
  BY <1>11 DEF FillClear
<1>12. CASE FillCopy
  <2>1. /\ Len(form) + 1 \in Elements
        /\ form' \in Seq(Version)
        /\ Len(form') = Len(form) + 1
    BY <1>12 DEF FillCopy
  <2>2. CASE Len(form) + 1 = N
    <3>1. [register |-> TRUE, values |-> form'] \in Report
      BY <2>1, <2>2
    <3>2. toServer' \in Seq(Report)
      <4>1. Send([register |-> TRUE, values |-> form'])
        BY <1>12, <2>2 DEF FillCopy
      <4>2. QED
        BY <1>q, <3>1, <4>1, SendTypes
    <3>3. QED
      BY <1>12, <2>1, <2>2, <3>2 DEF FillCopy
  <2>3. CASE Len(form) + 1 # N
    <3>1. Len(form) + 1 < N
      BY <2>1, <2>3
    <3>2. toServer' = toServer /\ loopAt' = "clear"
      BY <1>12, <2>3 DEF FillCopy
    <3>3. QED
      BY <1>12, <2>1, <3>1, <3>2 DEF FillCopy
  <2>4. QED
    BY <2>2, <2>3
<1>13. CASE AwaitRegistration
  BY <1>13 DEF AwaitRegistration
<1>14. CASE RegistrationTimeout
  BY <1>14, FaultTypes, DisconnectTypes DEF RegistrationTimeout
<1>15. CASE LeaveRejected
  BY <1>15, DisconnectTypes DEF LeaveRejected
<1>16. CASE PingOk
  BY <1>16 DEF PingOk, EnterElements
<1>17. CASE PingTimeout
  BY <1>17, DisconnectTypes DEF PingTimeout, EnterElements
<1>18. CASE IterateAlways
  BY <1>18 DEF IterateAlways
<1>19. CASE ReportTimer
  BY <1>19 DEF ReportTimer
<1>20. CASE SkipElement
  <2>1. /\ iterateConnectedPtr' \in 1 .. N + 1
        /\ loopAt = "elements" /\ UNCHANGED loopAt
    BY <1>20 DEF SkipElement
  <2>2. UNCHANGED <<channelVars, form, linkVars, seen, faults>>
    BY <1>20 DEF SkipElement
  <2>3. QED
    BY <2>1, <2>2
<1>21. CASE RoundEnds
  BY <1>21 DEF RoundEnds
<1>22. CASE UpdateClears
  BY <1>22 DEF UpdateClears
<1>23. CASE UpdateSends
  <2>1. iterateConnectedPtr \in Elements
    BY <1>23 DEF UpdateSends
  <2>2. toServer' \in Seq(Report)
    <3>1. ValueReport(iterateConnectedPtr) \in Report
      BY <2>1
    <3>2. CASE registered = 1
      <4>1. Send(ValueReport(iterateConnectedPtr))
        BY <1>23, <3>2 DEF UpdateSends
      <4>2. QED
        BY <1>q, <3>1, <4>1, SendTypes
    <3>3. CASE registered # 1
      BY <1>23, <3>3 DEF UpdateSends
    <3>4. QED
      BY <3>2, <3>3
  <2>3. QED
    BY <1>23, <2>1, <2>2 DEF UpdateSends
<1>24. CASE ServerAccepts
  BY <1>24 DEF ServerAccepts, Reply, Learns
<1>25. CASE ServerRejects
  BY <1>25, FaultTypes DEF ServerRejects, Reply
<1>26. CASE ServerLearns
  BY <1>26 DEF ServerLearns, Learns
<1>27. CASE ConnectionDies
  BY <1>27, FaultTypes DEF ConnectionDies, Drop
<1>28. ASSUME NEW c \in Switched, TimerCopies(c) PROVE TypeOK'
  BY <1>28, ChangeTypes DEF TimerCopies, MayStartTimer
<1>29. ASSUME NEW c \in Elements, ElementChanges(c) PROVE TypeOK'
  BY <1>29, SetNewValueTypes DEF ElementChanges
<1>30. ASSUME NEW c \in Elements, ServerCommands(c) PROVE TypeOK'
  BY <1>30 DEF ServerCommands, Reply
<1>31. CASE UNCHANGED vars
  BY <1>31 DEF vars
<1>32. QED
  BY <1>1, <1>2, <1>3, <1>4, <1>5, <1>6, <1>7, <1>8, <1>9, <1>10, <1>11,
     <1>12, <1>13, <1>14, <1>15, <1>16, <1>17, <1>18, <1>19, <1>20, <1>21,
     <1>22, <1>23, <1>24, <1>25, <1>26, <1>27, <1>28, <1>29, <1>30, <1>31
     DEF Next, Timer, Link, Round, Server
----------------------------------------------------------------------------
(* The inductive invariant                                                 *)

Filling == loopAt \in {"clear", "copy"}

\* The link's fields agree with each other and with where the loop is; a
\* registration is the only message of its connection until it is answered.
LinkInv ==
    /\ connection # "up" => toServer = <<>> /\ toDevice = <<>> /\ ~session
    /\ registered = 0 => toServer = <<>> /\ toDevice = <<>> /\ ~session
    /\ connection = "none" => registered = 0
    /\ loopAt \in {"receive", "dispatch"} => connection # "none"
    /\ Filling => /\ registered = -1
                  /\ toServer = <<>> /\ toDevice = <<>> /\ ~session
    /\ loopAt \in {"elements", "send"} =>
          registered = 1 \/ connection = "none"
    /\ registered = 1 /\ connection = "up" => session
    /\ \A i \in 1 .. Len(toDevice) :
          toDevice[i].type = "registered" => session
    /\ \A i \in 1 .. Len(toServer) :
          IF toServer[i].register
          THEN /\ Len(toServer) = 1 /\ toDevice = <<>>
               /\ registered = -1 /\ ~session
               /\ DOMAIN toServer[i].values = Elements
          ELSE session

Tells(i, c) == c \in DOMAIN toServer[i].values

\* The last report about c tells its value; with none, the server knows it.
UpToDate(c) ==
    /\ \A i \in 1 .. Len(toServer) :
          Tells(i, c) /\ (\A j \in i + 1 .. Len(toServer) : ~Tells(j, c))
              => toServer[i].values[c] = value[c]
    /\ (\A i \in 1 .. Len(toServer) : ~Tells(i, c)) => seen[c] = value[c]

\* A channel with nothing pending is told as it is.
ToldInv ==
    /\ session \/ toServer # <<>> =>
          \A c \in Elements : Pending(c) \/ UpToDate(c)
    /\ Filling => \A c \in 1 .. Len(form) : Pending(c) \/ form[c] = value[c]

\* What is told is newer the later it was told.
Ordered(c) ==
    /\ seen[c] <= value[c]
    /\ \A i \in 1 .. Len(toServer) : Tells(i, c) =>
          /\ seen[c] <= toServer[i].values[c]
          /\ toServer[i].values[c] <= value[c]
          /\ \A j \in i + 1 .. Len(toServer) : Tells(j, c) =>
                toServer[i].values[c] <= toServer[j].values[c]

OrderInv ==
    /\ \A c \in Elements : Ordered(c)
    /\ Filling => \A c \in 1 .. Len(form) :
                     seen[c] <= form[c] /\ form[c] <= value[c]

\* Every step keeps the agreement of the link's fields.
LEMMA LinkStep == TypeOK /\ LinkInv /\ [Next]_vars => LinkInv'
<1> SUFFICES ASSUME TypeOK, LinkInv, [Next]_vars PROVE LinkInv'
  OBVIOUS
<1> USE DEF LinkInv, Filling, TypeOK, Goto, channelVars, loopVars, linkVars
<1>1. CASE TimerFlags
  BY <1>1 DEF TimerFlags
<1>2. ASSUME NEW c \in Switched, TimerCopies(c) PROVE LinkInv'
  BY <1>2 DEF TimerCopies, MayStartTimer
<1>3. CASE NetworkLost
  BY <1>3 DEF NetworkLost, Disconnect, Drop, Fault
<1>4. CASE ConnectionLost
  BY <1>4 DEF ConnectionLost, Disconnect, Drop
<1>5. CASE Connect
  BY <1>5 DEF Connect
<1>6. CASE StillConnected
  BY <1>6 DEF StillConnected
<1>7. CASE ReceiveResult
  BY <1>7 DEF ReceiveResult
<1>8. CASE ReceiveSetValue
  BY <1>8 DEF ReceiveSetValue, SetNewValue, MayStartTimer
<1>9. CASE ReceiveDone
  BY <1>9 DEF ReceiveDone
<1>10. CASE ReceiveFails
  BY <1>10 DEF ReceiveFails, Disconnect, Drop, Fault
<1>11. CASE StartRegistration
  BY <1>11 DEF StartRegistration
<1>12. CASE FillClear
  BY <1>12 DEF FillClear
<1>13. CASE FillCopy
  <2>1. CASE Len(form) + 1 = N
    <3>0. PICK report : report = [register |-> TRUE, values |-> form']
      OBVIOUS
    <3>1. /\ report \in Report
          /\ report.register /\ DOMAIN report.values = Elements
          /\ Send(report)
      BY <1>13, <2>1, <3>0, FormComplete
    <3>2. \/ toServer' = <<>>
          \/ connection = "up" /\ toServer' = <<report>>
      <4>1. toServer = <<>>
        BY <1>13 DEF FillCopy
      <4>2. QED
        BY <3>1, <4>1, SendFirst
    <3>4. QED
      BY <1>13, <2>1, <3>1, <3>2 DEF FillCopy
  <2>2. CASE Len(form) + 1 # N
    BY <1>13, <2>2 DEF FillCopy
  <2>3. QED
    BY <2>1, <2>2
<1>14. CASE AwaitRegistration
  BY <1>14 DEF AwaitRegistration
<1>15. CASE RegistrationTimeout
  BY <1>15 DEF RegistrationTimeout, Disconnect, Drop, Fault
<1>16. CASE LeaveRejected
  BY <1>16 DEF LeaveRejected, Disconnect, Drop
<1>17. CASE PingOk
  BY <1>17 DEF PingOk, EnterElements
<1>18. CASE PingTimeout
  BY <1>18 DEF PingTimeout, Disconnect, Drop, EnterElements
<1>19. CASE IterateAlways
  BY <1>19 DEF IterateAlways
<1>20. CASE ReportTimer
  BY <1>20 DEF ReportTimer
<1>21. CASE SkipElement
  BY <1>21 DEF SkipElement
<1>22. CASE RoundEnds
  BY <1>22 DEF RoundEnds
<1>23. CASE UpdateClears
  BY <1>23 DEF UpdateClears
<1>24. CASE UpdateSends
  <2>1. CASE registered = 1 /\ connection = "up"
    <3> DEFINE report == ValueReport(iterateConnectedPtr)
    <3>1. report \in Report /\ ~report.register
      BY <1>24, MessageTypes DEF UpdateSends, ValueReport
    <3>2. toServer' = Append(toServer, report)
      BY <1>24, <2>1 DEF UpdateSends, Send
    <3> HIDE DEF report
    <3>3. /\ Len(toServer') = Len(toServer) + 1
          /\ \A i \in 1 .. Len(toServer) : toServer'[i] = toServer[i]
          /\ toServer'[Len(toServer) + 1] = report
      BY <3>1, <3>2, AppendElements
    <3>4. session /\ toServer' # <<>>
      BY <2>1, <3>3
    <3>5. \A i \in 1 .. Len(toServer') : ~toServer'[i].register
      BY <3>1, <3>3, <3>4
    <3>6. QED
      BY <1>24, <2>1, <3>4, <3>5 DEF UpdateSends
  <2>2. CASE registered # 1 \/ connection # "up"
    BY <1>24, <2>2 DEF UpdateSends, Send
  <2>3. QED
    BY <2>1, <2>2
<1>25. CASE ServerAccepts
  BY <1>25 DEF ServerAccepts, Reply, Learns
<1>26. CASE ServerRejects
  BY <1>26 DEF ServerRejects, Fault, Reply
<1>27. CASE ServerLearns
  BY <1>27 DEF ServerLearns, Learns
<1>28. CASE ConnectionDies
  BY <1>28 DEF ConnectionDies, Fault, Drop
<1>29. ASSUME NEW c \in Elements, ElementChanges(c) PROVE LinkInv'
  BY <1>29 DEF ElementChanges, SetNewValue, MayStartTimer
<1>30. ASSUME NEW c \in Elements, ServerCommands(c) PROVE LinkInv'
  BY <1>30 DEF ServerCommands, Reply
<1>31. CASE UNCHANGED vars
  BY <1>31 DEF vars, channelVars, loopVars, linkVars
<1>32. QED
  BY <1>1, <1>2, <1>3, <1>4, <1>5, <1>6, <1>7, <1>8, <1>9, <1>10, <1>11,
     <1>12, <1>13, <1>14, <1>15, <1>16, <1>17, <1>18, <1>19, <1>20, <1>21,
     <1>22, <1>23, <1>24, <1>25, <1>26, <1>27, <1>28, <1>29, <1>30, <1>31
     DEF Next, Timer, Link, Round, Server

(* What a message put on the queue, or taken off it, does to UpToDate.     *)

\* Nothing put on the queue, nothing taken off it.
LEMMA UpToDateFrame ==
    ASSUME NEW c \in Elements, UpToDate(c), toServer' = toServer,
           value'[c] = value[c], seen'[c] = seen[c]
    PROVE  UpToDate(c)'
BY DEF UpToDate, Tells

\* A report at the end of the queue.
LEMMA UpToDateAppend ==
    ASSUME NEW c \in Elements, toServer \in Seq(Report), NEW r \in Report,
           toServer' = Append(toServer, r), value'[c] = value[c],
           seen'[c] = seen[c],
           IF c \in DOMAIN r.values THEN r.values[c] = value[c]
                                    ELSE UpToDate(c)
    PROVE  UpToDate(c)'
<1>1. /\ Len(toServer') = Len(toServer) + 1
      /\ \A i \in 1 .. Len(toServer) : toServer'[i] = toServer[i]
      /\ toServer'[Len(toServer) + 1] = r
  BY AppendElements
<1>2. Len(toServer) \in Nat
  OBVIOUS
<1>3. CASE c \in DOMAIN r.values
  BY <1>1, <1>2, <1>3 DEF UpToDate, Tells
<1>4. CASE c \notin DOMAIN r.values
  BY <1>1, <1>2, <1>4 DEF UpToDate, Tells
<1>5. QED
  BY <1>3, <1>4

\* The elements of a queue without its first message.
LEMMA TailElements ==
    ASSUME NEW S, NEW q \in Seq(S), q # <<>>
    PROVE  /\ Len(q) \in Nat \ {0}
           /\ Head(q) = q[1]
           /\ Len(Tail(q)) = Len(q) - 1
           /\ \A i \in 1 .. Len(q) - 1 : Tail(q)[i] = q[i + 1]
OBVIOUS

\* The server reads the first message.
LEMMA UpToDateLearns ==
    ASSUME TypeOK, NEW c \in Elements, UpToDate(c), toServer # <<>>,
           toServer' = Tail(toServer), Learns, value'[c] = value[c]
    PROVE  UpToDate(c)'
<1>1. /\ Len(toServer) \in Nat \ {0}
      /\ Head(toServer) = toServer[1]
      /\ Len(toServer') = Len(toServer) - 1
      /\ \A i \in 1 .. Len(toServer) - 1 : toServer'[i] = toServer[i + 1]
  BY TailElements DEF TypeOK
<1>2. seen'[c] = IF Tells(1, c) THEN toServer[1].values[c] ELSE seen[c]
  BY <1>1 DEF Learns, Tells
<1>3. \A i \in 1 .. Len(toServer') : Tells(i, c)' <=> Tells(i + 1, c)
  BY <1>1 DEF Tells
<1>4. ASSUME NEW i \in 1 .. Len(toServer'), Tells(i, c)',
             \A j \in i + 1 .. Len(toServer') : ~Tells(j, c)'
      PROVE  toServer'[i].values[c] = value[c]
  <2>1. i + 1 \in 1 .. Len(toServer) /\ Tells(i + 1, c)
    BY <1>1, <1>3, <1>4
  <2>2. ASSUME NEW j \in i + 2 .. Len(toServer) PROVE ~Tells(j, c)
    <3>1. /\ j - 1 \in i + 1 .. Len(toServer')
          /\ j - 1 \in 1 .. Len(toServer')
          /\ (j - 1) + 1 = j
      BY <1>1
    <3>2. Tells(j - 1, c)' <=> Tells(j, c)
      BY <1>3, <3>1
    <3>3. ~Tells(j - 1, c)'
      BY <1>4, <3>1
    <3>4. QED
      BY <3>2, <3>3
  <2>3. toServer[i + 1].values[c] = value[c]
    BY <2>1, <2>2 DEF UpToDate
  <2>4. QED
    BY <1>1, <2>3
<1>5. ASSUME \A i \in 1 .. Len(toServer') : ~Tells(i, c)'
      PROVE  seen'[c] = value[c]
  <2>1. ASSUME NEW j \in 2 .. Len(toServer) PROVE ~Tells(j, c)
    <3>1. j - 1 \in 1 .. Len(toServer') /\ (j - 1) + 1 = j
      BY <1>1
    <3>2. QED
      BY <1>3, <1>5, <3>1
  <2>2. CASE Tells(1, c)
    BY <1>1, <1>2, <2>1, <2>2 DEF UpToDate
  <2>3. CASE ~Tells(1, c)
    <3>1. \A j \in 1 .. Len(toServer) : ~Tells(j, c)
      BY <1>1, <2>1, <2>3
    <3>2. QED
      BY <1>2, <2>3, <3>1 DEF UpToDate
  <2>4. QED
    BY <2>2, <2>3
<1>6. QED
  BY <1>4, <1>5 DEF UpToDate

\* Every step keeps what is told current, or leaves the change pending.
LEMMA ToldStep == TypeOK /\ LinkInv /\ ToldInv /\ [Next]_vars => ToldInv'
<1> SUFFICES ASSUME TypeOK, LinkInv, ToldInv, [Next]_vars PROVE ToldInv'
  OBVIOUS
<1> USE UpToDateFrame, DeliveryAssumption
        DEF Goto, channelVars, loopVars, linkVars
<1>1. CASE TimerFlags
  BY <1>1 DEF TimerFlags, ToldInv, Pending, Filling, TypeOK, LinkInv
<1>2. ASSUME NEW c \in Switched, TimerCopies(c) PROVE ToldInv'
  <2>1. c \in Elements /\ value \in [Elements -> Version]
    BY DEF TypeOK
  <2>2. ASSUME NEW d \in Elements, ~Pending(d)'
        PROVE  ~Pending(d) /\ value'[d] = value[d]
    BY <1>2, <2>1, <2>2 DEF TimerCopies, Pending, Nobody, Elements
  <2>3. /\ UNCHANGED <<toServer, session, seen, form, loopAt>>
        /\ UNCHANGED <<Filling, Len(form)>>
    BY <1>2 DEF TimerCopies, Filling
  <2>4. ASSUME session' \/ toServer' # <<>>, NEW d \in Elements, ~Pending(d)'
        PROVE  UpToDate(d)'
    BY <2>2, <2>3, <2>4 DEF ToldInv
  <2>5. ASSUME Filling', NEW d \in 1 .. Len(form'), ~Pending(d)'
        PROVE  form'[d] = value'[d]
    <3>1. d \in Elements
      BY <2>3, <2>5 DEF TypeOK, Filling, Elements
    <3>2. QED
      BY <2>2, <2>3, <2>5, <3>1 DEF ToldInv
  <2>6. QED
    BY <2>4, <2>5 DEF ToldInv
<1>3. CASE NetworkLost
  BY <1>3
     DEF NetworkLost, Disconnect, Drop, Fault, ToldInv, Pending, Filling,
         TypeOK, LinkInv
<1>4. CASE ConnectionLost
  BY <1>4
     DEF ConnectionLost, Disconnect, Drop, ToldInv, Pending, Filling, TypeOK,
         LinkInv
<1>5. CASE Connect
  BY <1>5 DEF Connect, ToldInv, Pending, Filling, TypeOK, LinkInv
<1>6. CASE StillConnected
  BY <1>6 DEF StillConnected, ToldInv, Pending, Filling, TypeOK, LinkInv
<1>7. CASE ReceiveResult
  BY <1>7 DEF ReceiveResult, ToldInv, Pending, Filling, TypeOK, LinkInv
<1>8. CASE ReceiveSetValue
  BY <1>8
     DEF ReceiveSetValue, SetNewValue, MayStartTimer, ToldInv, Pending,
         Filling, TypeOK, LinkInv
<1>9. CASE ReceiveDone
  BY <1>9 DEF ReceiveDone, ToldInv, Pending, Filling, TypeOK, LinkInv
<1>10. CASE ReceiveFails
  BY <1>10
     DEF ReceiveFails, Disconnect, Drop, Fault, ToldInv, Pending, Filling,
         TypeOK, LinkInv
<1>11. CASE StartRegistration
  BY <1>11 DEF StartRegistration, ToldInv, Pending, Filling, TypeOK, LinkInv
<1>12. CASE FillClear
  BY <1>12 DEF FillClear, ToldInv, Pending, Filling, TypeOK, LinkInv
<1>13. CASE FillCopy
  <2>1. CASE Len(form) + 1 = N
    <3>0. PICK report : report = [register |-> TRUE, values |-> form']
      OBVIOUS
    <3>1. /\ report \in Report /\ report.values = form'
          /\ DOMAIN report.values = Elements
          /\ Send(report)
      BY <1>13, <2>1, <3>0, FormComplete
    <3>2. toServer = <<>> /\ ~session /\ session' = session /\ ~Filling'
      BY <1>13, <2>1 DEF FillCopy, LinkInv, Filling
    <3>3. ASSUME NEW c \in Elements, ~Pending(c)'
          PROVE  form'[c] = value[c]
      <4>1. /\ form \in Seq(Version) /\ Len(form) \in Nat
            /\ form' = Append(form, value[Len(form) + 1])
            /\ value[Len(form) + 1] \in Version
        BY <1>13, <2>1, DeliveryAssumption DEF FillCopy, TypeOK, Elements
      <4>2. CASE c = Len(form) + 1
        BY <4>1, <4>2
      <4>3. CASE c # Len(form) + 1
        <5>1. c \in 1 .. Len(form) /\ form'[c] = form[c]
          BY <2>1, <4>1, <4>3 DEF Elements
        <5>2. ~Pending(c)
          BY <1>13, <2>1, <3>3 DEF FillCopy, Pending
        <5>3. QED
          BY <1>13, <5>1, <5>2 DEF FillCopy, ToldInv, Filling
      <4>4. QED
        BY <4>2, <4>3
    <3>4. CASE connection = "up"
      <4>1. toServer' = Append(toServer, report)
        BY <3>1, <3>4 DEF Send
      <4>2. ASSUME NEW c \in Elements, ~Pending(c)' PROVE UpToDate(c)'
        <5>1. value'[c] = value[c] /\ seen'[c] = seen[c]
          BY <1>13 DEF FillCopy
        <5>2. QED
          BY <3>1, <3>3, <4>1, <4>2, <5>1, UpToDateAppend DEF TypeOK
      <4>3. QED
        BY <3>2, <4>2 DEF ToldInv
    <3>5. CASE connection # "up"
      BY <3>1, <3>2, <3>5 DEF Send, ToldInv
    <3>6. QED
      BY <3>4, <3>5
  <2>2. CASE Len(form) + 1 # N
    <3>1. toServer' = toServer /\ ~(session' \/ toServer' # <<>>)
      BY <1>13, <2>2 DEF FillCopy, LinkInv, Filling
    <3>2. ASSUME NEW c \in 1 .. Len(form'), ~Pending(c)'
          PROVE  form'[c] = value'[c]
      BY <1>13, <2>2, <3>2 DEF FillCopy, Pending, ToldInv, Filling, TypeOK
    <3>3. QED
      BY <3>1, <3>2 DEF ToldInv
  <2>3. QED
    BY <2>1, <2>2
<1>14. CASE AwaitRegistration
  BY <1>14 DEF AwaitRegistration, ToldInv, Pending, Filling, TypeOK, LinkInv
<1>15. CASE RegistrationTimeout
  BY <1>15
     DEF RegistrationTimeout, Disconnect, Drop, Fault, ToldInv, Pending,
         Filling, TypeOK, LinkInv
<1>16. CASE LeaveRejected
  BY <1>16
     DEF LeaveRejected, Disconnect, Drop, ToldInv, Pending, Filling, TypeOK,
         LinkInv
<1>17. CASE PingOk
  BY <1>17
     DEF PingOk, EnterElements, ToldInv, Pending, Filling, TypeOK, LinkInv
<1>18. CASE PingTimeout
  BY <1>18
     DEF PingTimeout, Disconnect, Drop, EnterElements, ToldInv, Pending,
         Filling, TypeOK, LinkInv
<1>19. CASE IterateAlways
  BY <1>19 DEF IterateAlways, ToldInv, Pending, Filling, TypeOK, LinkInv
<1>20. CASE ReportTimer
  BY <1>20 DEF ReportTimer, ToldInv, Pending, Filling, TypeOK, LinkInv
<1>21. CASE SkipElement
  BY <1>21 DEF SkipElement, ToldInv, Pending, Filling, TypeOK, LinkInv
<1>22. CASE RoundEnds
  BY <1>22 DEF RoundEnds, ToldInv, Pending, Filling, TypeOK, LinkInv
<1>23. CASE UpdateClears
  BY <1>23 DEF UpdateClears, ToldInv, Pending, Filling, TypeOK, LinkInv
<1>24. CASE UpdateSends
  <2>1. iterateConnectedPtr \in Elements /\ ~Filling'
    BY <1>24 DEF UpdateSends, Filling, TypeOK
  <2>2. CASE registered = 1 /\ connection = "up"
    <3>1. PICK report : report = ValueReport(iterateConnectedPtr)
      OBVIOUS
    <3>2. /\ report \in Report
          /\ \A c : c \in DOMAIN report.values =>
                c = iterateConnectedPtr /\ report.values[c] = value[c]
          /\ iterateConnectedPtr \in DOMAIN report.values
      BY <2>1, <3>1, MessageTypes DEF ValueReport, TypeOK
    <3>3. toServer' = Append(toServer, report)
      BY <1>24, <2>2, <3>1 DEF UpdateSends, Send
    <3>4. ASSUME NEW c \in Elements, ~Pending(c)' PROVE UpToDate(c)'
      <4>1. value'[c] = value[c] /\ seen'[c] = seen[c]
        BY <1>24 DEF UpdateSends
      <4>2. c # iterateConnectedPtr => UpToDate(c)
        BY <1>24, <2>2, <3>4 DEF UpdateSends, Pending, ToldInv, LinkInv
      <4>3. QED
        BY <3>2, <3>3, <4>1, <4>2, UpToDateAppend DEF TypeOK
    <3>5. QED
      BY <2>1, <3>4 DEF ToldInv
  <2>3. CASE ~(registered = 1 /\ connection = "up")
    <3>1. toServer' = toServer /\ session' = session
      BY <1>24, <2>3 DEF UpdateSends, Send
    <3>2. toServer = <<>> /\ ~session
      BY <1>24, <2>3 DEF UpdateSends, LinkInv
    <3>3. QED
      BY <2>1, <3>1, <3>2 DEF ToldInv
  <2>4. QED
    BY <2>2, <2>3
<1>25. CASE ServerAccepts
  <2>1. ASSUME NEW c \in Elements, ~Pending(c)' PROVE UpToDate(c)'
    <3>1. UpToDate(c)
      BY <1>25, <2>1 DEF ServerAccepts, Pending, ToldInv
    <3>2. QED
      BY <1>25, <3>1, UpToDateLearns DEF ServerAccepts
  <2>2. ~Filling'
    BY <1>25 DEF ServerAccepts, LinkInv, Filling
  <2>3. QED
    BY <2>1, <2>2 DEF ToldInv
<1>26. CASE ServerRejects
  <2>1. Len(toServer) = 1 /\ ~session /\ Head(toServer) = toServer[1]
    <3>1. Len(toServer) \in Nat \ {0} /\ Head(toServer) = toServer[1]
      BY <1>26, TailElements DEF ServerRejects, TypeOK
    <3>2. QED
      BY <1>26, <3>1 DEF ServerRejects, LinkInv
  <2>2. toServer' = <<>> /\ ~session'
    BY <1>26, <2>1 DEF ServerRejects, TypeOK
  <2>3. ~Filling'
    BY <1>26 DEF ServerRejects, LinkInv, Filling
  <2>4. QED
    BY <2>2, <2>3 DEF ToldInv
<1>27. CASE ServerLearns
  <2>1. ASSUME NEW c \in Elements, ~Pending(c)' PROVE UpToDate(c)'
    <3>1. UpToDate(c)
      BY <1>27, <2>1 DEF ServerLearns, Pending, ToldInv
    <3>2. QED
      BY <1>27, <3>1, UpToDateLearns DEF ServerLearns
  <2>2. ~Filling'
    BY <1>27 DEF ServerLearns, LinkInv, Filling
  <2>3. QED
    BY <2>1, <2>2 DEF ToldInv
<1>28. CASE ConnectionDies
  BY <1>28
     DEF ConnectionDies, Fault, Drop, ToldInv, Pending, Filling, TypeOK,
         LinkInv
<1>29. ASSUME NEW c \in Elements, ElementChanges(c) PROVE ToldInv'
  BY <1>29
     DEF ElementChanges, SetNewValue, MayStartTimer, ToldInv, Pending,
         Filling, TypeOK, LinkInv
<1>30. ASSUME NEW c \in Elements, ServerCommands(c) PROVE ToldInv'
  BY <1>30
     DEF ServerCommands, Reply, ToldInv, Pending, Filling, TypeOK, LinkInv
<1>31. CASE UNCHANGED vars
  BY <1>31
     DEF vars, channelVars, loopVars, linkVars, ToldInv, Pending, Filling,
         TypeOK, LinkInv
<1>32. QED
  BY <1>1, <1>2, <1>3, <1>4, <1>5, <1>6, <1>7, <1>8, <1>9, <1>10, <1>11,
     <1>12, <1>13, <1>14, <1>15, <1>16, <1>17, <1>18, <1>19, <1>20, <1>21,
     <1>22, <1>23, <1>24, <1>25, <1>26, <1>27, <1>28, <1>29, <1>30, <1>31
     DEF Next, Timer, Link, Round, Server

(* The same for Ordered.                                                   *)

\* Values, and what is told of them, are integers.
LEMMA Versions ==
    ASSUME TypeOK, NEW c \in Elements
    PROVE  /\ value[c] \in Int /\ seen[c] \in Int
           /\ Len(toServer) \in Nat
           /\ \A i \in 1 .. Len(toServer) :
                 Tells(i, c) => toServer[i].values[c] \in Int
<1>1. toServer \in Seq(Report) /\ Version \subseteq Int
  BY DeliveryAssumption DEF TypeOK, Version
<1>2. \A i \in 1 .. Len(toServer) : toServer[i] \in Report
  BY <1>1
<1>3. \A i \in 1 .. Len(toServer) :
         Tells(i, c) => toServer[i].values[c] \in Version
  BY <1>2, MessageTypes DEF Tells
<1>4. value[c] \in Version /\ seen[c] \in Version /\ Len(toServer) \in Nat
  BY <1>1 DEF TypeOK
<1>5. QED
  BY <1>1, <1>3, <1>4

\* The queue is as it was, or dropped; the value as it was, or one newer.
LEMMA OrderedFrame ==
    ASSUME TypeOK, NEW c \in Elements, Ordered(c),
           toServer' = toServer \/ toServer' = <<>>,
           value'[c] = value[c] \/ value'[c] = value[c] + 1,
           seen'[c] = seen[c]
    PROVE  Ordered(c)'
<1>1. CASE toServer' = toServer
  BY <1>1, Versions DEF Ordered, Tells
<1>2. CASE toServer' = <<>>
  BY <1>2, Versions DEF Ordered
<1>3. QED
  BY <1>1, <1>2

\* A report at the end of the queue, no older than those before it.
LEMMA OrderedAppend ==
    ASSUME TypeOK, NEW c \in Elements, Ordered(c), NEW r \in Report,
           toServer' = Append(toServer, r), value'[c] = value[c],
           seen'[c] = seen[c],
           c \in DOMAIN r.values =>
               /\ seen[c] <= r.values[c] /\ r.values[c] <= value[c]
               /\ \A i \in 1 .. Len(toServer) :
                     Tells(i, c) => toServer[i].values[c] <= r.values[c]
    PROVE  Ordered(c)'
<1>0. PICK n \in Nat : n = Len(toServer)
  BY Versions
<1>1. /\ Len(toServer') = n + 1
      /\ \A i \in 1 .. n : toServer'[i] = toServer[i]
      /\ toServer'[n + 1] = r
  BY <1>0, AppendElements DEF TypeOK
<1>2. \A i \in 1 .. Len(toServer') :
         i \in 1 .. n \/ i = n + 1
  BY <1>1
<1>3. \A i \in 1 .. n : Tells(i, c)' <=> Tells(i, c)
  BY <1>1 DEF Tells
<1>4. Tells(n + 1, c)' <=> c \in DOMAIN r.values
  BY <1>1 DEF Tells
<1>5. ASSUME NEW i \in 1 .. Len(toServer'), Tells(i, c)'
      PROVE  /\ seen'[c] <= toServer'[i].values[c]
             /\ toServer'[i].values[c] <= value'[c]
  BY <1>1, <1>2, <1>3, <1>4, <1>5, <1>0 DEF Ordered
<1>6. ASSUME NEW i \in 1 .. Len(toServer'), Tells(i, c)',
             NEW j \in i + 1 .. Len(toServer'), Tells(j, c)'
      PROVE  toServer'[i].values[c] <= toServer'[j].values[c]
  <2>1. i \in 1 .. n /\ Tells(i, c)
    BY <1>1, <1>3, <1>6
  <2>2. CASE j = n + 1
    BY <1>1, <1>4, <1>6, <2>1, <2>2, <1>0
  <2>3. CASE j # n + 1
    <3>1. j \in i + 1 .. n /\ j \in 1 .. n
      BY <1>1, <2>3
    <3>2. Tells(j, c)
      BY <1>3, <1>6, <3>1
    <3>3. QED
      BY <1>1, <2>1, <3>1, <3>2, <1>0 DEF Ordered
  <2>4. QED
    BY <2>2, <2>3
<1>7. QED
  BY <1>5, <1>6 DEF Ordered

\* A channel changes.
LEMMA OrderChange ==
    ASSUME TypeOK, OrderInv, NEW c \in Elements,
           value' = [value EXCEPT ![c] = @ + 1],
           UNCHANGED <<toServer, seen, form, loopAt>>
    PROVE  OrderInv'
<1>1. \A d \in Elements : /\ value'[d] = value[d] \/ value'[d] = value[d] + 1
                          /\ value[d] \in Int /\ seen[d] \in Int
  BY Versions DEF TypeOK
<1>2. \A d \in Elements : Ordered(d)'
  BY <1>1, OrderedFrame DEF OrderInv
<1>3. ASSUME Filling, NEW d \in 1 .. Len(form)
      PROVE  seen[d] <= form[d] /\ form[d] <= value'[d]
  <2>1. d \in Elements /\ form[d] \in Int
    <3>1. form \in Seq(Version) /\ Len(form) \in Nat /\ Len(form) < N
      BY <1>3 DEF TypeOK, Filling
    <3>2. form[d] \in Version
      BY <1>3, <3>1
    <3>3. QED
      BY <3>1, <3>2, DeliveryAssumption DEF Elements, Version
  <2>2. QED
    BY <1>1, <1>3, <2>1 DEF OrderInv
<1>4. QED
  BY <1>2, <1>3 DEF OrderInv, Filling

\* The server reads the first message, which is newer than what it knows.
LEMMA OrderedLearns ==
    ASSUME TypeOK, NEW c \in Elements, Ordered(c), toServer # <<>>,
           toServer' = Tail(toServer), Learns, value'[c] = value[c]
    PROVE  Ordered(c)' /\ seen[c] <= seen'[c] /\ seen'[c] <= value[c]
<1>1. /\ Len(toServer) \in Nat \ {0}
      /\ Head(toServer) = toServer[1]
      /\ Len(toServer') = Len(toServer) - 1
      /\ \A i \in 1 .. Len(toServer) - 1 : toServer'[i] = toServer[i + 1]
  BY TailElements DEF TypeOK
<1>2. seen'[c] = IF Tells(1, c) THEN toServer[1].values[c] ELSE seen[c]
  BY <1>1 DEF Learns, Tells
<1>3. \A i \in 1 .. Len(toServer') : Tells(i, c)' <=> Tells(i + 1, c)
  BY <1>1 DEF Tells
<1>4. seen[c] <= seen'[c] /\ seen'[c] <= value[c]
  BY <1>1, <1>2, Versions DEF Ordered
<1>5. ASSUME NEW i \in 1 .. Len(toServer'), Tells(i, c)'
      PROVE  /\ seen'[c] <= toServer'[i].values[c]
             /\ toServer'[i].values[c] <= value'[c]
  <2>1. i + 1 \in 2 .. Len(toServer) /\ Tells(i + 1, c)
    BY <1>1, <1>3, <1>5
  <2>2. toServer'[i].values[c] = toServer[i + 1].values[c]
    BY <1>1
  <2>3. QED
    BY <1>1, <1>2, <2>1, <2>2 DEF Ordered
<1>6. ASSUME NEW i \in 1 .. Len(toServer'), Tells(i, c)',
             NEW j \in i + 1 .. Len(toServer'), Tells(j, c)'
      PROVE  toServer'[i].values[c] <= toServer'[j].values[c]
  <2>1. /\ i + 1 \in 1 .. Len(toServer)
        /\ j \in 1 .. Len(toServer')
        /\ j + 1 \in (i + 1) + 1 .. Len(toServer)
    BY <1>1
  <2>2. Tells(i + 1, c) /\ Tells(j + 1, c)
    BY <1>3, <1>6, <2>1
  <2>3. /\ toServer'[i] = toServer[i + 1]
        /\ toServer'[j] = toServer[j + 1]
    BY <1>1, <2>1
  <2>4. QED
    BY <2>1, <2>2, <2>3 DEF Ordered
<1>7. QED
  BY <1>4, <1>5, <1>6 DEF Ordered

\* Every step keeps the order of what is told.
LEMMA OrderStep == TypeOK /\ LinkInv /\ OrderInv /\ [Next]_vars => OrderInv'
<1> SUFFICES ASSUME TypeOK, LinkInv, OrderInv, [Next]_vars PROVE OrderInv'
  OBVIOUS
<1> USE OrderedFrame, DeliveryAssumption
        DEF Goto, channelVars, loopVars, linkVars
<1>1. CASE TimerFlags
  BY <1>1 DEF TimerFlags, OrderInv, Filling, LinkInv
<1>2. ASSUME NEW c \in Switched, TimerCopies(c) PROVE OrderInv'
  BY <1>2, OrderChange DEF TimerCopies
<1>3. CASE NetworkLost
  BY <1>3 DEF NetworkLost, Disconnect, Drop, Fault, OrderInv, Filling, LinkInv
<1>4. CASE ConnectionLost
  BY <1>4 DEF ConnectionLost, Disconnect, Drop, OrderInv, Filling, LinkInv
<1>5. CASE Connect
  BY <1>5 DEF Connect, OrderInv, Filling, LinkInv
<1>6. CASE StillConnected
  BY <1>6 DEF StillConnected, OrderInv, Filling, LinkInv
<1>7. CASE ReceiveResult
  BY <1>7 DEF ReceiveResult, OrderInv, Filling, LinkInv
<1>8. CASE ReceiveSetValue
  <2>1. Head(toDevice) \in Command
    BY <1>8 DEF ReceiveSetValue, TypeOK
  <2>2. PICK c \in Elements : c = Head(toDevice).channel
    BY <1>8, <2>1, MessageTypes DEF ReceiveSetValue
  <2>3. CASE value[c] < MaxVersion
    BY <1>8, <2>2, <2>3, OrderChange DEF ReceiveSetValue, SetNewValue
  <2>4. CASE ~(value[c] < MaxVersion)
    BY <1>8, <2>2, <2>4 DEF ReceiveSetValue, SetNewValue, OrderInv, Filling
  <2>5. QED
    BY <2>3, <2>4
<1>9. CASE ReceiveDone
  BY <1>9 DEF ReceiveDone, OrderInv, Filling, LinkInv
<1>10. CASE ReceiveFails
  BY <1>10
     DEF ReceiveFails, Disconnect, Drop, Fault, OrderInv, Filling, LinkInv
<1>11. CASE StartRegistration
  BY <1>11 DEF StartRegistration, OrderInv, Filling, LinkInv
<1>12. CASE FillClear
  BY <1>12 DEF FillClear, OrderInv, Filling, LinkInv
<1>13. CASE FillCopy
  <2>1. /\ form \in Seq(Version) /\ Len(form) + 1 \in Elements
        /\ form' = Append(form, value[Len(form) + 1])
        /\ value[Len(form) + 1] \in Version
        /\ UNCHANGED <<value, seen>>
    BY <1>13, DeliveryAssumption DEF FillCopy, TypeOK, Elements
  <2>2. ASSUME NEW c \in 1 .. Len(form')
        PROVE  seen'[c] <= form'[c] /\ form'[c] <= value'[c]
    <3>1. CASE c = Len(form) + 1
      BY <2>1, <3>1, Versions DEF OrderInv, Ordered
    <3>2. CASE c # Len(form) + 1
      <4>1. c \in 1 .. Len(form) /\ form'[c] = form[c]
        BY <2>1, <3>2
      <4>2. QED
        BY <1>13, <2>1, <4>1 DEF FillCopy, OrderInv, Filling
    <3>3. QED
      BY <3>1, <3>2
  <2>3. CASE connection = "up" /\ Len(form) + 1 = N
    <3>1. PICK report : report = [register |-> TRUE, values |-> form']
      OBVIOUS
    <3>2. /\ report \in Report /\ report.values = form'
          /\ DOMAIN form' = Elements
          /\ Send(report)
      BY <1>13, <2>3, <3>1, FormComplete
    <3>3. toServer' = Append(toServer, report) /\ toServer = <<>>
      BY <1>13, <2>3, <3>2 DEF FillCopy, Send, LinkInv, Filling
    <3>4. ASSUME NEW c \in Elements PROVE Ordered(c)'
      <4>1. seen[c] <= report.values[c] /\ report.values[c] <= value[c]
        BY <2>1, <2>2, <2>3, <3>2 DEF Elements
      <4>2. Ordered(c) /\ value'[c] = value[c] /\ seen'[c] = seen[c]
        BY <2>1 DEF OrderInv
      <4>3. QED
        BY <3>2, <3>3, <4>1, <4>2, OrderedAppend
    <3>5. QED
      BY <2>2, <3>4 DEF OrderInv
  <2>4. CASE ~(connection = "up" /\ Len(form) + 1 = N)
    <3>1. toServer' = toServer
      BY <1>13, <2>4 DEF FillCopy, Send
    <3>2. QED
      BY <2>1, <2>2, <3>1, OrderedFrame DEF OrderInv
  <2>5. QED
    BY <2>3, <2>4
<1>14. CASE AwaitRegistration
  BY <1>14 DEF AwaitRegistration, OrderInv, Filling, LinkInv
<1>15. CASE RegistrationTimeout
  BY <1>15
     DEF RegistrationTimeout, Disconnect, Drop, Fault, OrderInv, Filling,
         LinkInv
<1>16. CASE LeaveRejected
  BY <1>16 DEF LeaveRejected, Disconnect, Drop, OrderInv, Filling, LinkInv
<1>17. CASE PingOk
  BY <1>17 DEF PingOk, EnterElements, OrderInv, Filling, LinkInv
<1>18. CASE PingTimeout
  BY <1>18
     DEF PingTimeout, Disconnect, Drop, EnterElements, OrderInv, Filling,
         LinkInv
<1>19. CASE IterateAlways
  BY <1>19 DEF IterateAlways, OrderInv, Filling, LinkInv
<1>20. CASE ReportTimer
  BY <1>20 DEF ReportTimer, OrderInv, Filling, LinkInv
<1>21. CASE SkipElement
  BY <1>21 DEF SkipElement, OrderInv, Filling, LinkInv
<1>22. CASE RoundEnds
  BY <1>22 DEF RoundEnds, OrderInv, Filling, LinkInv
<1>23. CASE UpdateClears
  BY <1>23 DEF UpdateClears, OrderInv, Filling, LinkInv
<1>24. CASE UpdateSends
  <2>1. iterateConnectedPtr \in Elements /\ ~Filling' /\ UNCHANGED <<value, seen>>
    BY <1>24 DEF UpdateSends, Filling, TypeOK
  <2>2. CASE registered = 1 /\ connection = "up"
    <3>1. PICK report : report = ValueReport(iterateConnectedPtr)
      OBVIOUS
    <3>2. /\ report \in Report
          /\ \A c : c \in DOMAIN report.values => report.values[c] = value[c]
      BY <2>1, <3>1, MessageTypes DEF ValueReport, TypeOK
    <3>3. toServer' = Append(toServer, report)
      BY <1>24, <2>2, <3>1 DEF UpdateSends, Send
    <3>4. ASSUME NEW c \in Elements PROVE Ordered(c)'
      <4>1. Ordered(c) /\ value'[c] = value[c] /\ seen'[c] = seen[c]
        BY <2>1 DEF OrderInv
      <4>2. c \in DOMAIN report.values =>
               /\ seen[c] <= report.values[c] /\ report.values[c] <= value[c]
               /\ \A i \in 1 .. Len(toServer) :
                     Tells(i, c) => toServer[i].values[c] <= report.values[c]
        BY <3>2, <4>1, Versions DEF Ordered
      <4>3. QED
        BY <3>2, <3>3, <4>1, <4>2, OrderedAppend
    <3>5. QED
      BY <2>1, <3>4 DEF OrderInv
  <2>3. CASE ~(registered = 1 /\ connection = "up")
    <3>1. toServer' = toServer
      BY <1>24, <2>3 DEF UpdateSends, Send
    <3>2. QED
      BY <2>1, <3>1, OrderedFrame DEF OrderInv
  <2>4. QED
    BY <2>2, <2>3
<1>25. CASE ServerAccepts
  <2>1. ASSUME NEW c \in Elements PROVE Ordered(c)'
    BY <1>25, OrderedLearns DEF ServerAccepts, OrderInv
  <2>2. ~Filling'
    BY <1>25 DEF ServerAccepts, LinkInv, Filling
  <2>3. QED
    BY <2>1, <2>2 DEF OrderInv
<1>26. CASE ServerRejects
  <2>1. toServer' = <<>>
    <3>1. Len(toServer) \in Nat \ {0} /\ Head(toServer) = toServer[1]
      BY <1>26, TailElements DEF ServerRejects, TypeOK
    <3>2. Len(toServer) = 1
      BY <1>26, <3>1 DEF ServerRejects, LinkInv
    <3>3. QED
      BY <1>26, <3>2 DEF ServerRejects, TypeOK
  <2>2. ~Filling'
    BY <1>26 DEF ServerRejects, LinkInv, Filling
  <2>3. QED
    BY <1>26, <2>1, <2>2, OrderedFrame DEF ServerRejects, OrderInv
<1>27. CASE ServerLearns
  <2>1. ASSUME NEW c \in Elements PROVE Ordered(c)'
    BY <1>27, OrderedLearns DEF ServerLearns, OrderInv
  <2>2. ~Filling'
    BY <1>27 DEF ServerLearns, LinkInv, Filling
  <2>3. QED
    BY <2>1, <2>2 DEF OrderInv
<1>28. CASE ConnectionDies
  BY <1>28 DEF ConnectionDies, Fault, Drop, OrderInv, Filling, LinkInv
<1>29. ASSUME NEW c \in Elements, ElementChanges(c) PROVE OrderInv'
  BY <1>29, OrderChange DEF ElementChanges, SetNewValue
<1>30. ASSUME NEW c \in Elements, ServerCommands(c) PROVE OrderInv'
  BY <1>30 DEF ServerCommands, Reply, OrderInv, Filling, LinkInv
<1>31. CASE UNCHANGED vars
  BY <1>31
     DEF vars, channelVars, loopVars, linkVars, OrderInv, Filling, LinkInv
<1>32. QED
  BY <1>1, <1>2, <1>3, <1>4, <1>5, <1>6, <1>7, <1>8, <1>9, <1>10, <1>11,
     <1>12, <1>13, <1>14, <1>15, <1>16, <1>17, <1>18, <1>19, <1>20, <1>21,
     <1>22, <1>23, <1>24, <1>25, <1>26, <1>27, <1>28, <1>29, <1>30, <1>31
     DEF Next, Timer, Link, Round, Server

----------------------------------------------------------------------------
(* The theorems                                                            *)

IInv == TypeOK /\ LinkInv /\ ToldInv /\ OrderInv

\* The invariant holds at boot.
LEMMA InitIInv == Init => IInv
<1> SUFFICES ASSUME Init PROVE IInv
  OBVIOUS
<1> USE DeliveryAssumption DEF Init
<1>1. 0 \in Version /\ 1 \in Version
  BY DEF Version
<1>2. TypeOK
  <2>1. /\ value \in [Elements -> Version] /\ seen \in [Elements -> Version]
        /\ sendValue \in [Elements -> BOOLEAN]
    BY <1>1
  <2>2. /\ form \in Seq(Version)
        /\ toServer \in Seq(Report) /\ toDevice \in Seq(Command)
    BY QueueTypes
  <2>3. iterateConnectedPtr \in 1 .. N + 1 /\ faults \in 0 .. MaxFaults
    OBVIOUS
  <2>4. QED
    BY <2>1, <2>2, <2>3 DEF TypeOK, LoopAt
<1>3. LinkInv /\ ToldInv
  BY DEF LinkInv, ToldInv, Filling
<1>4. OrderInv
  BY DEF OrderInv, Ordered, Filling
<1>5. QED
  BY <1>2, <1>3, <1>4 DEF IInv

\* What the loop, the timer task, the server and the connection may rely on:
\* the fields of the link agree, what is told is current unless its flag is
\* still to be handled, and it is told in the order of the changes.
THEOREM Inductive == Spec => []IInv
<1>1. IInv /\ [Next]_vars => IInv'
  BY TypeStep, LinkStep, ToldStep, OrderStep DEF IInv
<1>2. QED
  BY <1>1, InitIInv, PTL DEF Spec

\* Every variable keeps its type, for any number of elements and versions.
THEOREM TypeCorrect == Spec => []TypeOK
<1>1. IInv => TypeOK
  BY DEF IInv
<1>2. QED
  BY <1>1, Inductive, PTL

\* sendUpdate and the registration clear the flag before they read the value,
\* so no change is forgotten, whenever the timer task makes it.
THEOREM NothingForgottenHolds == Spec => []NothingForgotten
<1>1. IInv => NothingForgotten
  <2> SUFFICES ASSUME IInv, registered = 1, connection = "up",
                      NEW c \in Elements, ~Pending(c), ~OnItsWay(c)
               PROVE  seen[c] = value[c]
    BY DEF NothingForgotten
  <2>1. UpToDate(c)
    BY DEF IInv, LinkInv, ToldInv
  <2>2. \A i \in 1 .. Len(toServer) : ~Tells(i, c)
    BY DEF OnItsWay, Tells, IInv, TypeOK
  <2>3. QED
    BY <2>1, <2>2 DEF UpToDate
<1>2. QED
  BY <1>1, Inductive, PTL

\* The device boots as a Mirror does.
LEMMA MirrorInit == Init => Promise!Init
BY DEF Init, Promise!Init

\* Each step is a change of one channel, a step in which the server learns of
\* newer values, or leaves both sides alone.
LEMMA MirrorStep == IInv /\ [Next]_vars => [Promise!Next]_(Promise!mirrorVars)
<1> SUFFICES ASSUME IInv, [Next]_vars
             PROVE  Promise!Next \/ UNCHANGED <<value, seen>>
  BY DEF Promise!mirrorVars
<1> USE DEF IInv
<1>1. ASSUME NEW c \in Elements, value[c] < MaxVersion,
             value' = [value EXCEPT ![c] = @ + 1], UNCHANGED seen
      PROVE  Promise!Next
  <2>1. value[c] + 1 \in Version
    BY <1>1, DeliveryAssumption DEF TypeOK, Version
  <2>2. QED
    BY <1>1, <2>1 DEF Promise!Next, Promise!Change
<1>2. ASSUME toServer # <<>>, toServer' = Tail(toServer), Learns,
             UNCHANGED value
      PROVE  Promise!Next
  <2>1. \A c \in Elements : seen[c] <= seen'[c] /\ seen'[c] <= value[c]
    BY <1>2, OrderedLearns DEF OrderInv
  <2>2. seen' \in [Elements -> Version]
    BY <1>2, TypeStep DEF TypeOK
  <2>3. QED
    BY <1>2, <2>1, <2>2 DEF Promise!Next, Promise!Learn
<1>3. CASE Timer
  BY <1>1, <1>3, DeliveryAssumption DEF Timer, TimerFlags, TimerCopies
<1>4. CASE Link
  <2>1. CASE ReceiveSetValue
    <3>1. Head(toDevice) \in Command
      BY <2>1 DEF ReceiveSetValue, TypeOK
    <3>2. Head(toDevice).channel \in Elements
      BY <2>1, <3>1, MessageTypes DEF ReceiveSetValue
    <3>3. QED
      BY <1>1, <2>1, <3>2 DEF ReceiveSetValue, SetNewValue
  <2>2. CASE ~ReceiveSetValue
    BY <1>4, <2>2
       DEF Link, channelVars, NetworkLost, ConnectionLost, Connect,
           StillConnected, ReceiveResult, ReceiveDone, ReceiveFails,
           StartRegistration, FillClear, FillCopy, AwaitRegistration,
           RegistrationTimeout, LeaveRejected, PingOk, PingTimeout
  <2>3. QED
    BY <2>1, <2>2
<1>5. CASE Round
  <2>1. ASSUME NEW c \in Elements, ElementChanges(c) PROVE Promise!Next
    BY <1>1, <2>1 DEF ElementChanges, SetNewValue
  <2>2. QED
    BY <1>5, <2>1
       DEF Round, channelVars, IterateAlways, ReportTimer, SkipElement,
           RoundEnds, UpdateClears, UpdateSends
<1>6. CASE Server
  BY <1>2, <1>6
     DEF Server, channelVars, ServerAccepts, ServerRejects, ServerLearns,
         ServerCommands
<1>7. CASE ConnectionDies
  BY <1>7 DEF ConnectionDies, channelVars
<1>8. CASE UNCHANGED vars
  BY <1>8 DEF vars, channelVars
<1>9. QED
  BY <1>3, <1>4, <1>5, <1>6, <1>7, <1>8 DEF Next

\* The delivery implements the safety of Mirror: the server is never set back
\* to an older value and is never shown one the channel did not have, for
\* any number of elements, faults and messages in flight.
THEOREM FollowsSafely == Spec => Promise!Safety
<1>1. QED
  BY Inductive, MirrorInit, MirrorStep, PTL DEF Spec, Promise!Safety

----------------------------------------------------------------------------
(* The sessions under the delivery                                         *)

\* A registration is answered once, while the device waits for the answer;
\* a refusal ends the talk.
AnswerInv ==
    /\ registered = 2 => toServer = <<>> /\ toDevice = <<>> /\ ~session
    /\ \A i \in 1 .. Len(toDevice) :
          toDevice[i].type # "setValue" => i = 1 /\ registered = -1
    /\ \A i \in 1 .. Len(toDevice) :
          toDevice[i].type = "rejected" =>
              toServer = <<>> /\ ~session /\ Len(toDevice) = 1

\* What a reply does to the queue of replies.
LEMMA ReplyElements ==
    ASSUME toDevice \in Seq(Command), NEW m \in Command,
           toDevice' = Append(toDevice, m)
    PROVE  /\ Len(toDevice') = Len(toDevice) + 1
           /\ \A i \in 1 .. Len(toDevice) : toDevice'[i] = toDevice[i]
           /\ toDevice'[Len(toDevice) + 1] = m
           /\ Len(toDevice) \in Nat
           /\ toDevice = <<>> => Len(toDevice) = 0
BY AppendElements

\* Reading one message leaves the others.
LEMMA ReadElements ==
    ASSUME TypeOK, toDevice # <<>>, toDevice' = Tail(toDevice)
    PROVE  /\ Len(toDevice') = Len(toDevice) - 1
           /\ Len(toDevice) \in Nat \ {0}
           /\ Head(toDevice) = toDevice[1]
           /\ \A i \in 1 .. Len(toDevice') : toDevice'[i] = toDevice[i + 1]
           /\ Len(toDevice) = 1 => toDevice' = <<>>
<1>1. toDevice \in Seq(Command)
  BY DEF TypeOK
<1>2. toDevice' \in Seq(Command)
  BY <1>1
<1>3. QED
  BY <1>1, <1>2, TailElements

\* The result of a registration is the first message, and the device is
\* waiting for it.
LEMMA ResultRead ==
    ASSUME TypeOK, AnswerInv, LinkInv, ReceiveResult
    PROVE  /\ registered = -1 /\ connection = "up"
           /\ \/ /\ registered' = 1 /\ session
                 /\ \A i \in 1 .. Len(toDevice') :
                       toDevice'[i].type = "setValue"
              \/ /\ registered' = 2 /\ ~session
                 /\ toServer = <<>> /\ toDevice' = <<>>
<1>1. /\ toDevice # <<>> /\ toDevice' = Tail(toDevice)
      /\ Head(toDevice).type # "setValue"
      /\ IF Head(toDevice).type = "registered"
         THEN registered' = 1 ELSE registered' = 2
  BY DEF ReceiveResult
<1>2. /\ Len(toDevice) \in Nat \ {0} /\ Head(toDevice) = toDevice[1]
      /\ Len(toDevice') = Len(toDevice) - 1
      /\ \A i \in 1 .. Len(toDevice') : toDevice'[i] = toDevice[i + 1]
      /\ Len(toDevice) = 1 => toDevice' = <<>>
  BY <1>1, ReadElements
<1>3. toDevice[1].type \in {"registered", "rejected", "setValue"}
  BY <1>2 DEF TypeOK, Command
<1>4. registered = -1 /\ connection = "up"
  BY <1>1, <1>2 DEF AnswerInv, LinkInv
<1>5. \A i \in 1 .. Len(toDevice') : toDevice'[i].type = "setValue"
  BY <1>2 DEF AnswerInv
<1>6. QED
  BY <1>1, <1>2, <1>3, <1>4, <1>5 DEF AnswerInv, LinkInv

\* Every step keeps the answers apart.
LEMMA AnswerStep ==
    ASSUME TypeOK, LinkInv, AnswerInv, [Next]_vars
    PROVE  AnswerInv'
<1> USE DEF channelVars, loopVars, linkVars
<1>0. toDevice \in Seq(Command) /\ toServer \in Seq(Report)
  BY DEF TypeOK
<1>1. ASSUME Disconnect PROVE AnswerInv'
  BY <1>1, QueueTypes DEF Disconnect, Drop, AnswerInv
<1>2. ASSUME UNCHANGED <<registered, toServer, toDevice, session>>
      PROVE  AnswerInv'
  BY <1>2 DEF AnswerInv
<1>3. CASE ReceiveResult
  <2>1. UNCHANGED <<toServer, session>>
    BY <1>3 DEF ReceiveResult
  <2>2. QED
    BY <1>3, <2>1, ResultRead, QueueTypes DEF AnswerInv
<1>4. CASE ReceiveSetValue
  <2>1. toDevice # <<>> /\ toDevice' = Tail(toDevice)
        /\ Head(toDevice).type = "setValue"
        /\ UNCHANGED <<registered, toServer, session>>
    BY <1>4 DEF ReceiveSetValue
  <2>2. /\ Len(toDevice) \in Nat \ {0} /\ Head(toDevice) = toDevice[1]
        /\ Len(toDevice') = Len(toDevice) - 1
        /\ \A i \in 1 .. Len(toDevice') : toDevice'[i] = toDevice[i + 1]
    BY <2>1, ReadElements
  <2>3. \A i \in 1 .. Len(toDevice') :
            toDevice'[i].type = "setValue" /\ registered # 2
    BY <2>1, <2>2 DEF AnswerInv
  <2>4. registered # 2
    BY <2>1 DEF AnswerInv
  <2>5. QED
    BY <2>1, <2>3, <2>4 DEF AnswerInv
<1>5. CASE StartRegistration
  <2>1. toDevice' = <<>> /\ registered' = -1
    BY <1>5 DEF StartRegistration, LinkInv
  <2>2. QED
    BY <2>1, QueueTypes DEF AnswerInv
<1>6. CASE FillCopy
  <2>1. toDevice' = <<>> /\ registered' = -1
    BY <1>6 DEF FillCopy, LinkInv, Filling
  <2>2. QED
    BY <2>1, QueueTypes DEF AnswerInv
<1>7. CASE UpdateSends
  <2>1. UNCHANGED <<registered, toDevice, session>>
    BY <1>7 DEF UpdateSends
  <2>2. CASE registered = 1
    <3>1. \A i \in 1 .. Len(toDevice) : toDevice[i].type = "setValue"
      BY <2>2 DEF AnswerInv
    <3>2. QED
      BY <2>1, <2>2, <3>1 DEF AnswerInv
  <2>3. CASE registered # 1
    BY <1>7, <1>2, <2>1, <2>3 DEF UpdateSends
  <2>4. QED
    BY <2>2, <2>3
<1>8. CASE ServerAccepts \/ ServerRejects
  <2>1. /\ toServer # <<>> /\ toServer' = Tail(toServer)
        /\ Head(toServer).register /\ UNCHANGED registered
        /\ \/ session' = TRUE /\ Reply("registered", Nobody) = toDevice'
           \/ UNCHANGED session /\ Reply("rejected", Nobody) = toDevice'
    BY <1>8, Zenon DEF ServerAccepts, ServerRejects
  <2>2. /\ Len(toServer) = 1 /\ toDevice = <<>>
        /\ registered = -1 /\ ~session
    <3>1. Head(toServer) = toServer[1] /\ Len(toServer) \in Nat \ {0}
      BY <1>0, <2>1, TailElements
    <3>2. QED
      BY <2>1, <3>1 DEF LinkInv
  <2>3. toServer' = <<>>
    BY <1>0, <2>1, <2>2
  <2>4. PICK m \in Command :
            /\ toDevice' = Append(toDevice, m)
            /\ \/ m.type = "registered"
               \/ m.type = "rejected" /\ ~session'
    <3>1. /\ [type |-> "registered", channel |-> Nobody] \in Command
          /\ [type |-> "rejected", channel |-> Nobody] \in Command
      BY MessageTypes
    <3>2. \E m \in Command :
              /\ toDevice' = Append(toDevice, m)
              /\ m.type = "registered" \/ (m.type = "rejected" /\ ~session')
      BY <2>1, <2>2, <3>1 DEF Reply
    <3>3. QED
      BY <3>2
  <2>5. /\ Len(toDevice') = 1 /\ toDevice'[1] = m
    BY <1>0, <2>2, <2>4, ReplyElements
  <2>6. QED
    BY <2>1, <2>2, <2>3, <2>4, <2>5 DEF AnswerInv
<1>9. CASE ServerLearns
  BY <1>9 DEF ServerLearns, AnswerInv
<1>10. ASSUME NEW c \in Elements, ServerCommands(c) PROVE AnswerInv'
  <2>1. /\ session /\ UNCHANGED <<registered, toServer, session>>
        /\ toDevice' = Append(toDevice, [type |-> "setValue", channel |-> c])
    BY <1>10 DEF ServerCommands, Reply
  <2>2. PICK m \in Command : /\ toDevice' = Append(toDevice, m)
                             /\ m.type = "setValue"
    BY <2>1, MessageTypes
  <2>3. /\ Len(toDevice') = Len(toDevice) + 1
        /\ \A i \in 1 .. Len(toDevice) : toDevice'[i] = toDevice[i]
        /\ toDevice'[Len(toDevice) + 1] = m
        /\ Len(toDevice) \in Nat
    BY <1>0, <2>2, ReplyElements
  <2>4. registered # 2
    BY <2>1 DEF AnswerInv
  <2>5. \A i \in 1 .. Len(toDevice) : toDevice[i].type # "rejected"
    BY <2>1 DEF AnswerInv
  <2>6. QED
    BY <2>1, <2>2, <2>3, <2>4, <2>5 DEF AnswerInv
<1>11. CASE ConnectionDies
  BY <1>11, QueueTypes DEF ConnectionDies, Drop, AnswerInv
<1>12. CASE Timer
  BY <1>2, <1>12 DEF Timer, TimerFlags, TimerCopies
<1>13. CASE Link
  BY <1>1, <1>2, <1>3, <1>4, <1>5, <1>6, <1>13
     DEF Link, NetworkLost, ConnectionLost, StillConnected, Connect,
         ReceiveDone, ReceiveFails, FillClear, AwaitRegistration,
         RegistrationTimeout, LeaveRejected, PingOk, PingTimeout
<1>14. CASE Round
  BY <1>2, <1>7, <1>14
     DEF Round, ElementChanges, IterateAlways, ReportTimer, SkipElement,
         RoundEnds, UpdateClears
<1>15. CASE UNCHANGED vars
  BY <1>2, <1>15 DEF vars
<1>16. QED
  BY <1>8, <1>9, <1>10, <1>11, <1>12, <1>13, <1>14, <1>15 DEF Next, Server

\* Every step is a step of Session or leaves its variables alone.
LEMMA SessionStep ==
    ASSUME TypeOK, LinkInv, AnswerInv, [Next]_vars
    PROVE  [Sessions!Next]_Sessions!sessionVars
<1> USE DEF channelVars, loopVars, linkVars, Sessions!Next,
            Sessions!sessionVars
<1> DEFINE Goal == [Sessions!Next]_Sessions!sessionVars
<1>0. registered \in {-1, 0, 1, 2} /\ connection \in {"none", "up", "dead"}
  BY DEF TypeOK
<1>1. ASSUME Disconnect PROVE Goal
  BY <1>0, <1>1 DEF Disconnect, Drop, Sessions!End
<1>2. ASSUME UNCHANGED <<registered, connection, session>> PROVE Goal
  BY <1>2
<1>3. CASE ReceiveResult
  <2>1. UNCHANGED <<connection, session>>
    BY <1>3 DEF ReceiveResult
  <2>2. QED
    BY <1>3, <2>1, ResultRead DEF Sessions!Learn, Sessions!End
<1>4. CASE Connect
  BY <1>4 DEF Connect, LinkInv
<1>5. CASE StartRegistration
  BY <1>5 DEF StartRegistration, LinkInv, Sessions!Ask
<1>6. CASE ServerAccepts
  <2>1. /\ toServer # <<>> /\ Head(toServer).register /\ session' = TRUE
        /\ UNCHANGED <<registered, connection>>
    BY <1>6 DEF ServerAccepts
  <2>2. Head(toServer) = toServer[1] /\ Len(toServer) \in Nat \ {0}
    BY <2>1, TailElements DEF TypeOK
  <2>3. registered = -1 /\ ~session /\ connection = "up"
    BY <2>1, <2>2 DEF LinkInv
  <2>4. QED
    BY <2>1, <2>3 DEF Sessions!Grant
<1>7. CASE ConnectionDies
  BY <1>0, <1>7 DEF ConnectionDies, Drop, Sessions!Vanish
<1>8. CASE Timer
  BY <1>2, <1>8 DEF Timer, TimerFlags, TimerCopies
<1>9. CASE Link
  BY <1>1, <1>2, <1>3, <1>4, <1>5, <1>9
     DEF Link, NetworkLost, ConnectionLost, StillConnected, ReceiveSetValue,
         ReceiveDone, ReceiveFails, FillClear, FillCopy, AwaitRegistration,
         RegistrationTimeout, LeaveRejected, PingOk, PingTimeout
<1>10. CASE Round
  BY <1>2, <1>10
     DEF Round, ElementChanges, IterateAlways, ReportTimer, SkipElement,
         RoundEnds, UpdateClears, UpdateSends
<1>11. CASE Server
  BY <1>2, <1>6, <1>11
     DEF Server, ServerRejects, ServerLearns, ServerCommands
<1>12. CASE UNCHANGED vars
  BY <1>2, <1>12 DEF vars
<1>13. QED
  BY <1>7, <1>8, <1>9, <1>10, <1>11, <1>12 DEF Next

\* The link under the delivery implements Session, for any number of elements,
\* messages and faults: what channel_delivery checks of RunsSessions, its
\* fairness excepted.
THEOREM RunsSessionsSafely == Spec => Sessions!Safety
<1>1. Init => AnswerInv /\ Sessions!Init
  BY QueueTypes DEF Init, AnswerInv, Sessions!Init
<1>2. IInv /\ AnswerInv /\ [Next]_vars => AnswerInv'
  BY AnswerStep DEF IInv
<1>3. IInv /\ AnswerInv /\ [Next]_vars =>
          [Sessions!Next]_Sessions!sessionVars
  BY SessionStep DEF IInv
<1>4. QED
  BY <1>1, <1>2, <1>3, Inductive, PTL DEF Spec, Sessions!Safety
=============================================================================
