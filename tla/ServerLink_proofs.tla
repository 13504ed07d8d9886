-------------------------- MODULE ServerLink_proofs --------------------------
(***************************************************************************)
(* The safety of the link, for every timeout that fits its byte, every     *)
(* delay of the server and any number of faults.                           *)
(***************************************************************************)
EXTENDS ServerLink, TLAPS

(* The inductive invariant                                                 *)

\* A connection that is used has nothing to wait for, and without one nothing
\* is on its way.
Steady ==
    /\ connected \/ registered = 1 =>
           network /\ waitForIterate = 0 /\ ~requestNetworkRestart
    /\ ~connected => inbox = {} /\ owed = None

\* A ping is something said; the loop leaves nothing unsaid for too long.
Said ==
    /\ sincePing < PingGap => sinceSent <= sincePing
    /\ registered = 1 /\ connected /\ iterated =>
           sinceSent < activityTimeoutS - Lead \/ sincePing < PingGap
    /\ HeardInTime

\* How long the silence can be, before and after the loop has iterated.
Noticed ==
    /\ SilenceNoticed
    /\ registered = 1 /\ iterated => sinceResponse < activityTimeoutS + Grace
    /\ registered = -1 /\ connected /\ iterated =>
           sinceRegister <= RegistrationTimeout

\* The server and the device have nothing to tell each other.
Idle == registered = 1 /\ connected /\ ~silent /\ inbox = {}

\* While a server that is not silent owes nothing, the last ping is answered
\* and the next is due in time; while it owes an answer, the silence began
\* before the debt, and not long before.
Responsive ==
    /\ Idle /\ owed = None /\ sincePing < PingGap => sinceResponse <= sincePing
    /\ Idle /\ owed = None /\ iterated =>
           sinceResponse < activityTimeoutS - Lead \/ sincePing < PingGap
    /\ Idle /\ owed = None => sinceResponse < activityTimeoutS
    /\ Idle /\ owed # None => sinceResponse < activityTimeoutS + owed

\* After a failure the next attempt is not a first one, and after two it is
\* LongRetry away from the last.
Spaced ==
    /\ failsInRow > 0 => ~firstConnectionAttempt
    /\ failsInRow = 2 => sinceFail + waitForIterate >= LongRetry

\* Every timeout asked for fits the byte it is kept in.
FitsByte == \A asks \in Requested \cup {DefaultTimeout} : asks < 256

----------------------------------------------------------------------------
(* Types                                                                   *)

\* What the assumption says of a timeout.
LEMMA TimeoutTypes ==
    /\ \A asks \in Requested \cup {DefaultTimeout} :
           ActivityTimeout(asks) \in Timeout
    /\ \A t \in Timeout : t \in 0 .. 255 /\ t + Grace < Oldest
    /\ Oldest \in Nat /\ ServerDelay \in Nat /\ MaxFaults \in Nat
    /\ ServerDelay < Grace
<1>1. \A asks \in Requested \cup {DefaultTimeout} :
          ActivityTimeout(asks) \in Timeout /\ ActivityTimeout(asks) \in 0 .. 255
  BY LinkAssumption DEF Timeout, ActivityTimeout, MinTimeout
<1>2. QED
  BY <1>1, LinkAssumption DEF Timeout

\* A timeout that fits the byte is not below the minimum.
LEMMA TimeoutMinimum == FitsByte => \A t \in Timeout : t >= MinTimeout
<1> SUFFICES ASSUME FitsByte, NEW asks \in Requested \cup {DefaultTimeout}
             PROVE  ActivityTimeout(asks) >= MinTimeout
  BY DEF Timeout
<1>1. asks \in 0 .. 255
  BY LinkAssumption DEF FitsByte
<1>2. QED
  BY <1>1 DEF ActivityTimeout, MinTimeout

\* The ages of a debt.
LEMMA OwedTypes == None \in None .. ServerDelay /\ 0 \in None .. ServerDelay
BY TimeoutTypes DEF None

\* A fault is counted.
LEMMA FaultTypes == ASSUME TypeOK, Fault PROVE faults' \in 0 .. MaxFaults
<1>1. faults \in 0 .. MaxFaults /\ MaxFaults \in Nat
  BY TimeoutTypes DEF TypeOK
<1>2. QED
  BY <1>1 DEF Fault

\* The types of what a lost connection leaves.
LEMMA HangupTypes ==
    ASSUME Hangup
    PROVE  /\ connected' \in BOOLEAN /\ silent' \in BOOLEAN
           /\ asked' \in BOOLEAN
           /\ inbox' \subseteq Message
           /\ owed' \in None .. ServerDelay
<1>1. connected' \in BOOLEAN /\ silent' \in BOOLEAN /\ asked' \in BOOLEAN
  BY Zenon DEF Hangup
<1>2. inbox' \subseteq Message
  BY DEF Hangup
<1>3. owed' \in None .. ServerDelay
  BY OwedTypes DEF Hangup
<1>4. QED
  BY <1>1, <1>2, <1>3

\* The time since the last response is reset or kept.
LEMMA ResponseTypes == ASSUME TypeOK PROVE Response \in Age
BY TimeoutTypes DEF TypeOK, Response, Age

\* Every step keeps the types.
LEMMA TypesKept ==
    ASSUME TypeOK, [Next]_vars
    PROVE  TypeOK'
<1>1. CASE IterateWaits
  BY <1>1, TimeoutTypes, OwedTypes, FaultTypes, HangupTypes, ResponseTypes
     DEF IterateWaits, Iterates, timers, client, server, history, TypeOK, Age,
         Grace, RestartAfter, PingGap, LongRetry, ShortRetry
<1>2. CASE NoticeLoss
  BY <1>2, TimeoutTypes, OwedTypes, FaultTypes, HangupTypes, ResponseTypes
     DEF NoticeLoss, Ready, Iterates, server, TypeOK, Age, Grace,
         RestartAfter, PingGap, LongRetry, ShortRetry
<1>3. CASE ConnectFails
  <2>1. requestNetworkRestart' \in BOOLEAN
    BY <1>3, Zenon DEF ConnectFails
  <2>2. firstConnectionAttempt' \in BOOLEAN /\ iterated' \in BOOLEAN
    BY <1>3, Zenon DEF ConnectFails, Attempt, Iterates
  <2>3. connectionFailCounter' \in 0 .. RestartAfter - 1
    BY <1>3 DEF ConnectFails, TypeOK, RestartAfter
  <2>4. QED
    BY <1>3, <2>1, <2>2, <2>3, TimeoutTypes, OwedTypes, FaultTypes,
       HangupTypes, ResponseTypes
    DEF ConnectFails, server, TypeOK, Age, Grace, PingGap, LongRetry, ShortRetry
<1>4. CASE ConnectAndRegister
  BY <1>4, TimeoutTypes, OwedTypes, FaultTypes, HangupTypes, ResponseTypes
     DEF ConnectAndRegister, Attempt, Ready, Iterates, TypeOK, Age, Grace,
         RestartAfter, PingGap, LongRetry, ShortRetry
<1>5. CASE StillRegistering
  BY <1>5, TimeoutTypes, OwedTypes, FaultTypes, HangupTypes, ResponseTypes
     DEF StillRegistering, Online, Ready, Iterates, Registered, client,
         history, TypeOK, Age, Grace, RestartAfter, PingGap, LongRetry,
         ShortRetry
<1>6. CASE RegistrationTimesOut
  BY <1>6, TimeoutTypes, OwedTypes, FaultTypes, HangupTypes, ResponseTypes
     DEF RegistrationTimesOut, Online, Ready, Iterates, Registered,
         EndConnection, Disconnect, TypeOK, Age, Grace, RestartAfter, PingGap,
         LongRetry, ShortRetry
<1>7. CASE Rejected
  BY <1>7, TimeoutTypes, OwedTypes, FaultTypes, HangupTypes, ResponseTypes
     DEF Rejected, Online, Ready, Iterates, Registered, EndConnection,
         Disconnect, TypeOK, Age, Grace, RestartAfter, PingGap, LongRetry,
         ShortRetry
<1>8. CASE StayRegistered
  BY <1>8, TimeoutTypes, OwedTypes, FaultTypes, HangupTypes, ResponseTypes
     DEF StayRegistered, Online, Ready, Iterates, Registered, Response,
         ReadTimeout, GiveUpDue, PingDue, Reached, history, TypeOK, Age,
         Grace, RestartAfter, PingGap, LongRetry, ShortRetry
<1>9. CASE PingTimesOut
  BY <1>9, TimeoutTypes, OwedTypes, FaultTypes, HangupTypes, ResponseTypes
     DEF PingTimesOut, Online, Ready, Iterates, Registered, ReadTimeout,
         EndConnection, Disconnect, TypeOK, Age, Grace, RestartAfter, PingGap,
         LongRetry, ShortRetry
<1>10. CASE IterateFails
  BY <1>10, TimeoutTypes, OwedTypes, FaultTypes, HangupTypes, ResponseTypes
     DEF IterateFails, Online, Ready, Iterates, EndConnection, Disconnect,
         TypeOK, Age, Grace, RestartAfter, PingGap, LongRetry, ShortRetry
<1>11. CASE VersionErrorFails
  BY <1>11, TimeoutTypes, OwedTypes, FaultTypes, HangupTypes, ResponseTypes
     DEF VersionErrorFails, Ready, Iterates, EndConnection, Disconnect,
         TypeOK, Age, Grace, RestartAfter, PingGap, LongRetry, ShortRetry
<1>12. CASE VersionErrorGoesOn
  BY <1>12, TimeoutTypes, OwedTypes, FaultTypes, HangupTypes, ResponseTypes
     DEF VersionErrorGoesOn, Ready, Iterates, TypeOK, Age, Grace,
         RestartAfter, PingGap, LongRetry, ShortRetry
<1>13. CASE VersionErrorResets
  <2>1. /\ network' \in BOOLEAN /\ iterated' \in BOOLEAN
        /\ firstConnectionAttempt' \in BOOLEAN
    BY <1>13, Zenon DEF VersionErrorResets, Iterates, Boot
  <2>2. requestNetworkRestart' \in BOOLEAN
    BY <1>13, Zenon DEF VersionErrorResets, Iterates, Boot
  <2>3. QED
    BY <1>13, <2>1, <2>2, TimeoutTypes, OwedTypes, FaultTypes, HangupTypes,
       ResponseTypes
    DEF VersionErrorResets, Ready, Iterates, Boot, TypeOK, Age, RestartAfter,
        PingGap, LongRetry
<1>14. CASE RestartNetwork
  <2>1. /\ network' \in BOOLEAN /\ iterated' \in BOOLEAN
        /\ firstConnectionAttempt' \in BOOLEAN
    BY <1>14, Zenon DEF RestartNetwork, Iterates, Disconnect
  <2>2. requestNetworkRestart' \in BOOLEAN
    BY <1>14, Zenon DEF RestartNetwork, Iterates, Disconnect
  <2>3. QED
    BY <1>14, <2>1, <2>2, TimeoutTypes, OwedTypes, FaultTypes, HangupTypes,
       ResponseTypes
    DEF RestartNetwork, Iterates, Disconnect, TypeOK, Age, RestartAfter,
        PingGap, LongRetry
<1>15. CASE Restart
  <2>1. /\ network' \in BOOLEAN /\ iterated' \in BOOLEAN
        /\ firstConnectionAttempt' \in BOOLEAN
    BY <1>15, Zenon DEF Restart, Boot, Iterates
  <2>2. requestNetworkRestart' \in BOOLEAN
    BY <1>15, Zenon DEF Restart, Boot, Iterates
  <2>3. QED
    BY <1>15, <2>1, <2>2, TimeoutTypes, OwedTypes, FaultTypes, HangupTypes,
       ResponseTypes
    DEF Restart, Boot, Iterates, TypeOK, Age, RestartAfter,
        PingGap, LongRetry
<1>16. CASE NetworkLost
  <2>1. /\ network' \in BOOLEAN /\ iterated' \in BOOLEAN
        /\ firstConnectionAttempt' \in BOOLEAN
    BY <1>16, Zenon DEF NetworkLost, Iterates, Disconnect
  <2>2. QED
    BY <1>16, <2>1, TimeoutTypes, OwedTypes, FaultTypes, HangupTypes,
       ResponseTypes
    DEF NetworkLost, Iterates, Disconnect, TypeOK, Age, RestartAfter,
        PingGap, LongRetry
<1>17. CASE NetworkReady
  BY <1>17, TimeoutTypes, OwedTypes, FaultTypes, HangupTypes, ResponseTypes
     DEF NetworkReady, timers, client, server, history, TypeOK, Age, Grace,
         RestartAfter, PingGap, LongRetry, ShortRetry
<1>18. CASE ElementSends
  BY <1>18, TimeoutTypes, OwedTypes, FaultTypes, HangupTypes, ResponseTypes
     DEF ElementSends, client, server, history, TypeOK, Age, Grace,
         RestartAfter, PingGap, LongRetry, ShortRetry
<1>19. CASE ServerAnswers
  BY <1>19, TimeoutTypes, OwedTypes, FaultTypes, HangupTypes, ResponseTypes
     DEF ServerAnswers, Arrives, timers, client, history, Message, TypeOK,
         Age, Grace, RestartAfter, PingGap, LongRetry, ShortRetry
<1>20. CASE ServerRefuses
  BY <1>20, TimeoutTypes, OwedTypes, FaultTypes, HangupTypes, ResponseTypes
     DEF ServerRefuses, Arrives, timers, client, history, Message, TypeOK,
         Age, Grace, RestartAfter, PingGap, LongRetry, ShortRetry
<1>21. CASE ServerSetsTimeout
  BY <1>21, TimeoutTypes, OwedTypes, FaultTypes, HangupTypes, ResponseTypes
     DEF ServerSetsTimeout, Arrives, timers, client, history, Message, TypeOK,
         Age, Grace, RestartAfter, PingGap, LongRetry, ShortRetry
<1>22. CASE ServerSends
  BY <1>22, TimeoutTypes, OwedTypes, FaultTypes, HangupTypes, ResponseTypes
     DEF ServerSends, Arrives, timers, client, history, Message, TypeOK, Age,
         Grace, RestartAfter, PingGap, LongRetry, ShortRetry
<1>23. CASE ServerFallsSilent
  BY <1>23, TimeoutTypes, OwedTypes, FaultTypes, HangupTypes, ResponseTypes
     DEF ServerFallsSilent, timers, client, history, TypeOK, Age, Grace,
         RestartAfter, PingGap, LongRetry, ShortRetry
<1>24. CASE ConnectionCloses
  BY <1>24, TimeoutTypes, OwedTypes, FaultTypes, HangupTypes, ResponseTypes
     DEF ConnectionCloses, timers, history, TypeOK, Age, Grace, RestartAfter,
         PingGap, LongRetry, ShortRetry
<1>25. CASE ServerGone
  BY <1>25, TimeoutTypes, OwedTypes, FaultTypes, HangupTypes, ResponseTypes
     DEF ServerGone, timers, client, history, TypeOK, Age, Grace,
         RestartAfter, PingGap, LongRetry, ShortRetry
<1>26. CASE ServerBack
  BY <1>26, TimeoutTypes, OwedTypes, FaultTypes, HangupTypes, ResponseTypes
     DEF ServerBack, timers, client, history, TypeOK, Age, Grace,
         RestartAfter, PingGap, LongRetry, ShortRetry
<1>27. CASE Tick
  <2>1. iterated' \in BOOLEAN
    BY <1>27, Zenon DEF Tick
  <2>2. owed' \in None .. ServerDelay
    BY <1>27, TimeoutTypes DEF Tick, TypeOK, None
  <2>3. /\ sinceRegister' \in Age /\ sinceResponse' \in Age /\ sinceSent' \in Age
        /\ sincePing' \in 0 .. PingGap /\ sinceFail' \in 0 .. LongRetry
    BY <1>27, TimeoutTypes DEF Tick, Older, TypeOK, Age, PingGap, LongRetry
  <2>4. waitForIterate' \in 0 .. 15
    BY <1>27 DEF Tick, TypeOK
  <2>5. QED
    BY <1>27, <2>1, <2>2, <2>3, <2>4, TimeoutTypes, OwedTypes, FaultTypes,
       HangupTypes, ResponseTypes
    DEF Tick, client, TypeOK
<1>28. CASE UNCHANGED vars
  BY <1>28
     DEF vars, timers, client, server, history, TypeOK, Age, Grace,
         RestartAfter, PingGap, LongRetry, ShortRetry
<1>29. QED
  BY <1>1, <1>2, <1>3, <1>4, <1>5, <1>6, <1>7, <1>8, <1>9, <1>10, <1>11,
     <1>12, <1>13, <1>14, <1>15, <1>16, <1>17, <1>18, <1>19, <1>20, <1>21,
     <1>22, <1>23, <1>24, <1>25, <1>26, <1>27, <1>28
     DEF Next, Iterate, Server

\* Every step keeps Steady.
LEMMA SteadyKept ==
    ASSUME TypeOK, Steady, [Next]_vars
    PROVE  Steady'
<1>1. CASE IterateWaits
  BY <1>1, TimeoutTypes
     DEF IterateWaits, Iterates, timers, client, server, history, Steady,
         TypeOK, None
<1>2. CASE NoticeLoss
  BY <1>2, TimeoutTypes
     DEF NoticeLoss, Ready, Iterates, server, Steady, TypeOK, None
<1>3. CASE ConnectFails
  BY <1>3, TimeoutTypes
     DEF ConnectFails, Attempt, Ready, Iterates, server, Steady, TypeOK, None
<1>4. CASE ConnectAndRegister
  BY <1>4, TimeoutTypes
     DEF ConnectAndRegister, Attempt, Ready, Iterates, Steady, TypeOK, None
<1>5. CASE StillRegistering
  BY <1>5, TimeoutTypes
     DEF StillRegistering, Online, Ready, Iterates, Registered, Response,
         client, history, Steady, TypeOK, None
<1>6. CASE RegistrationTimesOut
  BY <1>6, TimeoutTypes
     DEF RegistrationTimesOut, Online, Ready, Iterates, Registered, Response,
         EndConnection, Disconnect, Hangup, Steady, TypeOK, None
<1>7. CASE Rejected
  BY <1>7, TimeoutTypes
     DEF Rejected, Online, Ready, Iterates, Registered, Response,
         EndConnection, Disconnect, Hangup, Steady, TypeOK, None
<1>8. CASE StayRegistered
  BY <1>8, TimeoutTypes
     DEF StayRegistered, Online, Ready, Iterates, Registered, Response,
         ReadTimeout, GiveUpDue, PingDue, Reached, history, Steady, TypeOK,
         None
<1>9. CASE PingTimesOut
  BY <1>9, TimeoutTypes
     DEF PingTimesOut, Online, Ready, Iterates, Registered, Response,
         ReadTimeout, EndConnection, Disconnect, Hangup, Steady, TypeOK, None
<1>10. CASE IterateFails
  BY <1>10, TimeoutTypes
     DEF IterateFails, Online, Ready, Iterates, Response, Fault,
         EndConnection, Disconnect, Hangup, Steady, TypeOK, None
<1>11. CASE VersionErrorFails
  BY <1>11, TimeoutTypes
     DEF VersionErrorFails, Ready, Iterates, Response, EndConnection,
         Disconnect, Hangup, Steady, TypeOK, None
<1>12. CASE VersionErrorGoesOn
  BY <1>12, TimeoutTypes
     DEF VersionErrorGoesOn, Ready, Iterates, Hangup, Steady, TypeOK, None
<1>13. CASE VersionErrorResets
  BY <1>13, TimeoutTypes
     DEF VersionErrorResets, Ready, Iterates, Boot, Hangup, Steady, TypeOK,
         None
<1>14. CASE RestartNetwork
  BY <1>14, TimeoutTypes
     DEF RestartNetwork, Iterates, Disconnect, Hangup, Steady, TypeOK, None
<1>15. CASE Restart
  BY <1>15, TimeoutTypes
     DEF Restart, Fault, Boot, Hangup, Iterates, Steady, TypeOK, None
<1>16. CASE NetworkLost
  BY <1>16, TimeoutTypes
     DEF NetworkLost, Fault, Iterates, Disconnect, Hangup, Steady, TypeOK,
         None
<1>17. CASE NetworkReady
  BY <1>17, TimeoutTypes
     DEF NetworkReady, timers, client, server, history, Steady, TypeOK, None
<1>18. CASE ElementSends
  BY <1>18, TimeoutTypes
     DEF ElementSends, client, server, history, Steady, TypeOK, None
<1>19. CASE ServerAnswers
  BY <1>19, TimeoutTypes
     DEF ServerAnswers, Arrives, timers, client, history, Steady, TypeOK, None
<1>20. CASE ServerRefuses
  BY <1>20, TimeoutTypes
     DEF ServerRefuses, Arrives, Fault, timers, client, history, Steady,
         TypeOK, None
<1>21. CASE ServerSetsTimeout
  BY <1>21, TimeoutTypes
     DEF ServerSetsTimeout, Arrives, timers, client, history, Steady, TypeOK,
         None
<1>22. CASE ServerSends
  BY <1>22, TimeoutTypes
     DEF ServerSends, Arrives, timers, client, history, Steady, TypeOK, None
<1>23. CASE ServerFallsSilent
  BY <1>23, TimeoutTypes
     DEF ServerFallsSilent, Fault, timers, client, history, Steady, TypeOK,
         None
<1>24. CASE ConnectionCloses
  BY <1>24, TimeoutTypes
     DEF ConnectionCloses, Fault, Hangup, timers, history, Steady, TypeOK,
         None
<1>25. CASE ServerGone
  BY <1>25, TimeoutTypes
     DEF ServerGone, Fault, timers, client, history, Steady, TypeOK, None
<1>26. CASE ServerBack
  BY <1>26, TimeoutTypes
     DEF ServerBack, timers, client, history, Steady, TypeOK, None
<1>27. CASE Tick
  BY <1>27, TimeoutTypes DEF Tick, Older, client, history, Steady, TypeOK, None
<1>28. CASE UNCHANGED vars
  BY <1>28 DEF vars, timers, client, server, history, Steady, TypeOK, None
<1>29. QED
  BY <1>1, <1>2, <1>3, <1>4, <1>5, <1>6, <1>7, <1>8, <1>9, <1>10, <1>11,
     <1>12, <1>13, <1>14, <1>15, <1>16, <1>17, <1>18, <1>19, <1>20, <1>21,
     <1>22, <1>23, <1>24, <1>25, <1>26, <1>27, <1>28
     DEF Next, Iterate, Server

\* Every step keeps Said: by the minimum of the timeout, a second after ping()
\* had nothing to do there is still time.
LEMMA SaidKept ==
    ASSUME FitsByte, TypeOK, Steady, Said, [Next]_vars
    PROVE  Said'
<1>1. CASE IterateWaits
  BY <1>1, TimeoutTypes, TimeoutMinimum
     DEF IterateWaits, Iterates, timers, client, server, history, Said,
         Steady, HeardInTime, TypeOK, Age, MinTimeout, Lead, Grace, PingGap,
         LongRetry, ShortRetry, None
<1>2. CASE NoticeLoss
  BY <1>2, TimeoutTypes, TimeoutMinimum
     DEF NoticeLoss, Ready, Iterates, server, Said, Steady, HeardInTime,
         TypeOK, Age, MinTimeout, Lead, Grace, PingGap, LongRetry, ShortRetry,
         None
<1>3. CASE ConnectFails
  BY <1>3, TimeoutTypes, TimeoutMinimum
     DEF ConnectFails, Attempt, Ready, Iterates, server, Said, Steady,
         HeardInTime, TypeOK, Age, MinTimeout, Lead, Grace, PingGap,
         LongRetry, ShortRetry, None
<1>4. CASE ConnectAndRegister
  BY <1>4, TimeoutTypes, TimeoutMinimum
     DEF ConnectAndRegister, Attempt, Ready, Iterates, Said, Steady,
         HeardInTime, TypeOK, Age, MinTimeout, Lead, Grace, PingGap,
         LongRetry, ShortRetry, None
<1>5. CASE StillRegistering
  BY <1>5, TimeoutTypes, TimeoutMinimum
     DEF StillRegistering, Online, Ready, Iterates, Registered, Response,
         client, history, Said, Steady, HeardInTime, TypeOK, Age, MinTimeout,
         Lead, Grace, PingGap, LongRetry, ShortRetry, None
<1>6. CASE RegistrationTimesOut
  BY <1>6, TimeoutTypes, TimeoutMinimum
     DEF RegistrationTimesOut, Online, Ready, Iterates, Registered, Response,
         EndConnection, Disconnect, Hangup, Said, Steady, HeardInTime, TypeOK,
         Age, MinTimeout, Lead, Grace, PingGap, LongRetry, ShortRetry, None
<1>7. CASE Rejected
  BY <1>7, TimeoutTypes, TimeoutMinimum
     DEF Rejected, Online, Ready, Iterates, Registered, Response,
         EndConnection, Disconnect, Hangup, Said, Steady, HeardInTime, TypeOK,
         Age, MinTimeout, Lead, Grace, PingGap, LongRetry, ShortRetry, None
<1>8. CASE StayRegistered
  BY <1>8, TimeoutTypes, TimeoutMinimum
     DEF StayRegistered, Online, Ready, Iterates, Registered, Response,
         ReadTimeout, GiveUpDue, PingDue, Reached, history, Said, Steady,
         HeardInTime, TypeOK, Age, MinTimeout, Lead, Grace, PingGap,
         LongRetry, ShortRetry, None
<1>9. CASE PingTimesOut
  BY <1>9, TimeoutTypes, TimeoutMinimum
     DEF PingTimesOut, Online, Ready, Iterates, Registered, Response,
         ReadTimeout, EndConnection, Disconnect, Hangup, Said, Steady,
         HeardInTime, TypeOK, Age, MinTimeout, Lead, Grace, PingGap,
         LongRetry, ShortRetry, None
<1>10. CASE IterateFails
  BY <1>10, TimeoutTypes, TimeoutMinimum
     DEF IterateFails, Online, Ready, Iterates, Response, Fault,
         EndConnection, Disconnect, Hangup, Said, Steady, HeardInTime, TypeOK,
         Age, MinTimeout, Lead, Grace, PingGap, LongRetry, ShortRetry, None
<1>11. CASE VersionErrorFails
  BY <1>11, TimeoutTypes, TimeoutMinimum
     DEF VersionErrorFails, Ready, Iterates, Response, EndConnection,
         Disconnect, Hangup, Said, Steady, HeardInTime, TypeOK, Age,
         MinTimeout, Lead, Grace, PingGap, LongRetry, ShortRetry, None
<1>12. CASE VersionErrorGoesOn
  BY <1>12, TimeoutTypes, TimeoutMinimum
     DEF VersionErrorGoesOn, Ready, Iterates, Hangup, Said, Steady,
         HeardInTime, TypeOK, Age, MinTimeout, Lead, Grace, PingGap,
         LongRetry, ShortRetry, None
<1>13. CASE VersionErrorResets
  BY <1>13, TimeoutTypes, TimeoutMinimum
     DEF VersionErrorResets, Ready, Iterates, Boot, Hangup, Said, Steady,
         HeardInTime, TypeOK, Age, MinTimeout, Lead, Grace, PingGap,
         LongRetry, ShortRetry, None
<1>14. CASE RestartNetwork
  BY <1>14, TimeoutTypes, TimeoutMinimum
     DEF RestartNetwork, Iterates, Disconnect, Hangup, Said, Steady,
         HeardInTime, TypeOK, Age, MinTimeout, Lead, Grace, PingGap,
         LongRetry, ShortRetry, None
<1>15. CASE Restart
  BY <1>15, TimeoutTypes, TimeoutMinimum
     DEF Restart, Fault, Boot, Hangup, Iterates, Said, Steady, HeardInTime,
         TypeOK, Age, MinTimeout, Lead, Grace, PingGap, LongRetry, ShortRetry,
         None
<1>16. CASE NetworkLost
  BY <1>16, TimeoutTypes, TimeoutMinimum
     DEF NetworkLost, Fault, Iterates, Disconnect, Hangup, Said, Steady,
         HeardInTime, TypeOK, Age, MinTimeout, Lead, Grace, PingGap,
         LongRetry, ShortRetry, None
<1>17. CASE NetworkReady
  BY <1>17, TimeoutTypes, TimeoutMinimum
     DEF NetworkReady, timers, client, server, history, Said, Steady,
         HeardInTime, TypeOK, Age, MinTimeout, Lead, Grace, PingGap,
         LongRetry, ShortRetry, None
<1>18. CASE ElementSends
  BY <1>18, TimeoutTypes, TimeoutMinimum
     DEF ElementSends, client, server, history, Said, Steady, HeardInTime,
         TypeOK, Age, MinTimeout, Lead, Grace, PingGap, LongRetry, ShortRetry,
         None
<1>19. CASE ServerAnswers
  BY <1>19, TimeoutTypes, TimeoutMinimum
     DEF ServerAnswers, Arrives, timers, client, history, Said, Steady,
         HeardInTime, TypeOK, Age, MinTimeout, Lead, Grace, PingGap,
         LongRetry, ShortRetry, None
<1>20. CASE ServerRefuses
  BY <1>20, TimeoutTypes, TimeoutMinimum
     DEF ServerRefuses, Arrives, Fault, timers, client, history, Said, Steady,
         HeardInTime, TypeOK, Age, MinTimeout, Lead, Grace, PingGap,
         LongRetry, ShortRetry, None
<1>21. CASE ServerSetsTimeout
  BY <1>21, TimeoutTypes, TimeoutMinimum
     DEF ServerSetsTimeout, Arrives, timers, client, history, Said, Steady,
         HeardInTime, TypeOK, Age, MinTimeout, Lead, Grace, PingGap,
         LongRetry, ShortRetry, None
<1>22. CASE ServerSends
  BY <1>22, TimeoutTypes, TimeoutMinimum
     DEF ServerSends, Arrives, timers, client, history, Said, Steady,
         HeardInTime, TypeOK, Age, MinTimeout, Lead, Grace, PingGap,
         LongRetry, ShortRetry, None
<1>23. CASE ServerFallsSilent
  BY <1>23, TimeoutTypes, TimeoutMinimum
     DEF ServerFallsSilent, Fault, timers, client, history, Said, Steady,
         HeardInTime, TypeOK, Age, MinTimeout, Lead, Grace, PingGap,
         LongRetry, ShortRetry, None
<1>24. CASE ConnectionCloses
  BY <1>24, TimeoutTypes, TimeoutMinimum
     DEF ConnectionCloses, Fault, Hangup, timers, history, Said, Steady,
         HeardInTime, TypeOK, Age, MinTimeout, Lead, Grace, PingGap,
         LongRetry, ShortRetry, None
<1>25. CASE ServerGone
  BY <1>25, TimeoutTypes, TimeoutMinimum
     DEF ServerGone, Fault, timers, client, history, Said, Steady,
         HeardInTime, TypeOK, Age, MinTimeout, Lead, Grace, PingGap,
         LongRetry, ShortRetry, None
<1>26. CASE ServerBack
  BY <1>26, TimeoutTypes, TimeoutMinimum
     DEF ServerBack, timers, client, history, Said, Steady, HeardInTime,
         TypeOK, Age, MinTimeout, Lead, Grace, PingGap, LongRetry, ShortRetry,
         None
<1>27. CASE Tick
  BY <1>27, TimeoutTypes, TimeoutMinimum
     DEF Tick, Older, client, history, Said, Steady, HeardInTime, TypeOK, Age,
         MinTimeout, Lead, Grace, PingGap, LongRetry, ShortRetry, None
<1>28. CASE UNCHANGED vars
  BY <1>28
     DEF vars, timers, client, server, history, Said, Steady, HeardInTime,
         TypeOK, Age, MinTimeout, Lead, Grace, PingGap, LongRetry, ShortRetry,
         None
<1>29. QED
  BY <1>1, <1>2, <1>3, <1>4, <1>5, <1>6, <1>7, <1>8, <1>9, <1>10, <1>11,
     <1>12, <1>13, <1>14, <1>15, <1>16, <1>17, <1>18, <1>19, <1>20, <1>21,
     <1>22, <1>23, <1>24, <1>25, <1>26, <1>27, <1>28
     DEF Next, Iterate, Server

\* Every step keeps Noticed.
LEMMA NoticedKept ==
    ASSUME TypeOK, Steady, Noticed, [Next]_vars
    PROVE  Noticed'
<1>1. CASE IterateWaits
  BY <1>1, TimeoutTypes
     DEF IterateWaits, Iterates, timers, client, server, history, Noticed,
         Steady, SilenceNoticed, TypeOK, Age, RegistrationTimeout, Lead,
         Grace, PingGap, LongRetry, ShortRetry, None
<1>2. CASE NoticeLoss
  BY <1>2, TimeoutTypes
     DEF NoticeLoss, Ready, Iterates, server, Noticed, Steady, SilenceNoticed,
         TypeOK, Age, RegistrationTimeout, Lead, Grace, PingGap, LongRetry,
         ShortRetry, None
<1>3. CASE ConnectFails
  BY <1>3, TimeoutTypes
     DEF ConnectFails, Attempt, Ready, Iterates, server, Noticed, Steady,
         SilenceNoticed, TypeOK, Age, RegistrationTimeout, Lead, Grace,
         PingGap, LongRetry, ShortRetry, None
<1>4. CASE ConnectAndRegister
  BY <1>4, TimeoutTypes
     DEF ConnectAndRegister, Attempt, Ready, Iterates, Noticed, Steady,
         SilenceNoticed, TypeOK, Age, RegistrationTimeout, Lead, Grace,
         PingGap, LongRetry, ShortRetry, None
<1>5. CASE StillRegistering
  BY <1>5, TimeoutTypes
     DEF StillRegistering, Online, Ready, Iterates, Registered, Response,
         client, history, Noticed, Steady, SilenceNoticed, TypeOK, Age,
         RegistrationTimeout, Lead, Grace, PingGap, LongRetry, ShortRetry,
         None
<1>6. CASE RegistrationTimesOut
  BY <1>6, TimeoutTypes
     DEF RegistrationTimesOut, Online, Ready, Iterates, Registered, Response,
         EndConnection, Disconnect, Hangup, Noticed, Steady, SilenceNoticed,
         TypeOK, Age, RegistrationTimeout, Lead, Grace, PingGap, LongRetry,
         ShortRetry, None
<1>7. CASE Rejected
  BY <1>7, TimeoutTypes
     DEF Rejected, Online, Ready, Iterates, Registered, Response,
         EndConnection, Disconnect, Hangup, Noticed, Steady, SilenceNoticed,
         TypeOK, Age, RegistrationTimeout, Lead, Grace, PingGap, LongRetry,
         ShortRetry, None
<1>8. CASE StayRegistered
  BY <1>8, TimeoutTypes
     DEF StayRegistered, Online, Ready, Iterates, Registered, Response,
         ReadTimeout, GiveUpDue, PingDue, Reached, history, Noticed, Steady,
         SilenceNoticed, TypeOK, Age, RegistrationTimeout, Lead, Grace,
         PingGap, LongRetry, ShortRetry, None
<1>9. CASE PingTimesOut
  BY <1>9, TimeoutTypes
     DEF PingTimesOut, Online, Ready, Iterates, Registered, Response,
         ReadTimeout, EndConnection, Disconnect, Hangup, Noticed, Steady,
         SilenceNoticed, TypeOK, Age, RegistrationTimeout, Lead, Grace,
         PingGap, LongRetry, ShortRetry, None
<1>10. CASE IterateFails
  BY <1>10, TimeoutTypes
     DEF IterateFails, Online, Ready, Iterates, Response, Fault,
         EndConnection, Disconnect, Hangup, Noticed, Steady, SilenceNoticed,
         TypeOK, Age, RegistrationTimeout, Lead, Grace, PingGap, LongRetry,
         ShortRetry, None
<1>11. CASE VersionErrorFails
  BY <1>11, TimeoutTypes
     DEF VersionErrorFails, Ready, Iterates, Response, EndConnection,
         Disconnect, Hangup, Noticed, Steady, SilenceNoticed, TypeOK, Age,
         RegistrationTimeout, Lead, Grace, PingGap, LongRetry, ShortRetry,
         None
<1>12. CASE VersionErrorGoesOn
  BY <1>12, TimeoutTypes
     DEF VersionErrorGoesOn, Ready, Iterates, Hangup, Noticed, Steady,
         SilenceNoticed, TypeOK, Age, RegistrationTimeout, Lead, Grace,
         PingGap, LongRetry, ShortRetry, None
<1>13. CASE VersionErrorResets
  BY <1>13, TimeoutTypes
     DEF VersionErrorResets, Ready, Iterates, Boot, Hangup, Noticed, Steady,
         SilenceNoticed, TypeOK, Age, RegistrationTimeout, Lead, Grace,
         PingGap, LongRetry, ShortRetry, None
<1>14. CASE RestartNetwork
  BY <1>14, TimeoutTypes
     DEF RestartNetwork, Iterates, Disconnect, Hangup, Noticed, Steady,
         SilenceNoticed, TypeOK, Age, RegistrationTimeout, Lead, Grace,
         PingGap, LongRetry, ShortRetry, None
<1>15. CASE Restart
  BY <1>15, TimeoutTypes
     DEF Restart, Fault, Boot, Hangup, Iterates, Noticed, Steady,
         SilenceNoticed, TypeOK, Age, RegistrationTimeout, Lead, Grace,
         PingGap, LongRetry, ShortRetry, None
<1>16. CASE NetworkLost
  BY <1>16, TimeoutTypes
     DEF NetworkLost, Fault, Iterates, Disconnect, Hangup, Noticed, Steady,
         SilenceNoticed, TypeOK, Age, RegistrationTimeout, Lead, Grace,
         PingGap, LongRetry, ShortRetry, None
<1>17. CASE NetworkReady
  BY <1>17, TimeoutTypes
     DEF NetworkReady, timers, client, server, history, Noticed, Steady,
         SilenceNoticed, TypeOK, Age, RegistrationTimeout, Lead, Grace,
         PingGap, LongRetry, ShortRetry, None
<1>18. CASE ElementSends
  BY <1>18, TimeoutTypes
     DEF ElementSends, client, server, history, Noticed, Steady,
         SilenceNoticed, TypeOK, Age, RegistrationTimeout, Lead, Grace,
         PingGap, LongRetry, ShortRetry, None
<1>19. CASE ServerAnswers
  BY <1>19, TimeoutTypes
     DEF ServerAnswers, Arrives, timers, client, history, Noticed, Steady,
         SilenceNoticed, TypeOK, Age, RegistrationTimeout, Lead, Grace,
         PingGap, LongRetry, ShortRetry, None
<1>20. CASE ServerRefuses
  BY <1>20, TimeoutTypes
     DEF ServerRefuses, Arrives, Fault, timers, client, history, Noticed,
         Steady, SilenceNoticed, TypeOK, Age, RegistrationTimeout, Lead,
         Grace, PingGap, LongRetry, ShortRetry, None
<1>21. CASE ServerSetsTimeout
  BY <1>21, TimeoutTypes
     DEF ServerSetsTimeout, Arrives, timers, client, history, Noticed, Steady,
         SilenceNoticed, TypeOK, Age, RegistrationTimeout, Lead, Grace,
         PingGap, LongRetry, ShortRetry, None
<1>22. CASE ServerSends
  BY <1>22, TimeoutTypes
     DEF ServerSends, Arrives, timers, client, history, Noticed, Steady,
         SilenceNoticed, TypeOK, Age, RegistrationTimeout, Lead, Grace,
         PingGap, LongRetry, ShortRetry, None
<1>23. CASE ServerFallsSilent
  BY <1>23, TimeoutTypes
     DEF ServerFallsSilent, Fault, timers, client, history, Noticed, Steady,
         SilenceNoticed, TypeOK, Age, RegistrationTimeout, Lead, Grace,
         PingGap, LongRetry, ShortRetry, None
<1>24. CASE ConnectionCloses
  BY <1>24, TimeoutTypes
     DEF ConnectionCloses, Fault, Hangup, timers, history, Noticed, Steady,
         SilenceNoticed, TypeOK, Age, RegistrationTimeout, Lead, Grace,
         PingGap, LongRetry, ShortRetry, None
<1>25. CASE ServerGone
  BY <1>25, TimeoutTypes
     DEF ServerGone, Fault, timers, client, history, Noticed, Steady,
         SilenceNoticed, TypeOK, Age, RegistrationTimeout, Lead, Grace,
         PingGap, LongRetry, ShortRetry, None
<1>26. CASE ServerBack
  BY <1>26, TimeoutTypes
     DEF ServerBack, timers, client, history, Noticed, Steady, SilenceNoticed,
         TypeOK, Age, RegistrationTimeout, Lead, Grace, PingGap, LongRetry,
         ShortRetry, None
<1>27. CASE Tick
  BY <1>27, TimeoutTypes
     DEF Tick, Older, client, history, Noticed, Steady, SilenceNoticed,
         TypeOK, Age, RegistrationTimeout, Lead, Grace, PingGap, LongRetry,
         ShortRetry, None
<1>28. CASE UNCHANGED vars
  BY <1>28
     DEF vars, timers, client, server, history, Noticed, Steady,
         SilenceNoticed, TypeOK, Age, RegistrationTimeout, Lead, Grace,
         PingGap, LongRetry, ShortRetry, None
<1>29. QED
  BY <1>1, <1>2, <1>3, <1>4, <1>5, <1>6, <1>7, <1>8, <1>9, <1>10, <1>11,
     <1>12, <1>13, <1>14, <1>15, <1>16, <1>17, <1>18, <1>19, <1>20, <1>21,
     <1>22, <1>23, <1>24, <1>25, <1>26, <1>27, <1>28
     DEF Next, Iterate, Server

\* Every step keeps Responsive.
LEMMA ResponsiveStays ==
    ASSUME FitsByte, TypeOK, Steady, Responsive, [Next]_vars
    PROVE  Responsive'
<1>1. CASE IterateWaits
  BY <1>1, TimeoutTypes, TimeoutMinimum
     DEF IterateWaits, Iterates, timers, client, server, history, Responsive,
         Idle, Steady, TypeOK, Age, MinTimeout, Lead, Grace, PingGap,
         LongRetry, ShortRetry, None
<1>2. CASE NoticeLoss
  BY <1>2, TimeoutTypes, TimeoutMinimum
     DEF NoticeLoss, Ready, Iterates, server, Responsive, Idle, Steady,
         TypeOK, Age, MinTimeout, Lead, Grace, PingGap, LongRetry, ShortRetry,
         None
<1>3. CASE ConnectFails
  BY <1>3, TimeoutTypes, TimeoutMinimum
     DEF ConnectFails, Attempt, Ready, Iterates, server, Responsive, Idle,
         Steady, TypeOK, Age, MinTimeout, Lead, Grace, PingGap, LongRetry,
         ShortRetry, None
<1>4. CASE ConnectAndRegister
  BY <1>4, TimeoutTypes, TimeoutMinimum
     DEF ConnectAndRegister, Attempt, Ready, Iterates, Responsive, Idle,
         Steady, TypeOK, Age, MinTimeout, Lead, Grace, PingGap, LongRetry,
         ShortRetry, None
<1>5. CASE StillRegistering
  BY <1>5, TimeoutTypes, TimeoutMinimum
     DEF StillRegistering, Online, Ready, Iterates, Registered, Response,
         client, history, Responsive, Idle, Steady, TypeOK, Age, MinTimeout,
         Lead, Grace, PingGap, LongRetry, ShortRetry, None
<1>6. CASE RegistrationTimesOut
  BY <1>6, TimeoutTypes, TimeoutMinimum
     DEF RegistrationTimesOut, Online, Ready, Iterates, Registered, Response,
         EndConnection, Disconnect, Hangup, Responsive, Idle, Steady, TypeOK,
         Age, MinTimeout, Lead, Grace, PingGap, LongRetry, ShortRetry, None
<1>7. CASE Rejected
  BY <1>7, TimeoutTypes, TimeoutMinimum
     DEF Rejected, Online, Ready, Iterates, Registered, Response,
         EndConnection, Disconnect, Hangup, Responsive, Idle, Steady, TypeOK,
         Age, MinTimeout, Lead, Grace, PingGap, LongRetry, ShortRetry, None
<1>8. CASE StayRegistered
  BY <1>8, TimeoutTypes, TimeoutMinimum
     DEF StayRegistered, Online, Ready, Iterates, Registered, Response,
         ReadTimeout, GiveUpDue, PingDue, Reached, history, Responsive, Idle,
         Steady, TypeOK, Age, MinTimeout, Lead, Grace, PingGap, LongRetry,
         ShortRetry, None
<1>9. CASE PingTimesOut
  BY <1>9, TimeoutTypes, TimeoutMinimum
     DEF PingTimesOut, Online, Ready, Iterates, Registered, Response,
         ReadTimeout, EndConnection, Disconnect, Hangup, Responsive, Idle,
         Steady, TypeOK, Age, MinTimeout, Lead, Grace, PingGap, LongRetry,
         ShortRetry, None
<1>10. CASE IterateFails
  BY <1>10, TimeoutTypes, TimeoutMinimum
     DEF IterateFails, Online, Ready, Iterates, Response, Fault,
         EndConnection, Disconnect, Hangup, Responsive, Idle, Steady, TypeOK,
         Age, MinTimeout, Lead, Grace, PingGap, LongRetry, ShortRetry, None
<1>11. CASE VersionErrorFails
  BY <1>11, TimeoutTypes, TimeoutMinimum
     DEF VersionErrorFails, Ready, Iterates, Response, EndConnection,
         Disconnect, Hangup, Responsive, Idle, Steady, TypeOK, Age,
         MinTimeout, Lead, Grace, PingGap, LongRetry, ShortRetry, None
<1>12. CASE VersionErrorGoesOn
  BY <1>12, TimeoutTypes, TimeoutMinimum
     DEF VersionErrorGoesOn, Ready, Iterates, Hangup, Responsive, Idle,
         Steady, TypeOK, Age, MinTimeout, Lead, Grace, PingGap, LongRetry,
         ShortRetry, None
<1>13. CASE VersionErrorResets
  BY <1>13, TimeoutTypes, TimeoutMinimum
     DEF VersionErrorResets, Ready, Iterates, Boot, Hangup, Responsive, Idle,
         Steady, TypeOK, Age, MinTimeout, Lead, Grace, PingGap, LongRetry,
         ShortRetry, None
<1>14. CASE RestartNetwork
  BY <1>14, TimeoutTypes, TimeoutMinimum
     DEF RestartNetwork, Iterates, Disconnect, Hangup, Responsive, Idle,
         Steady, TypeOK, Age, MinTimeout, Lead, Grace, PingGap, LongRetry,
         ShortRetry, None
<1>15. CASE Restart
  BY <1>15, TimeoutTypes, TimeoutMinimum
     DEF Restart, Fault, Boot, Hangup, Iterates, Responsive, Idle, Steady,
         TypeOK, Age, MinTimeout, Lead, Grace, PingGap, LongRetry, ShortRetry,
         None
<1>16. CASE NetworkLost
  BY <1>16, TimeoutTypes, TimeoutMinimum
     DEF NetworkLost, Fault, Iterates, Disconnect, Hangup, Responsive, Idle,
         Steady, TypeOK, Age, MinTimeout, Lead, Grace, PingGap, LongRetry,
         ShortRetry, None
<1>17. CASE NetworkReady
  BY <1>17, TimeoutTypes, TimeoutMinimum
     DEF NetworkReady, timers, client, server, history, Responsive, Idle,
         Steady, TypeOK, Age, MinTimeout, Lead, Grace, PingGap, LongRetry,
         ShortRetry, None
<1>18. CASE ElementSends
  BY <1>18, TimeoutTypes, TimeoutMinimum
     DEF ElementSends, client, server, history, Responsive, Idle, Steady,
         TypeOK, Age, MinTimeout, Lead, Grace, PingGap, LongRetry, ShortRetry,
         None
<1>19. CASE ServerAnswers
  BY <1>19, TimeoutTypes, TimeoutMinimum
     DEF ServerAnswers, Arrives, timers, client, history, Responsive, Idle,
         Steady, TypeOK, Age, MinTimeout, Lead, Grace, PingGap, LongRetry,
         ShortRetry, None
<1>20. CASE ServerRefuses
  BY <1>20, TimeoutTypes, TimeoutMinimum
     DEF ServerRefuses, Arrives, Fault, timers, client, history, Responsive,
         Idle, Steady, TypeOK, Age, MinTimeout, Lead, Grace, PingGap,
         LongRetry, ShortRetry, None
<1>21. CASE ServerSetsTimeout
  BY <1>21, TimeoutTypes, TimeoutMinimum
     DEF ServerSetsTimeout, Arrives, timers, client, history, Responsive,
         Idle, Steady, TypeOK, Age, MinTimeout, Lead, Grace, PingGap,
         LongRetry, ShortRetry, None
<1>22. CASE ServerSends
  BY <1>22, TimeoutTypes, TimeoutMinimum
     DEF ServerSends, Arrives, timers, client, history, Responsive, Idle,
         Steady, TypeOK, Age, MinTimeout, Lead, Grace, PingGap, LongRetry,
         ShortRetry, None
<1>23. CASE ServerFallsSilent
  BY <1>23, TimeoutTypes, TimeoutMinimum
     DEF ServerFallsSilent, Fault, timers, client, history, Responsive, Idle,
         Steady, TypeOK, Age, MinTimeout, Lead, Grace, PingGap, LongRetry,
         ShortRetry, None
<1>24. CASE ConnectionCloses
  BY <1>24, TimeoutTypes, TimeoutMinimum
     DEF ConnectionCloses, Fault, Hangup, timers, history, Responsive, Idle,
         Steady, TypeOK, Age, MinTimeout, Lead, Grace, PingGap, LongRetry,
         ShortRetry, None
<1>25. CASE ServerGone
  BY <1>25, TimeoutTypes, TimeoutMinimum
     DEF ServerGone, Fault, timers, client, history, Responsive, Idle, Steady,
         TypeOK, Age, MinTimeout, Lead, Grace, PingGap, LongRetry, ShortRetry,
         None
<1>26. CASE ServerBack
  BY <1>26, TimeoutTypes, TimeoutMinimum
     DEF ServerBack, timers, client, history, Responsive, Idle, Steady,
         TypeOK, Age, MinTimeout, Lead, Grace, PingGap, LongRetry, ShortRetry,
         None
<1>27. CASE Tick
  BY <1>27, TimeoutTypes, TimeoutMinimum
     DEF Tick, Older, client, history, Responsive, Idle, Steady, TypeOK, Age,
         MinTimeout, Lead, Grace, PingGap, LongRetry, ShortRetry, None
<1>28. CASE UNCHANGED vars
  BY <1>28
     DEF vars, timers, client, server, history, Responsive, Idle, Steady,
         TypeOK, Age, MinTimeout, Lead, Grace, PingGap, LongRetry, ShortRetry,
         None
<1>29. QED
  BY <1>1, <1>2, <1>3, <1>4, <1>5, <1>6, <1>7, <1>8, <1>9, <1>10, <1>11,
     <1>12, <1>13, <1>14, <1>15, <1>16, <1>17, <1>18, <1>19, <1>20, <1>21,
     <1>22, <1>23, <1>24, <1>25, <1>26, <1>27, <1>28
     DEF Next, Iterate, Server

\* Every step keeps Spaced.
LEMMA SpacedKept ==
    ASSUME TypeOK, Spaced, [Next]_vars
    PROVE  Spaced'
<1>1. CASE IterateWaits
  BY <1>1, TimeoutTypes
     DEF IterateWaits, Iterates, timers, client, server, history, Spaced,
         TypeOK, Age, Lead, Grace, PingGap, LongRetry, ShortRetry, None
<1>2. CASE NoticeLoss
  BY <1>2, TimeoutTypes
     DEF NoticeLoss, Ready, Iterates, server, Spaced, TypeOK, Age, Lead,
         Grace, PingGap, LongRetry, ShortRetry, None
<1>3. CASE ConnectFails
  BY <1>3, TimeoutTypes
     DEF ConnectFails, Attempt, Ready, Iterates, server, Spaced, TypeOK, Age,
         Lead, Grace, PingGap, LongRetry, ShortRetry, None
<1>4. CASE ConnectAndRegister
  BY <1>4, TimeoutTypes
     DEF ConnectAndRegister, Attempt, Ready, Iterates, Spaced, TypeOK, Age,
         Lead, Grace, PingGap, LongRetry, ShortRetry, None
<1>5. CASE StillRegistering
  BY <1>5, TimeoutTypes
     DEF StillRegistering, Online, Ready, Iterates, Registered, Response,
         client, history, Spaced, TypeOK, Age, Lead, Grace, PingGap,
         LongRetry, ShortRetry, None
<1>6. CASE RegistrationTimesOut
  BY <1>6, TimeoutTypes
     DEF RegistrationTimesOut, Online, Ready, Iterates, Registered, Response,
         EndConnection, Disconnect, Hangup, Spaced, TypeOK, Age, Lead, Grace,
         PingGap, LongRetry, ShortRetry, None
<1>7. CASE Rejected
  BY <1>7, TimeoutTypes
     DEF Rejected, Online, Ready, Iterates, Registered, Response,
         EndConnection, Disconnect, Hangup, Spaced, TypeOK, Age, Lead, Grace,
         PingGap, LongRetry, ShortRetry, None
<1>8. CASE StayRegistered
  BY <1>8, TimeoutTypes
     DEF StayRegistered, Online, Ready, Iterates, Registered, Response,
         ReadTimeout, GiveUpDue, PingDue, Reached, history, Spaced, TypeOK,
         Age, Lead, Grace, PingGap, LongRetry, ShortRetry, None
<1>9. CASE PingTimesOut
  BY <1>9, TimeoutTypes
     DEF PingTimesOut, Online, Ready, Iterates, Registered, Response,
         ReadTimeout, EndConnection, Disconnect, Hangup, Spaced, TypeOK, Age,
         Lead, Grace, PingGap, LongRetry, ShortRetry, None
<1>10. CASE IterateFails
  BY <1>10, TimeoutTypes
     DEF IterateFails, Online, Ready, Iterates, Response, Fault,
         EndConnection, Disconnect, Hangup, Spaced, TypeOK, Age, Lead, Grace,
         PingGap, LongRetry, ShortRetry, None
<1>11. CASE VersionErrorFails
  BY <1>11, TimeoutTypes
     DEF VersionErrorFails, Ready, Iterates, Response, EndConnection,
         Disconnect, Hangup, Spaced, TypeOK, Age, Lead, Grace, PingGap,
         LongRetry, ShortRetry, None
<1>12. CASE VersionErrorGoesOn
  BY <1>12, TimeoutTypes
     DEF VersionErrorGoesOn, Ready, Iterates, Hangup, Spaced, TypeOK, Age,
         Lead, Grace, PingGap, LongRetry, ShortRetry, None
<1>13. CASE VersionErrorResets
  BY <1>13, TimeoutTypes
     DEF VersionErrorResets, Ready, Iterates, Boot, Hangup, Spaced, TypeOK,
         Age, Lead, Grace, PingGap, LongRetry, ShortRetry, None
<1>14. CASE RestartNetwork
  BY <1>14, TimeoutTypes
     DEF RestartNetwork, Iterates, Disconnect, Hangup, Spaced, TypeOK, Age,
         Lead, Grace, PingGap, LongRetry, ShortRetry, None
<1>15. CASE Restart
  BY <1>15, TimeoutTypes
     DEF Restart, Fault, Boot, Hangup, Iterates, Spaced, TypeOK, Age, Lead,
         Grace, PingGap, LongRetry, ShortRetry, None
<1>16. CASE NetworkLost
  BY <1>16, TimeoutTypes
     DEF NetworkLost, Fault, Iterates, Disconnect, Hangup, Spaced, TypeOK,
         Age, Lead, Grace, PingGap, LongRetry, ShortRetry, None
<1>17. CASE NetworkReady
  BY <1>17, TimeoutTypes
     DEF NetworkReady, timers, client, server, history, Spaced, TypeOK, Age,
         Lead, Grace, PingGap, LongRetry, ShortRetry, None
<1>18. CASE ElementSends
  BY <1>18, TimeoutTypes
     DEF ElementSends, client, server, history, Spaced, TypeOK, Age, Lead,
         Grace, PingGap, LongRetry, ShortRetry, None
<1>19. CASE ServerAnswers
  BY <1>19, TimeoutTypes
     DEF ServerAnswers, Arrives, timers, client, history, Spaced, TypeOK, Age,
         Lead, Grace, PingGap, LongRetry, ShortRetry, None
<1>20. CASE ServerRefuses
  BY <1>20, TimeoutTypes
     DEF ServerRefuses, Arrives, Fault, timers, client, history, Spaced,
         TypeOK, Age, Lead, Grace, PingGap, LongRetry, ShortRetry, None
<1>21. CASE ServerSetsTimeout
  BY <1>21, TimeoutTypes
     DEF ServerSetsTimeout, Arrives, timers, client, history, Spaced, TypeOK,
         Age, Lead, Grace, PingGap, LongRetry, ShortRetry, None
<1>22. CASE ServerSends
  BY <1>22, TimeoutTypes
     DEF ServerSends, Arrives, timers, client, history, Spaced, TypeOK, Age,
         Lead, Grace, PingGap, LongRetry, ShortRetry, None
<1>23. CASE ServerFallsSilent
  BY <1>23, TimeoutTypes
     DEF ServerFallsSilent, Fault, timers, client, history, Spaced, TypeOK,
         Age, Lead, Grace, PingGap, LongRetry, ShortRetry, None
<1>24. CASE ConnectionCloses
  BY <1>24, TimeoutTypes
     DEF ConnectionCloses, Fault, Hangup, timers, history, Spaced, TypeOK,
         Age, Lead, Grace, PingGap, LongRetry, ShortRetry, None
<1>25. CASE ServerGone
  BY <1>25, TimeoutTypes
     DEF ServerGone, Fault, timers, client, history, Spaced, TypeOK, Age,
         Lead, Grace, PingGap, LongRetry, ShortRetry, None
<1>26. CASE ServerBack
  BY <1>26, TimeoutTypes
     DEF ServerBack, timers, client, history, Spaced, TypeOK, Age, Lead,
         Grace, PingGap, LongRetry, ShortRetry, None
<1>27. CASE Tick
  BY <1>27, TimeoutTypes
     DEF Tick, Older, client, history, Spaced, TypeOK, Age, Lead, Grace,
         PingGap, LongRetry, ShortRetry, None
<1>28. CASE UNCHANGED vars
  BY <1>28
     DEF vars, timers, client, server, history, Spaced, TypeOK, Age, Lead,
         Grace, PingGap, LongRetry, ShortRetry, None
<1>29. QED
  BY <1>1, <1>2, <1>3, <1>4, <1>5, <1>6, <1>7, <1>8, <1>9, <1>10, <1>11,
     <1>12, <1>13, <1>14, <1>15, <1>16, <1>17, <1>18, <1>19, <1>20, <1>21,
     <1>22, <1>23, <1>24, <1>25, <1>26, <1>27, <1>28
     DEF Next, Iterate, Server

----------------------------------------------------------------------------
(* The theorems                                                            *)

\* Initially the invariants hold.
LEMMA InitKeeps ==
    /\ Init => TypeOK /\ Steady /\ Noticed /\ Spaced
    /\ Init /\ FitsByte => Said /\ Responsive
<1> SUFFICES ASSUME Init PROVE /\ TypeOK /\ Steady /\ Noticed /\ Spaced
                               /\ FitsByte => Said /\ Responsive
  OBVIOUS
<1>1. TypeOK
  <2>1. /\ network \in BOOLEAN /\ connected \in BOOLEAN /\ iterated \in BOOLEAN
        /\ firstConnectionAttempt \in BOOLEAN /\ reachable \in BOOLEAN
        /\ requestNetworkRestart \in BOOLEAN /\ silent \in BOOLEAN
        /\ asked \in BOOLEAN
    BY Zenon DEF Init
  <2>2. QED
    BY <2>1, TimeoutTypes, OwedTypes
    DEF Init, TypeOK, Age, RestartAfter, PingGap, LongRetry
<1>2. Steady
  BY DEF Init, Steady
<1>3. Noticed
  BY DEF Init, Noticed, SilenceNoticed
<1>4. Spaced
  BY DEF Init, Spaced
<1>5. Said /\ Responsive
  BY DEF Init, Said, HeardInTime, Responsive, Idle, None
<1>6. QED
  BY <1>1, <1>2, <1>3, <1>4, <1>5

\* The types of the link's state hold in every state of every behaviour.
THEOREM TypeCorrect == Spec => []TypeOK
<1>1. Init => TypeOK
  BY InitKeeps
<1>2. TypeOK /\ [Next]_vars => TypeOK'
  BY TypesKept
<1>3. QED
  BY <1>1, <1>2, PTL DEF Spec

\* A connection in use has nothing to wait for.
THEOREM SteadyHolds == Spec => []Steady
<1>1. Init => Steady
  BY InitKeeps
<1>2. TypeOK /\ Steady /\ [Next]_vars => Steady'
  BY SteadyKept
<1>3. QED
  BY <1>1, <1>2, TypeCorrect, PTL DEF Spec

\* A silent server is noticed in time, registered or registering, whatever
\* the timeouts asked for.
THEOREM SilenceNoticedHolds == Spec => []SilenceNoticed
<1>1. Init => Noticed
  BY InitKeeps
<1>2. TypeOK /\ Steady /\ Noticed /\ [Next]_vars => Noticed'
  BY NoticedKept
<1>3. Noticed => SilenceNoticed
  BY DEF Noticed
<1>4. QED
  BY <1>1, <1>2, <1>3, TypeCorrect, SteadyHolds, PTL DEF Spec

\* A registered device is heard within its activity timeout, when every
\* timeout asked for fits its byte.
THEOREM HeardInTimeHolds == FitsByte => (Spec => []HeardInTime)
<1> SUFFICES ASSUME FitsByte PROVE Spec => []HeardInTime
  OBVIOUS
<1>1. Init => Said
  BY InitKeeps
<1>2. TypeOK /\ Steady /\ Said /\ [Next]_vars => Said'
  BY SaidKept
<1>3. Said => HeardInTime
  BY DEF Said
<1>4. QED
  BY <1>1, <1>2, <1>3, TypeCorrect, SteadyHolds, PTL DEF Spec

\* A server that answers within ServerDelay keeps its connection: no ping
\* times out on it, when every timeout asked for fits its byte.
THEOREM ResponsiveKeptHolds == FitsByte => (Spec => ResponsiveKept)
<1> SUFFICES ASSUME FitsByte PROVE Spec => ResponsiveKept
  OBVIOUS
<1>1. Init => Responsive
  BY InitKeeps
<1>2. TypeOK /\ Steady /\ Responsive /\ [Next]_vars => Responsive'
  BY ResponsiveStays
<1>3. TypeOK /\ Responsive => (PingTimesOut => silent)
  <2> SUFFICES ASSUME TypeOK, Responsive, PingTimesOut, ~silent PROVE FALSE
    OBVIOUS
  <2>1. /\ activityTimeoutS \in Timeout /\ activityTimeoutS' \in Timeout
        /\ connected
        /\ Registered = 1
        /\ Response >= activityTimeoutS' + Grace
    BY TimeoutTypes DEF PingTimesOut, Online, ReadTimeout, GiveUpDue, TypeOK
  <2>2. inbox = {}
    <3>1. inbox # {} => Response = 0
      BY DEF Response
    <3>2. QED
      BY <2>1, <3>1, TimeoutTypes DEF Grace
  <2>3. Idle /\ Response = sinceResponse /\ activityTimeoutS' = activityTimeoutS
    BY <2>1, <2>2 DEF Idle, Registered, Response, PingTimesOut, ReadTimeout
  <2>4. owed = None \/ (owed \in Nat /\ owed <= ServerDelay)
    BY TimeoutTypes DEF TypeOK, None
  <2>5. CASE owed = None
    BY <2>1, <2>3, <2>5, TimeoutTypes DEF Responsive, TypeOK, Age, Grace
  <2>6. CASE owed # None
    BY <2>1, <2>3, <2>4, <2>6, TimeoutTypes
    DEF Responsive, TypeOK, Age, Grace
  <2>7. QED
    BY <2>5, <2>6
<1>4. TypeOK /\ Responsive /\ [Next]_vars => [PingTimesOut => silent]_vars
  BY <1>3
<1>5. QED
  BY <1>1, <1>2, <1>4, TypeCorrect, SteadyHolds, PTL DEF Spec, ResponsiveKept

\* A timeout that fits the byte is kept as asked for, or longer.
LEMMA TimeoutAtLeast ==
    FitsByte => \A asks \in Requested \cup {DefaultTimeout} :
                    ActivityTimeout(asks) >= asks
<1> SUFFICES ASSUME FitsByte, NEW asks \in Requested \cup {DefaultTimeout}
             PROVE  ActivityTimeout(asks) >= asks
  OBVIOUS
<1>1. asks \in 0 .. 255
  BY LinkAssumption DEF FitsByte
<1>2. QED
  BY <1>1 DEF ActivityTimeout, MinTimeout

\* No connection is given up before Grace after a timeout that was asked for,
\* when every timeout asked for fits its byte: the byte is all that is wrong
\* in the run link_timeout_byte.
THEOREM GivesUpWhenAskedHolds == FitsByte => (Spec => GivesUpWhenAsked)
<1> DEFINE Asked ==
      \E asks \in Requested \cup {DefaultTimeout} :
          /\ activityTimeoutS' = ActivityTimeout(asks)
          /\ sinceResponse >= asks + Grace
<1> SUFFICES ASSUME FitsByte PROVE Spec => GivesUpWhenAsked
  OBVIOUS
<1>1. TypeOK => (PingTimesOut => Asked)
  <2> SUFFICES ASSUME TypeOK, PingTimesOut PROVE Asked
    OBVIOUS
  <2>1. PICK asks \in Requested \cup {DefaultTimeout} :
            activityTimeoutS' = ActivityTimeout(asks)
    BY DEF PingTimesOut, ReadTimeout, TypeOK, Timeout
  <2>2. ActivityTimeout(asks) >= asks /\ asks \in Nat
        /\ ActivityTimeout(asks) \in 0 .. 255
    BY TimeoutAtLeast, TimeoutTypes, LinkAssumption
  <2>3. Response >= ActivityTimeout(asks) + Grace
    BY <2>1 DEF PingTimesOut, GiveUpDue
  <2>4. Response = sinceResponse
    BY <2>2, <2>3 DEF Response, Grace
  <2>5. sinceResponse >= asks + Grace
    BY <2>2, <2>3, <2>4, TimeoutTypes DEF TypeOK, Age, Grace
  <2>6. QED
    BY <2>1, <2>5
<1>2. TypeOK => [PingTimesOut => Asked]_vars
  BY <1>1
<1>3. QED
  BY <1>2, TypeCorrect, PTL DEF GivesUpWhenAsked

\* After two failures in a row, attempts are LongRetry apart.
THEOREM FailuresSpacedHolds == Spec => FailuresSpaced
<1>1. Init => Spaced
  BY InitKeeps
<1>2. TypeOK /\ Spaced /\ [Next]_vars => Spaced'
  BY SpacedKept
<1>3. TypeOK /\ Spaced =>
         ((ConnectFails \/ ConnectAndRegister) /\ failsInRow = 2
             => sinceFail = LongRetry)
  BY DEF Spaced, TypeOK, LongRetry, ConnectFails, ConnectAndRegister,
         Attempt, Ready
<1>4. TypeOK /\ Spaced /\ [Next]_vars =>
         [(ConnectFails \/ ConnectAndRegister) /\ failsInRow = 2
             => sinceFail = LongRetry]_vars
  BY <1>3
<1>5. QED
  BY <1>1, <1>2, <1>4, TypeCorrect, PTL DEF Spec, FailuresSpaced

----------------------------------------------------------------------------
(* The sessions                                                            *)

\* The device and the server agree on the session of the connection: one that
\* is used has been asked for, and its registration is answered once.
Agreed ==
    /\ connected => registered # 0
    /\ registered = -1 /\ owed # None => "accepted" \notin inbox
    /\ "versionError" \in inbox => registered = -1

\* Every step keeps the agreement on the session.
LEMMA AgreedKept ==
    ASSUME TypeOK, Steady, Agreed, [Next]_vars
    PROVE  Agreed'
<1>1. CASE IterateWaits
  BY <1>1
     DEF IterateWaits, Iterates, timers, client, server, history, None, Agreed,
         Steady, TypeOK
<1>2. CASE NoticeLoss
  BY <1>2
     DEF NoticeLoss, Ready, Iterates, server, None, Agreed, Steady, TypeOK
<1>3. CASE ConnectFails
  BY <1>3
     DEF ConnectFails, Attempt, Ready, Iterates, server, None, Agreed, Steady,
         TypeOK
<1>4. CASE ConnectAndRegister
  BY <1>4
     DEF ConnectAndRegister, Attempt, Ready, Iterates, None, Agreed, Steady,
         TypeOK
<1>5. CASE StillRegistering
  BY <1>5
     DEF StillRegistering, Online, Ready, Iterates, Registered, Response,
         client, history, None, Agreed, Steady, TypeOK
<1>6. CASE RegistrationTimesOut
  BY <1>6
     DEF RegistrationTimesOut, Online, Ready, Iterates, Registered, Response,
         EndConnection, Disconnect, Hangup, None, Agreed, Steady, TypeOK
<1>7. CASE Rejected
  BY <1>7
     DEF Rejected, Online, Ready, Iterates, Registered, Response,
         EndConnection, Disconnect, Hangup, None, Agreed, Steady, TypeOK
<1>8. CASE StayRegistered
  BY <1>8
     DEF StayRegistered, Online, Ready, Iterates, Registered, Response,
         ReadTimeout, GiveUpDue, PingDue, Reached, history, None, Agreed,
         Steady, TypeOK
<1>9. CASE PingTimesOut
  BY <1>9
     DEF PingTimesOut, Online, Ready, Iterates, Registered, Response,
         ReadTimeout, EndConnection, Disconnect, Hangup, None, Agreed, Steady,
         TypeOK
<1>10. CASE IterateFails
  BY <1>10
     DEF IterateFails, Online, Ready, Iterates, Response, Fault, EndConnection,
         Disconnect, Hangup, None, Agreed, Steady, TypeOK
<1>11. CASE VersionErrorFails
  BY <1>11
     DEF VersionErrorFails, Ready, Iterates, Response, EndConnection,
         Disconnect, Hangup, None, Agreed, Steady, TypeOK
<1>12. CASE VersionErrorGoesOn
  BY <1>12
     DEF VersionErrorGoesOn, Ready, Iterates, Hangup, None, Agreed, Steady,
         TypeOK
<1>13. CASE VersionErrorResets
  BY <1>13
     DEF VersionErrorResets, Ready, Iterates, Boot, Hangup, None, Agreed,
         Steady, TypeOK
<1>14. CASE RestartNetwork
  BY <1>14
     DEF RestartNetwork, Iterates, Disconnect, Hangup, None, Agreed, Steady,
         TypeOK
<1>15. CASE Restart
  BY <1>15
     DEF Restart, Fault, Boot, Hangup, Iterates, None, Agreed, Steady, TypeOK
<1>16. CASE NetworkLost
  BY <1>16
     DEF NetworkLost, Fault, Iterates, Disconnect, Hangup, None, Agreed,
         Steady, TypeOK
<1>17. CASE NetworkReady
  BY <1>17
     DEF NetworkReady, timers, client, server, history, None, Agreed, Steady,
         TypeOK
<1>18. CASE ElementSends
  BY <1>18
     DEF ElementSends, client, server, history, None, Agreed, Steady, TypeOK
<1>19. CASE ServerAnswers
  BY <1>19
     DEF ServerAnswers, Arrives, timers, client, history, None, Agreed, Steady,
         TypeOK
<1>20. CASE ServerRefuses
  BY <1>20
     DEF ServerRefuses, Arrives, Fault, timers, client, history, None, Agreed,
         Steady, TypeOK
<1>21. CASE ServerSetsTimeout
  BY <1>21
     DEF ServerSetsTimeout, Arrives, timers, client, history, None, Agreed,
         Steady, TypeOK
<1>22. CASE ServerSends
  BY <1>22
     DEF ServerSends, Arrives, timers, client, history, None, Agreed, Steady,
         TypeOK
<1>23. CASE ServerFallsSilent
  BY <1>23
     DEF ServerFallsSilent, Fault, timers, client, history, None, Agreed,
         Steady, TypeOK
<1>24. CASE ConnectionCloses
  BY <1>24
     DEF ConnectionCloses, Fault, Hangup, timers, history, None, Agreed,
         Steady, TypeOK
<1>25. CASE ServerGone
  BY <1>25
     DEF ServerGone, Fault, timers, client, history, None, Agreed, Steady,
         TypeOK
<1>26. CASE ServerBack
  BY <1>26
     DEF ServerBack, timers, client, history, None, Agreed, Steady, TypeOK
<1>27. CASE Tick
  BY <1>27
     DEF Tick, Older, client, history, None, Agreed, Steady, TypeOK
<1>28. CASE UNCHANGED vars
  BY <1>28
     DEF vars, timers, client, server, history, None, Agreed, Steady, TypeOK
<1>29. QED
  BY <1>1, <1>2, <1>3, <1>4, <1>5, <1>6, <1>7, <1>8, <1>9, <1>10, <1>11,
     <1>12, <1>13, <1>14, <1>15, <1>16, <1>17, <1>18, <1>19, <1>20, <1>21,
     <1>22, <1>23, <1>24, <1>25, <1>26, <1>27, <1>28
     DEF Next, Iterate, Server

\* Every step is a step of Session or leaves its variables alone.
LEMMA SessionStep ==
    ASSUME TypeOK, Steady, Agreed, [Next]_vars
    PROVE  [Link!Next]_Link!sessionVars
<1> USE DEF Link!Next, Link!sessionVars, Agreed, Steady, TypeOK, None
<1>1. CASE IterateWaits
  BY <1>1
     DEF IterateWaits, Iterates, timers, client, server, history
<1>2. CASE NoticeLoss
  BY <1>2
     DEF NoticeLoss, Ready, Iterates, server, Link!End
<1>3. CASE ConnectFails
  BY <1>3
     DEF ConnectFails, Attempt, Ready, Iterates, server
<1>4. CASE ConnectAndRegister
  BY <1>4
     DEF ConnectAndRegister, Attempt, Ready, Iterates, Link!Ask
<1>5. CASE StillRegistering
  BY <1>5
     DEF StillRegistering, Online, Ready, Iterates, Registered, Response,
         client, history
<1>6. CASE RegistrationTimesOut
  BY <1>6
     DEF RegistrationTimesOut, Online, Ready, Iterates, Registered, Response,
         EndConnection, Disconnect, Hangup, Link!End
<1>7. CASE Rejected
  BY <1>7
     DEF Rejected, Online, Ready, Iterates, Registered, Response,
         EndConnection, Disconnect, Hangup, Link!End
<1>8. CASE StayRegistered
  BY <1>8
     DEF StayRegistered, Online, Ready, Iterates, Registered, Response,
         ReadTimeout, GiveUpDue, PingDue, Reached, history, Link!Learn
<1>9. CASE PingTimesOut
  BY <1>9
     DEF PingTimesOut, Online, Ready, Iterates, Registered, Response,
         ReadTimeout, EndConnection, Disconnect, Hangup, Link!End
<1>10. CASE IterateFails
  BY <1>10
     DEF IterateFails, Online, Ready, Iterates, Response, Fault, EndConnection,
         Disconnect, Hangup, Link!End
<1>11. CASE VersionErrorFails
  BY <1>11
     DEF VersionErrorFails, Ready, Iterates, Response, EndConnection,
         Disconnect, Hangup, Link!End
<1>12. CASE VersionErrorGoesOn
  BY <1>12
     DEF VersionErrorGoesOn, Ready, Iterates, Hangup, Link!Vanish
<1>13. CASE VersionErrorResets
  BY <1>13
     DEF VersionErrorResets, Ready, Iterates, Boot, Hangup, Link!End
<1>14. CASE RestartNetwork
  BY <1>14
     DEF RestartNetwork, Iterates, Disconnect, Hangup, Link!End
<1>15. CASE Restart
  BY <1>15
     DEF Restart, Fault, Boot, Hangup, Iterates, Link!End
<1>16. CASE NetworkLost
  BY <1>16
     DEF NetworkLost, Fault, Iterates, Disconnect, Hangup, Link!End
<1>17. CASE NetworkReady
  BY <1>17
     DEF NetworkReady, timers, client, server, history
<1>18. CASE ElementSends
  BY <1>18
     DEF ElementSends, client, server, history
<1>19. CASE ServerAnswers
  BY <1>19
     DEF ServerAnswers, Arrives, timers, client, history, Link!Grant
<1>20. CASE ServerRefuses
  BY <1>20
     DEF ServerRefuses, Arrives, Fault, timers, client, history
<1>21. CASE ServerSetsTimeout
  BY <1>21
     DEF ServerSetsTimeout, Arrives, timers, client, history
<1>22. CASE ServerSends
  BY <1>22
     DEF ServerSends, Arrives, timers, client, history
<1>23. CASE ServerFallsSilent
  BY <1>23
     DEF ServerFallsSilent, Fault, timers, client, history
<1>24. CASE ConnectionCloses
  BY <1>24
     DEF ConnectionCloses, Fault, Hangup, timers, history, Link!Vanish
<1>25. CASE ServerGone
  BY <1>25
     DEF ServerGone, Fault, timers, client, history
<1>26. CASE ServerBack
  BY <1>26
     DEF ServerBack, timers, client, history
<1>27. CASE Tick
  BY <1>27
     DEF Tick, Older, client, history
<1>28. CASE UNCHANGED vars
  BY <1>28
     DEF vars, timers, client, server, history
<1>29. QED
  BY <1>1, <1>2, <1>3, <1>4, <1>5, <1>6, <1>7, <1>8, <1>9, <1>10, <1>11,
     <1>12, <1>13, <1>14, <1>15, <1>16, <1>17, <1>18, <1>19, <1>20, <1>21,
     <1>22, <1>23, <1>24, <1>25, <1>26, <1>27, <1>28
     DEF Next, Iterate, Server

\* The link implements Session, whatever its constants: what the run
\* server_link checks of RunsSessions, its fairness excepted.
THEOREM RunsSessionsSafely == Spec => Link!Safety
<1>1. Init => Agreed /\ Link!Init
  BY DEF Init, Agreed, Link!Init
<1>2. TypeOK /\ Steady /\ Agreed /\ [Next]_vars => Agreed'
  BY AgreedKept
<1>3. TypeOK /\ Steady /\ Agreed /\ [Next]_vars =>
          [Link!Next]_Link!sessionVars
  BY SessionStep
<1>4. QED
  BY <1>1, <1>2, <1>3, TypeCorrect, SteadyHolds, PTL DEF Spec, Link!Safety

=============================================================================
