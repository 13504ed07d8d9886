---------------------------- MODULE Relay_proofs ----------------------------
(***************************************************************************)
(* What Relay promises and VirtualRelay keeps, for every clock width,      *)
(* save period, delay and countdown: proofs of the properties that the     *)
(* run relay_countdown checks on a clock of six ticks.                     *)
(***************************************************************************)
EXTENDS Relay, TLAPS

(* Arithmetic of millis(): sums and differences stay on the clock, and a   *)
(* tick makes a distance one larger unless the distance wraps.             *)
LEMMA ClockRange ==
    ASSUME NEW t \in Time, NEW u \in Time, NEW d \in 0 .. HalfSpan
    PROVE  /\ Since(t, u) \in Time
           /\ After(t, d) \in Time
           /\ Since(t, t) = 0
BY SaveScheduleAssumption DEF Time, TimeSpan, Since, After

LEMMA TickDistance ==
    ASSUME NEW t \in Time, NEW u \in Time, Since(t, u) < TimeSpan - 1
    PROVE  Since(After(t, 1), u) = Since(t, u) + 1
BY SaveScheduleAssumption DEF Time, TimeSpan, Since, After

(* scheduleSave puts the next save between DelayMin and DelayMax ahead,    *)
(* whatever lastWriteTimestamp was: the two bounds of ScheduleSave(5000,   *)
(* 2000) hold on every clock, wrapped or not.                              *)
LEMMA ScheduledInTime ==
    ASSUME NEW last \in Time, NEW t \in Time
    PROVE  /\ ScheduledWrite(last, t) \in Time
           /\ Since(t, ScheduledWrite(last, t))
                  \in Period - DelayMax .. Period - DelayMin
           /\ ~SaveAllowed(ScheduledWrite(last, t), t)
<1> USE SaveScheduleAssumption DEF Time, TimeSpan
<1> DEFINE next     == After(last, Period)
           latest   == After(t, DelayMax)
           earliest == After(t, DelayMin)
           wanted   == IF Earlier(next, latest) THEN next ELSE latest
           bounded  == IF Earlier(wanted, earliest) THEN earliest ELSE wanted
<1>1. next \in Time /\ latest \in Time /\ earliest \in Time
  BY DEF After
<1>2. /\ Since(latest, t) = DelayMax
      /\ Since(earliest, t) = DelayMin
  BY DEF Since, After
<1>3. ASSUME NEW n \in Time, Earlier(n, latest), ~Earlier(n, earliest)
      PROVE  Since(n, t) \in DelayMin .. DelayMax
  BY <1>1, <1>3 DEF Since, After, Earlier
<1>4. bounded \in Time /\ Since(bounded, t) \in DelayMin .. DelayMax
  <2>1. CASE Earlier(wanted, earliest)
    BY <1>1, <1>2, <2>1
  <2>2. CASE ~Earlier(wanted, earliest) /\ Earlier(next, latest)
    BY <1>1, <1>3, <2>2
  <2>3. CASE ~Earlier(wanted, earliest) /\ ~Earlier(next, latest)
    BY <1>1, <1>2, <2>3
  <2>4. QED
    BY <2>1, <2>2, <2>3
<1>5. ASSUME NEW b \in Time, Since(b, t) \in DelayMin .. DelayMax
      PROVE  /\ Since(b, Period) \in Time
             /\ Since(t, Since(b, Period)) = Period - Since(b, t)
  BY <1>5 DEF Since
<1>6. ScheduledWrite(last, t) = Since(bounded, Period)
  BY DEF ScheduledWrite
<1> HIDE DEF next, latest, earliest, wanted, bounded
<1>7. QED
  BY <1>4, <1>5, <1>6 DEF SaveAllowed

----------------------------------------------------------------------------
(* Types                                                                   *)

LEMMA Labels ==
    /\ {"idle", "state", "duration", "stored", "test", "arm", "disarm",
        "schedule", "restore", "save", "store", "flags"} \subseteq Label
    /\ {"loop", "timer"} \subseteq Task
BY DEF Label, CommandStep, SaveStep, Task

(* Values that commands, saves and restarts write are in range.            *)
LEMMA Ranges ==
    /\ 0 \in Time /\ 1 \in Time
    /\ 0 \in 0 .. Longest /\ None \in None .. Longest
    /\ DefaultTime \in 0 .. Longest
    /\ Durations \subseteq 0 .. Longest
    /\ StaircaseTimes \subseteq 0 .. Longest
    /\ {None, 0} \subseteq None .. DelayMax + 1
    /\ 0 .. Longest \subseteq None .. Longest
    /\ 0 \in 0 .. MaxLag
    /\ NoDraft \in Draft /\ Blank \in Record
    /\ \A d \in 0 .. Longest : PromiseOf(d) \in None .. Longest
BY RelayAssumption, SaveScheduleAssumption
   DEF Time, TimeSpan, Longest, None, NoDraft, Draft, Blank, Record, PromiseOf

(* A task's step changes its own label only.                               *)
LEMMA GotoType ==
    ASSUME TypeOK, NEW t \in Task, NEW label \in Label, Goto(t, label)
    PROVE  /\ pc' \in [Task -> Label]
           /\ pc'[t] = label /\ pc'[Other(t)] = pc[Other(t)]
BY DEF TypeOK, Goto, Other, Task

(* A command begins in range.                                              *)
LEMMA EnterTypes ==
    ASSUME TypeOK, NEW t \in Task, NEW label \in Label, Enter(t, label)
    PROVE  /\ pc' \in [Task -> Label]
           /\ raced' \in BOOLEAN
           /\ promised' \in None .. Longest
<1>1. pc' \in [Task -> Label]
  BY GotoType DEF Enter
<1>2. raced' \in BOOLEAN
  BY DEF Enter, Inside
<1>3. promised' \in None .. Longest
  BY Ranges DEF Enter, TypeOK
<1>4. QED
  BY <1>1, <1>2, <1>3

LEMMA AskedType ==
    ASSUME TypeOK, NEW t \in Task
    PROVE  /\ Asked(t) \in 0 .. Longest
           /\ Promise(t) \in None .. Longest
BY Ranges DEF TypeOK, Asked, Promise

LEMMA LeaveTypes ==
    ASSUME TypeOK, NEW t \in Task, Leave(t)
    PROVE  /\ pc' \in [Task -> Label]
           /\ target' \in [Task -> BOOLEAN]
           /\ argument' \in [Task -> 0 .. Longest]
           /\ copyDurationMs' \in None .. Longest
<1> DEFINE label == IF t = "loop" /\ copyDurationMs # None THEN "restore"
                                                            ELSE "idle"
<1>1. label \in Label
  BY Labels
<1>2. Goto(t, label)
  BY DEF Leave
<1> HIDE DEF label
<1>3. pc' \in [Task -> Label]
  BY <1>1, <1>2, GotoType
<1>4. QED
  BY <1>3, Ranges DEF Leave, TypeOK

(* The statements of a command keep the types.                             *)
LEMMA CommandTypes ==
    ASSUME TypeOK, TaskInv, NEW t \in Task, CommandStatement(t)
    PROVE  TypeOK'
<1>0. UNCHANGED <<now, func, initDone, savingVars, flashVars, raced>>
  BY DEF CommandStatement
<1>1. CASE SetState(t)
  <2>1. target[t] \in BOOLEAN
    BY DEF TypeOK
  <2>2. CASE initDone
    BY <1>0, <1>1, <2>1, <2>2, GotoType, Labels
       DEF SetState, TypeOK, savingVars, flashVars, timerVars, commandVars
  <2>3. CASE ~initDone
    <3>1. promised' \in None .. Longest
      BY <1>1, <2>3, AskedType, Ranges DEF SetState
    <3>2. QED
      BY <1>0, <1>1, <2>1, <2>3, <3>1, LeaveTypes, Ranges
         DEF SetState, TypeOK, savingVars, flashVars, timerVars
  <2>4. QED
    BY <2>2, <2>3
<1>2. CASE SetDuration(t)
  <2>1. (IF IsStaircase /\ target[t] THEN "stored" ELSE "test") \in Label
    BY Labels
  <2>2. pc' \in [Task -> Label]
    BY <1>2, <2>1, GotoType DEF SetDuration
  <2>3. QED
    BY <1>0, <1>2, <2>2, AskedType
       DEF SetDuration, TypeOK, savingVars, flashVars
<1>3. CASE SetStoredDuration(t)
  BY <1>0, <1>3, GotoType, Labels
     DEF SetStoredDuration, TypeOK, savingVars, flashVars, commandVars
<1>4. CASE TestDuration(t)
  <2>1. (IF durationMs # 0 THEN "arm" ELSE "disarm") \in Label
    BY Labels
  <2>2. pc' \in [Task -> Label]
    BY <1>4, <2>1, GotoType DEF TestDuration
  <2>3. QED
    BY <1>0, <1>4, <2>2
       DEF TestDuration, TypeOK, savingVars, flashVars, commandVars,
           relayVars, timerVars
<1>5. CASE SetTimestamp(t)
  <2>1. durationTimestamp' \in Time
    BY <1>5, Ranges DEF SetTimestamp, TypeOK
  <2>2. QED
    BY <1>0, <1>5, <2>1, GotoType, Labels, AskedType, Ranges
       DEF SetTimestamp, TypeOK, savingVars, flashVars
<1>6. CASE ScheduleSave(t)
  <2>1. lastWriteTimestamp' \in Time
    BY <1>6, ScheduledInTime DEF ScheduleSave, TypeOK
  <2>2. QED
    BY <1>0, <1>6, <2>1, LeaveTypes, Ranges
       DEF ScheduleSave, TypeOK, savingVars, flashVars, relayVars, timerVars
<1>7. CASE RestoreStored(t)
  <2>1. t = "loop" /\ copyDurationMs # None
    BY <1>7 DEF RestoreStored, TaskInv, Task
  <2>2. copyDurationMs \in 0 .. Longest
    BY <2>1 DEF TypeOK, None, Longest
  <2>3. QED
    BY <1>0, <1>7, <2>2, GotoType, Labels, Ranges
       DEF RestoreStored, TypeOK, savingVars, flashVars, timerVars
<1>8. QED
  BY <1>1, <1>2, <1>3, <1>4, <1>5, <1>6, <1>7 DEF CommandStatement

(* What a restart reads from flash is in range.                            *)
LEMMA LoadedTypes ==
    ASSUME NEW record \in Record
    PROVE  /\ LoadedStaircaseTime(record) \in 0 .. Longest
           /\ LoadedDuration(record) \in 0 .. Longest
           /\ PromiseOf(LoadedDuration(record)) \in None .. Longest
           /\ record.on \in BOOLEAN /\ record.duration \in 0 .. Longest
BY Ranges DEF Record, LoadedStaircaseTime, LoadedDuration

(* Boot leaves every variable but those of flash and the function in range. *)
LEMMA BootTypes ==
    ASSUME TypeOK, NEW record \in Record, Boot(record), UNCHANGED func,
           saved' \in Record, savedPromise' \in None .. Longest
    PROVE  TypeOK'
<1>1. ScheduledWrite(0, 1) \in Time
  BY Ranges, ScheduledInTime
<1>2. /\ pc' \in [Task -> Label]
      /\ target' \in [Task -> BOOLEAN]
      /\ argument' \in [Task -> 0 .. Longest]
  BY Labels, Ranges DEF Boot
<1>3. /\ (IF LoadedDuration(record) = 0 THEN 0 ELSE 1) \in Time
      /\ (IF IsStaircase THEN 0 ELSE record.duration) \in 0 .. Longest
  BY Ranges, LoadedTypes
<1>4. initDone' \in BOOLEAN
  BY DEF Boot, IsVirtual
<1>5. CASE IsVirtual
  BY <1>1, <1>2, <1>3, <1>4, <1>5, Ranges, LoadedTypes DEF Boot, TypeOK
<1>6. CASE ~IsVirtual
  BY <1>1, <1>2, <1>3, <1>4, <1>6, Ranges, LoadedTypes DEF Boot, TypeOK
<1>7. QED
  BY <1>5, <1>6

(* What onSaveState reads is in range.                                     *)
LEMMA RemainingType ==
    ASSUME TypeOK
    PROVE  RemainingTime \in 0 .. Longest /\ Iterated \in Time
BY RelayAssumption, SaveScheduleAssumption
   DEF TypeOK, Longest, RemainingTime, Iterated, Since, Time, TimeSpan

(* The types hold initially ...                                            *)
LEMMA TypeCorrectInit == Init => TypeOK /\ TaskInv
<1> SUFFICES ASSUME Init PROVE TypeOK /\ TaskInv
  OBVIOUS
<1>1. ScheduledWrite(0, 1) \in Time
  BY Ranges, ScheduledInTime
<1>2. initDone \in BOOLEAN /\ initDone = IsVirtual
  BY Zenon DEF Init, IsVirtual
<1>3. /\ pc \in [Task -> Label]
      /\ target \in [Task -> BOOLEAN]
      /\ argument \in [Task -> 0 .. Longest]
  BY Labels, Ranges DEF Init
<1>4. TypeOK
  BY <1>1, <1>2, <1>3, Ranges DEF Init, TypeOK
<1>5. TaskInv
  BY <1>2 DEF Init, TaskInv, Task, SaveStep, NoDraft
<1>6. QED
  BY <1>4, <1>5

(* ... and are kept by every step.                                         *)
LEMMA TypeCorrectStep ==
    ASSUME TypeOK, TaskInv, [Next]_vars
    PROVE  TypeOK'
<1> USE DEF TypeOK
<1>1. CASE Restart
  BY <1>1, BootTypes DEF Restart, flashVars
<1>2. CASE \E d \in Durations : ServerTurnOn(d) \/ ServerTurnOff(d)
  <2>1. PICK d \in Durations : ServerTurnOn(d) \/ ServerTurnOff(d)
    BY <1>2
  <2>2. Enter("loop", "state") /\ "loop" \in Task /\ "state" \in Label
    BY <2>1, Labels DEF ServerTurnOn, ServerTurnOff
  <2>3. /\ pc' \in [Task -> Label] /\ raced' \in BOOLEAN
        /\ promised' \in None .. Longest
    BY <2>2, EnterTypes
  <2>4. UNCHANGED outside /\ UNCHANGED draft
    BY <2>1 DEF ServerTurnOn, ServerTurnOff
  <2>5. d \in 0 .. Longest /\ (IF IsStaircase THEN 0 ELSE d) \in 0 .. Longest
    BY Ranges
  <2>6. /\ target' \in [Task -> BOOLEAN]
        /\ argument' \in [Task -> 0 .. Longest]
    BY <2>1, <2>5 DEF ServerTurnOn, ServerTurnOff
  <2>7. /\ copyDurationMs' \in None .. Longest
        /\ storedTurnOnDurationMs' \in 0 .. Longest
    BY <2>1, Ranges DEF ServerTurnOn, ServerTurnOff
  <2>8. QED
    BY <2>3, <2>4, <2>6, <2>7 DEF outside, timerVars, flashVars
<1>3. CASE ButtonToggle
  <2>1. /\ pc' \in [Task -> Label] /\ raced' \in BOOLEAN
        /\ promised' \in None .. Longest
    BY <1>3, EnterTypes, Labels DEF ButtonToggle
  <2>2. draft' \in Draft
    BY <1>3, Ranges DEF ButtonToggle, Draft
  <2>3. QED
    BY <1>3, <2>1, <2>2 DEF ButtonToggle, outside, timerVars, flashVars
<1>4. ASSUME NEW t \in StaircaseTimes, ServerStaircaseTime(t)
      PROVE  TypeOK'
  <2>1. ScheduledWrite(lastWriteTimestamp, now) \in Time
    BY ScheduledInTime
  <2>2. raced' \in BOOLEAN /\ promised' \in None .. Longest
    BY <1>4, Ranges DEF ServerStaircaseTime, Inside
  <2>3. QED
    BY <1>4, <2>1, <2>2, Ranges
       DEF ServerStaircaseTime, timerVars, flashVars, commandVars, savingVars
<1>5. ASSUME NEW t \in Task, CommandStatement(t)
      PROVE  TypeOK'
  BY <1>5, CommandTypes
<1>6. CASE Expire
  <2>1. /\ pc' \in [Task -> Label] /\ raced' \in BOOLEAN
        /\ promised' \in None .. Longest
    BY <1>6, EnterTypes, Labels DEF Expire
  <2>2. QED
    BY <1>6, <2>1 DEF Expire, outside, timerVars, flashVars
<1>7. ASSUME NEW label \in {"idle", "save", "store", "flags"},
             Goto("loop", label), UNCHANGED saveless,
             lastWriteTimestamp' \in Time, draft' \in Draft,
             lag' \in 0 .. MaxLag, restarting' \in BOOLEAN,
             saved' \in Record, savedPromise' \in None .. Longest,
             unsaved' \in None .. DelayMax + 1
      PROVE  TypeOK'
  BY <1>7, GotoType, Labels DEF saveless, relayVars, timerVars, commandVars
<1>8. CASE Poll
  BY <1>7, <1>8, Labels DEF Poll, savingVars, flashVars
<1>9. CASE AllowSave
  BY <1>7, <1>9, Labels DEF AllowSave, savingVars, flashVars
<1>10. CASE SkipSave
  BY <1>7, <1>10, Labels, Ranges DEF SkipSave, savingVars, flashVars
<1>11. CASE BeginSoftRestart
  BY <1>7, <1>11, Labels DEF BeginSoftRestart, savingVars, flashVars
<1>12. CASE SaveDuration
  <2>1. draft' \in Draft
    BY <1>12, RemainingType, Ranges DEF SaveDuration, Draft
  <2>2. lastWriteTimestamp' \in Time
    BY <1>12, RemainingType DEF SaveDuration
  <2>3. QED
    BY <1>7, <1>12, <2>1, <2>2, Labels, Ranges DEF SaveDuration, flashVars
<1>13. ASSUME WriteRecord
       PROVE  saved' \in Record /\ savedPromise' \in None .. Longest
  BY <1>13 DEF WriteRecord, Record, Draft
<1>14. CASE SaveFlags
  BY <1>7, <1>13, <1>14, Labels, Ranges DEF SaveFlags
<1>15. CASE SoftRestart
  BY <1>13, <1>15, BootTypes DEF SoftRestart
<1>16. CASE Tick
  <2>1. After(now, 1) \in Time
    BY ClockRange, SaveScheduleAssumption
  <2>2. Later(promised) \in None .. Longest
    BY SaveScheduleAssumption DEF Later, None, Longest
  <2>3. Sooner(unsaved) \in None .. DelayMax + 1
    BY SaveScheduleAssumption DEF Sooner, None
  <2>4. lag' \in 0 .. MaxLag
    BY <1>16, RelayAssumption DEF Tick
  <2>5. QED
    BY <1>16, <2>1, <2>2, <2>3, <2>4
       DEF Tick, relayVars, timerVars, flashVars, commandVars
<1>17. CASE UNCHANGED vars
  BY <1>17 DEF vars, relayVars, timerVars, flashVars, commandVars, savingVars
<1>18. QED
  BY <1>1, <1>2, <1>3, <1>4, <1>5, <1>6, <1>8, <1>9, <1>10, <1>11, <1>12,
     <1>14, <1>15, <1>16, <1>17 DEF Next, Iterate, Save

(* Where a statement of a command leaves its task.                         *)
LEMMA CommandGoto ==
    ASSUME TypeOK, TaskInv, NEW t \in Task, CommandStatement(t)
    PROVE  /\ pc[t] \in CommandStep
           /\ pc'[t] \in CommandStep \cup {"idle"}
           /\ pc'[Other(t)] = pc[Other(t)]
           /\ pc'[t] = "restore" => t = "loop" /\ copyDurationMs' # None
           /\ copyDurationMs' # None => copyDurationMs # None
           /\ copyDurationMs' # None /\ t = "loop" => pc'[t] # "idle"
<1> USE DEF CommandStep
<1>0. t \in {"loop", "timer"} /\ Other(t) # t /\ pc \in [Task -> Label]
  BY DEF Task, Other, TypeOK
<1>1. CASE SetState(t) /\ initDone
  <2>1. /\ pc[t] = "state" /\ pc' = [pc EXCEPT ![t] = "duration"]
        /\ copyDurationMs' = copyDurationMs
    BY <1>1 DEF SetState, Goto, commandVars
  <2>2. QED
    BY <1>0, <2>1
<1>2. ASSUME Leave(t), pc[t] \in {"state", "schedule"}
      PROVE  /\ pc'[t] \in {"restore", "idle"}
             /\ pc'[Other(t)] = pc[Other(t)]
             /\ pc'[t] = "restore" => t = "loop" /\ copyDurationMs' # None
             /\ copyDurationMs' = copyDurationMs
             /\ copyDurationMs' # None /\ t = "loop" => pc'[t] # "idle"
  BY <1>0, <1>2 DEF Leave, Goto
<1>3. CASE SetState(t) /\ ~initDone
  BY <1>2, <1>3 DEF SetState
<1>4. CASE SetDuration(t)
  BY <1>0, <1>4 DEF SetDuration, Goto
<1>5. CASE SetStoredDuration(t)
  BY <1>0, <1>5 DEF SetStoredDuration, Goto, commandVars
<1>6. CASE TestDuration(t)
  BY <1>0, <1>6 DEF TestDuration, Goto, commandVars
<1>7. CASE SetTimestamp(t)
  BY <1>0, <1>7 DEF SetTimestamp, Goto
<1>8. CASE ScheduleSave(t)
  BY <1>2, <1>8 DEF ScheduleSave
<1>9. CASE RestoreStored(t)
  BY <1>0, <1>9 DEF RestoreStored, Goto
<1>10. QED
  BY <1>1, <1>3, <1>4, <1>5, <1>6, <1>7, <1>8, <1>9 DEF CommandStatement

(* The tasks stay where they may be.                                       *)
LEMMA TaskStep ==
    ASSUME TypeOK, TaskInv, [Next]_vars
    PROVE  TaskInv'
<1> USE DEF TaskInv, Inside
<1>0. pc \in [Task -> Label] /\ {"loop", "timer"} \subseteq Task
  BY Labels DEF TypeOK
<1>1. CASE Restart \/ SoftRestart
  <2>1. PICK record : Boot(record)
    BY <1>1, Zenon DEF Restart, SoftRestart
  <2>2. QED
    BY <1>0, <2>1, <1>0 DEF Boot, NoDraft, CommandStep, SaveStep
<1>2. ASSUME NEW t \in Task, Goto(t, "state"), initDone' = initDone,
             t = "timer" => /\ UNCHANGED <<copyDurationMs, lag, restarting>>
                            /\ draft'.promise = None,
             t = "loop" => /\ pc["loop"] = "idle"
                           /\ UNCHANGED <<lag, restarting, draft>>
      PROVE  TaskInv'
  BY <1>0, <1>2 DEF Goto, Task, CommandStep, SaveStep
<1>3. CASE \E d \in Durations : ServerTurnOn(d) \/ ServerTurnOff(d)
  BY <1>0, <1>2, <1>3 DEF ServerTurnOn, ServerTurnOff, Enter, outside
<1>4. CASE ButtonToggle
  <2>1. draft'.promise = None
    BY <1>4 DEF ButtonToggle, TypeOK, Draft
  <2>2. QED
    BY <1>0, <1>2, <1>4, <2>1 DEF ButtonToggle, Enter, outside
<1>5. CASE Expire
  BY <1>0, <1>2, <1>5 DEF Expire, Enter, outside
<1>6. CASE \E t \in StaircaseTimes : ServerStaircaseTime(t)
  BY <1>6 DEF ServerStaircaseTime, commandVars, savingVars
<1>7. ASSUME NEW t \in Task, CommandStatement(t)
      PROVE  TaskInv'
  <2>1. UNCHANGED <<initDone, draft, lag, restarting>>
    BY <1>7 DEF CommandStatement, savingVars
  <2>2. CASE t = "loop"
    <3>1. /\ pc'["loop"] \in CommandStep \cup {"idle"}
          /\ pc'["timer"] = pc["timer"]
      BY <1>7, <2>2, CommandGoto DEF Other
    <3>2. pc["loop"] \in CommandStep
      BY <1>7, <2>2, CommandGoto
    <3>3. QED
      BY <1>7, <2>1, <2>2, <3>1, <3>2, CommandGoto DEF CommandStep, SaveStep
  <2>3. CASE t = "timer"
    <3>1. pc'["timer"] \in CommandStep \cup {"idle"} /\ pc'["loop"] = pc["loop"]
      BY <1>7, <2>3, CommandGoto DEF Other
    <3>2. pc'["timer"] # "restore"
      BY <1>7, <2>3, CommandGoto
    <3>3. copyDurationMs' = copyDurationMs
      <4>1. ~RestoreStored("timer")
        BY DEF RestoreStored
      <4>2. QED
        BY <1>7, <2>3, <4>1
           DEF CommandStatement, SetState, SetDuration, SetStoredDuration,
               TestDuration, SetTimestamp, ScheduleSave, Leave, commandVars
    <3>4. QED
      BY <2>1, <3>1, <3>2, <3>3 DEF CommandStep, SaveStep
  <2>4. QED
    BY <2>2, <2>3 DEF Task
<1>8. CASE Poll
  BY <1>0, <1>8
     DEF Poll, Goto, saveless, savingVars, commandVars, CommandStep, SaveStep
<1>9. CASE AllowSave
  BY <1>0, <1>9 DEF AllowSave, Goto, saveless, savingVars, commandVars,
                    CommandStep, SaveStep
<1>10. CASE SkipSave
  BY <1>0, <1>10
     DEF SkipSave, Goto, saveless, commandVars, CommandStep, SaveStep
<1>11. CASE BeginSoftRestart
  BY <1>0, <1>11
     DEF BeginSoftRestart, Goto, saveless, commandVars, CommandStep, SaveStep
<1>12. CASE SaveDuration
  BY <1>0, <1>12
     DEF SaveDuration, Goto, saveless, commandVars, CommandStep, SaveStep
<1>13. CASE SaveFlags
  BY <1>0, <1>13 DEF SaveFlags, WriteRecord, Goto, saveless, commandVars,
                     NoDraft, CommandStep, SaveStep
<1>14. CASE Tick
  BY <1>14 DEF Tick, commandVars
<1>15. CASE UNCHANGED vars
  BY <1>15 DEF vars, commandVars, savingVars
<1>16. QED
  BY <1>1, <1>3, <1>4, <1>5, <1>6, <1>7, <1>8, <1>9, <1>10, <1>11, <1>12,
     <1>13, <1>14, <1>15 DEF Next, Iterate, Save

(* Types, for both classes of relay.                                       *)
THEOREM TypeCorrect == Spec => []TypeOK
<1>1. TypeOK /\ TaskInv /\ [Next]_vars => TypeOK' /\ TaskInv'
  BY TypeCorrectStep, TaskStep
<1>2. QED
  BY <1>1, TypeCorrectInit, PTL DEF Spec

----------------------------------------------------------------------------
(* What the BistableRelay of the board does                                *)

(* The board's relay ends no countdown, whatever is asked of it, and what  *)
(* it was restarted with is all it ever keeps of one: a command neither    *)
(* starts a countdown nor stops the one a restart has loaded.              *)
THEOREM BistableNeverCounts ==
    ASSUME ~IsVirtual
    PROVE  Spec => [][~Expire /\ (UNCHANGED timerVars \/ Restarts)]_vars
<1> DEFINE Idle == /\ TypeOK /\ TaskInv
                   /\ \A t \in Task : pc[t] \notin {"duration", "stored",
                                           "test", "arm", "disarm", "schedule"}
<1>1. Init => Idle
  BY TypeCorrectInit DEF Init
<1>2. ASSUME Idle, [Next]_vars
      PROVE  /\ Idle'
             /\ ~Expire
             /\ UNCHANGED timerVars \/ Restarts
  <2> USE DEF TaskInv
  <2>0. TypeOK' /\ TaskInv' /\ ~initDone /\ pc \in [Task -> Label]
        /\ {"loop", "timer"} \subseteq Task
    BY <1>2, TypeCorrectStep, TaskStep, Labels DEF TypeOK
  <2>1. ~Expire
    BY <2>0 DEF Expire, TimerDue
  <2>2. CASE Restarts
    BY <2>0, <2>1, <2>2 DEF Restarts, Restart, SoftRestart, Boot
  <2>3. ASSUME NEW t \in Task, CommandStatement(t)
        PROVE  /\ \E label \in {"idle", "restore"} : Goto(t, label)
               /\ UNCHANGED timerVars
    BY <1>2, <2>0, <2>3
       DEF CommandStatement, SetState, SetDuration, SetStoredDuration,
           TestDuration, SetTimestamp, ScheduleSave, RestoreStored, Leave,
           timerVars
  <2>4. ASSUME NEW t \in Task,
               NEW label \in {"idle", "state", "restore"} \cup SaveStep,
               Goto(t, label)
        PROVE  Idle'
    BY <1>2, <2>0, <2>4 DEF Goto, SaveStep
  <2>5. CASE \E t \in Task : CommandStatement(t)
    BY <2>1, <2>3, <2>4, <2>5
  <2>6. CASE \/ \E d \in Durations : ServerTurnOn(d) \/ ServerTurnOff(d)
             \/ ButtonToggle
    BY <2>0, <2>1, <2>4, <2>6
       DEF ServerTurnOn, ServerTurnOff, ButtonToggle, Enter, outside, timerVars
  <2>7. CASE \/ Poll \/ AllowSave \/ SkipSave \/ BeginSoftRestart
             \/ SaveDuration \/ SaveFlags
    <3>1. \E label \in {"idle"} \cup SaveStep : Goto("loop", label)
      BY <2>7 DEF Poll, AllowSave, SkipSave, BeginSoftRestart, SaveDuration,
                  SaveFlags, SaveStep
    <3>2. UNCHANGED timerVars
      BY <2>7 DEF Poll, AllowSave, SkipSave, BeginSoftRestart, SaveDuration,
                  SaveFlags, saveless, relayVars
    <3>3. QED
      BY <2>0, <2>1, <2>4, <3>1, <3>2
  <2>8. CASE \/ \E t \in StaircaseTimes : ServerStaircaseTime(t)
             \/ Tick
             \/ UNCHANGED vars
    <3>1. UNCHANGED <<pc, timerVars>>
      BY <2>8 DEF ServerStaircaseTime, Tick, vars, relayVars
    <3>2. QED
      BY <1>2, <2>0, <2>1, <3>1
  <2>9. QED
    BY <1>2, <2>1, <2>2, <2>5, <2>6, <2>7, <2>8
       DEF Next, Iterate, Save, Restarts
<1> HIDE DEF Idle
<1>3. Idle /\ [Next]_vars => Idle' /\
          [~Expire /\ (UNCHANGED timerVars \/ Restarts)]_vars
  BY <1>2
<1>4. QED
  BY <1>1, <1>3, PTL DEF Spec

----------------------------------------------------------------------------
(* The inductive invariant of VirtualRelay: the timer                      *)

(* What a save writes for a countdown is what is left of it.               *)
LEMMA RemainingIsPromised ==
    ASSUME TypeOK, TimerAgrees, promised >= 0, durationTimestamp # 0
    PROVE  RemainingTime = promised
<1> USE SaveScheduleAssumption
    DEF TypeOK, TimerAgrees, RemainingTime, None, Time, TimeSpan, Longest
<1>1. CASE promised > 0
  BY <1>1
<1>2. CASE promised = 0
  <2>1. Since(now, durationTimestamp) >= durationMs
    BY <1>2
  <2>2. Since(now, durationTimestamp) \in Int /\ durationMs \in Int
    BY DEF Since
  <2>3. QED
    BY <1>2, <2>1, <2>2
<1>3. QED
  BY <1>1, <1>2

(* Outside the commands of an undisturbed relay the timer agrees.          *)
LEMMA AtRest ==
    ASSUME TimerInv, ~raced, \A t \in Task : ~Inside(t)
    PROVE  TimerAgrees
BY DEF TimerInv, Inside

(* Steps that neither enter a command nor touch the timer.                 *)
LEMMA TimerKept ==
    ASSUME TimerInv,
           UNCHANGED <<now, func, durationMs, durationTimestamp,
                       storedTurnOnDurationMs, argument, promised, raced>>,
           \A t \in Task : \/ pc'[t] = pc[t]
                           \/ ~Inside(t) /\ ~Inside(t)'
    PROVE  TimerInv'
BY DEF TimerInv, TimerAgrees, Inside, CommandStep

(* A command that begins is alone, or it races.                            *)
LEMMA EnterTimer ==
    ASSUME TypeOK, NEW t \in Task, Enter(t, "state")
    PROVE  TimerInv'
<1> SUFFICES ASSUME ~raced' PROVE TimerInv'
  BY DEF TimerInv
<1>1. /\ pc'[t] = "state" /\ pc'[Other(t)] = pc[Other(t)]
      /\ ~Inside(Other(t))
  BY GotoType, Labels DEF Enter
<1>2. Other(t) \in Task /\ \A u \in Task : u = t \/ u = Other(t)
  BY DEF Task, Other
<1>3. ~Inside(Other(t))'
  BY <1>1 DEF Inside
<1>4. QED
  BY <1>1, <1>2, <1>3 DEF TimerInv, Inside, CommandStep

(* The statements of a command that is alone start the countdown it asks   *)
(* for.                                                                    *)
LEMMA CommandTimer ==
    ASSUME TypeOK, TaskInv, IsVirtual, TimerInv,
           NEW t \in Task, CommandStatement(t)
    PROVE  TimerInv'
<1> SUFFICES ASSUME ~raced PROVE TimerInv'
  BY DEF TimerInv, CommandStatement
<1> DEFINE o == Other(t)
<1>1. /\ o \in Task /\ o # t /\ \A u \in Task : u = t \/ u = o
  BY DEF Task, Other
<1>2. /\ UNCHANGED <<now, func, initDone, raced>>
      /\ Inside(t) /\ pc'[o] = pc[o]
  BY CommandGoto DEF CommandStatement, Inside
<1>3. ~Inside(o) /\ ~Inside(o)'
  BY <1>1, <1>2 DEF TimerInv, Inside
<1>4. pc[t] \in {"schedule", "restore"} => TimerAgrees
  BY <1>1, <1>3 DEF TimerInv, Inside
<1>5. pc \in [Task -> Label]
  BY DEF TypeOK
<1> HIDE DEF o
<1>6. SUFFICES /\ pc'[t] \in {"schedule", "restore", "idle"} => TimerAgrees'
               /\ pc'[t] = "stored" => argument'[t] = storedTurnOnDurationMs'
               /\ pc'[t] \in {"test", "arm", "disarm"}
                      => durationMs' = argument'[t]
               /\ pc'[t] = "arm" => durationMs' # 0
               /\ pc'[t] = "disarm" => durationMs' = 0
  <2>1. pc'[t] \in CommandStep \cup {"idle"}
    BY CommandGoto
  <2>2. QED
    BY <1>1, <1>3, <1>6, <2>1 DEF TimerInv, Inside, CommandStep
<1>7. CASE SetState(t)
  <2>1. initDone
    BY DEF TaskInv
  <2>2. pc'[t] = "duration"
    BY <1>5, <1>7, <2>1 DEF SetState, Goto
  <2>3. QED
    BY <2>2
<1>8. CASE SetDuration(t)
  <2>1. argument \in [Task -> 0 .. Longest]
    BY DEF TypeOK
  <2>2. /\ argument'[t] = Asked(t)
        /\ durationMs' = argument[t]
        /\ storedTurnOnDurationMs' = storedTurnOnDurationMs
        /\ pc'[t] = IF IsStaircase /\ target[t] THEN "stored" ELSE "test"
    BY <1>5, <1>8, <2>1 DEF SetDuration, Goto
  <2>3. QED
    BY <2>2 DEF Asked
<1>9. CASE SetStoredDuration(t)
  <2>1. /\ pc[t] = "stored" /\ pc'[t] = "test"
        /\ durationMs' = storedTurnOnDurationMs
        /\ argument' = argument
    BY <1>5, <1>9 DEF SetStoredDuration, Goto, commandVars
  <2>2. argument[t] = storedTurnOnDurationMs
    BY <2>1 DEF TimerInv
  <2>3. QED
    BY <2>1, <2>2
<1>10. CASE TestDuration(t)
  <2>1. /\ pc[t] = "test"
        /\ pc'[t] = IF durationMs # 0 THEN "arm" ELSE "disarm"
        /\ durationMs' = durationMs
        /\ argument' = argument
    BY <1>5, <1>10
       DEF TestDuration, Goto, commandVars, relayVars, timerVars
  <2>2. durationMs = argument[t]
    BY <2>1 DEF TimerInv
  <2>3. QED
    BY <2>1, <2>2
<1>11. CASE SetTimestamp(t)
  <2>1. /\ pc[t] \in {"arm", "disarm"} /\ pc'[t] = "schedule"
        /\ durationTimestamp' = IF pc[t] = "arm" THEN now ELSE 0
        /\ promised' = PromiseOf(argument[t])
        /\ durationMs' = durationMs
    BY <1>5, <1>11 DEF SetTimestamp, Goto, Promise
  <2>2. durationMs = argument[t] /\ (pc[t] = "arm" <=> durationMs # 0)
    BY <2>1 DEF TimerInv
  <2>3. Since(now, now) = 0 /\ durationMs \in 0 .. Longest
    BY ClockRange, SaveScheduleAssumption DEF TypeOK
  <2>4. TimerAgrees'
    BY <1>2, <2>1, <2>2, <2>3, SaveScheduleAssumption
       DEF TimerAgrees, PromiseOf, None, Longest
  <2>5. QED
    BY <2>1, <2>4
<1>12. CASE ScheduleSave(t)
  <2>1. /\ pc[t] = "schedule" /\ pc'[t] \in {"restore", "idle"}
        /\ UNCHANGED <<durationMs, durationTimestamp, promised>>
    BY <1>5, <1>12 DEF ScheduleSave, Leave, Goto, relayVars, timerVars
  <2>2. QED
    BY <1>2, <1>4, <2>1 DEF TimerAgrees
<1>13. CASE RestoreStored(t)
  <2>1. /\ pc[t] = "restore" /\ pc'[t] = "idle"
        /\ UNCHANGED <<durationMs, durationTimestamp, promised>>
    BY <1>5, <1>13 DEF RestoreStored, Goto, timerVars
  <2>2. QED
    BY <1>2, <1>4, <2>1 DEF TimerAgrees
<1>14. QED
  BY <1>7, <1>8, <1>9, <1>10, <1>11, <1>12, <1>13 DEF CommandStatement

(* A tick takes one ms off the countdown.                                  *)
LEMMA TickTimer ==
    ASSUME TypeOK, TaskInv, IsVirtual, TimerInv, Tick
    PROVE  TimerInv'
<1> USE SaveScheduleAssumption
<1>1. /\ LoopKeepsUp
      /\ now' = After(now, 1)
      /\ promised' = Later(promised)
      /\ UNCHANGED <<func, durationMs, durationTimestamp, pc, argument,
                     storedTurnOnDurationMs, raced>>
  BY DEF Tick, relayVars, timerVars, commandVars
<1>2. ASSUME TimerAgrees PROVE TimerAgrees'
  <2>1. CASE promised = None
    BY <1>1, <1>2, <2>1 DEF TimerAgrees, Later, None
  <2>2. CASE promised # None
    <3>1. Since(now, durationTimestamp) < TimeSpan - 1
      <4>1. durationMs # 0 /\ durationMs \in 0 .. HalfSpan
        BY <1>2, <2>2 DEF TypeOK, TimerAgrees, Longest
      <4>2. CASE TimerDue
        BY <1>1, <4>2 DEF LoopKeepsUp
      <4>3. CASE ~TimerDue
        <5>1. ~(Since(now, durationTimestamp) > durationMs)
          BY <4>1, <4>3 DEF TimerDue, TaskInv
        <5>2. Since(now, durationTimestamp) \in Int
          BY ClockRange DEF TypeOK, Time, TimeSpan
        <5>3. QED
          BY <4>1, <5>1, <5>2 DEF TimeSpan
      <4>4. QED
        BY <4>2, <4>3
    <3>2. Since(now', durationTimestamp) = Since(now, durationTimestamp) + 1
      BY <1>1, <3>1, TickDistance DEF TypeOK
    <3>3. Since(now, durationTimestamp) \in Int
      BY ClockRange DEF TypeOK, Time, TimeSpan
    <3>4. QED
      BY <1>1, <1>2, <2>2, <3>2, <3>3
         DEF TypeOK, TimerAgrees, Later, None, Longest
  <2>3. QED
    BY <2>1, <2>2
<1>3. QED
  BY <1>1, <1>2 DEF TimerInv, Inside

(* A restart starts what it has read.                                      *)
LEMMA BootTimer ==
    ASSUME IsVirtual, NEW record \in Record, Boot(record)
    PROVE  TimerInv'
<1>1. /\ now' = 1 /\ pc' = [t \in Task |-> "idle"]
      /\ durationMs' = LoadedDuration(record)
      /\ durationTimestamp' = IF LoadedDuration(record) = 0 THEN 0 ELSE 1
      /\ promised' = PromiseOf(LoadedDuration(record))
  BY DEF Boot
<1>2. Since(1, 1) = 0
  BY Ranges, ClockRange, SaveScheduleAssumption
<1>3. LoadedDuration(record) \in 0 .. Longest
  BY LoadedTypes
<1>4. TimerAgrees'
  BY <1>1, <1>2, <1>3, SaveScheduleAssumption
     DEF TimerAgrees, PromiseOf, None, Longest
<1>5. QED
  BY <1>1, <1>4 DEF TimerInv, Inside, CommandStep, Task

(* The timer invariant is kept by every step.                              *)
LEMMA TimerStep ==
    ASSUME TypeOK, TaskInv, IsVirtual, TimerInv, [Next]_vars
    PROVE  TimerInv'
<1>0. pc \in [Task -> Label] /\ {"loop", "timer"} \subseteq Task
  BY Labels DEF TypeOK
<1>1. CASE Restarts
  <2>1. CASE Restart
    BY <2>1, BootTimer DEF Restart, TypeOK
  <2>2. CASE SoftRestart
    <3>1. saved' \in Record
      BY <2>2 DEF SoftRestart, WriteRecord, TypeOK, Record, Draft
    <3>2. QED
      BY <2>2, <3>1, BootTimer DEF SoftRestart
  <2>3. QED
    BY <1>1, <2>1, <2>2 DEF Restarts
<1>2. CASE \/ \E d \in Durations : ServerTurnOn(d) \/ ServerTurnOff(d)
           \/ ButtonToggle
           \/ Expire
  BY <1>0, <1>2, EnterTimer
     DEF ServerTurnOn, ServerTurnOff, ButtonToggle, Expire
<1>3. ASSUME NEW time \in StaircaseTimes, ServerStaircaseTime(time)
      PROVE  TimerInv'
  <2> SUFFICES ASSUME ~raced' PROVE TimerInv'
    BY DEF TimerInv
  <2>1. /\ ~raced /\ \A t \in Task : ~Inside(t)
        /\ UNCHANGED <<now, durationMs, durationTimestamp, pc, promised>>
    BY <1>3 DEF ServerStaircaseTime, Inside, Task, CommandStep, timerVars
  <2>2. TimerAgrees
    BY <2>1, AtRest
  <2>3. QED
    BY <2>1, <2>2 DEF TimerInv, TimerAgrees, Inside, CommandStep
<1>4. CASE \E t \in Task : CommandStatement(t)
  BY <1>4, CommandTimer
<1>5. ASSUME NEW label \in {"idle", "save", "store", "flags"},
             pc["loop"] \in {"idle", "save", "store", "flags"},
             Goto("loop", label), UNCHANGED saveless
      PROVE  TimerInv'
  <2>1. \A t \in Task : pc'[t] = pc[t] \/ (~Inside(t) /\ ~Inside(t)')
    <3>1. pc'["timer"] = pc["timer"] /\ pc'["loop"] = label
      BY <1>0, <1>5 DEF Goto
    <3>2. pc["loop"] \notin CommandStep /\ pc'["loop"] \notin CommandStep
      BY <1>5, <3>1 DEF CommandStep
    <3>3. SUFFICES ASSUME NEW t \in Task
                   PROVE  pc'[t] = pc[t] \/ (~Inside(t) /\ ~Inside(t)')
      OBVIOUS
    <3>4. CASE t = "loop"
      BY <3>2, <3>4 DEF Inside
    <3>5. CASE t = "timer"
      BY <3>1, <3>5
    <3>6. QED
      BY <3>4, <3>5 DEF Task
  <2>2. QED
    BY <1>5, <2>1, TimerKept DEF saveless, relayVars, timerVars, commandVars
<1>6. CASE \/ Poll \/ AllowSave \/ SkipSave \/ BeginSoftRestart
           \/ SaveDuration \/ SaveFlags
  BY <1>5, <1>6 DEF Poll, AllowSave, SkipSave, BeginSoftRestart, SaveDuration,
                    SaveFlags, WriteRecord
<1>7. CASE Tick
  BY <1>7, TickTimer
<1>8. CASE UNCHANGED vars
  BY <1>8, TimerKept DEF vars, relayVars, timerVars, commandVars
<1>9. QED
  BY <1>1, <1>2, <1>3, <1>4, <1>6, <1>7, <1>8
     DEF Next, Iterate, Save, Restarts

----------------------------------------------------------------------------
(* The inductive invariant of VirtualRelay: flash and schedule             *)

(* What goes to flash is what was left, and stays so.                      *)
LEMMA FlashStep ==
    ASSUME TypeOK, TimerInv, FlashInv, [Next]_vars
    PROVE  FlashInv'
<1> USE DEF FlashInv, IsStaircase
<1>1. CASE Restart
  BY <1>1 DEF Restart, Boot, flashVars, NoDraft, None
<1>2. CASE \/ \E d \in Durations : ServerTurnOn(d) \/ ServerTurnOff(d)
           \/ Expire
  BY <1>2 DEF ServerTurnOn, ServerTurnOff, Expire, outside, flashVars
<1>3. CASE ButtonToggle
  <2>1. draft'.promise = None
    BY <1>3 DEF ButtonToggle, TypeOK, Draft
  <2>2. QED
    BY <1>3, <2>1 DEF ButtonToggle, outside, flashVars, None
<1>4. CASE \/ \E t \in StaircaseTimes : ServerStaircaseTime(t)
           \/ \E t \in Task : CommandStatement(t)
           \/ Tick
           \/ UNCHANGED vars
  BY <1>4 DEF ServerStaircaseTime, CommandStatement, Tick, vars, savingVars,
              flashVars
<1>5. CASE Poll \/ AllowSave \/ SkipSave \/ BeginSoftRestart
  BY <1>5 DEF Poll, AllowSave, SkipSave, BeginSoftRestart, saveless,
              savingVars, flashVars
<1>6. CASE SaveDuration
  <2>1. /\ UNCHANGED <<func, flashVars>>
        /\ pc["loop"] = "store"
        /\ draft' = [duration |-> IF IsStaircase THEN storedTurnOnDurationMs
                                                 ELSE RemainingTime,
                     promise  |-> IF \/ IsStaircase \/ durationTimestamp = 0
                                     \/ raced \/ Inside("timer")
                                  THEN None ELSE promised]
    BY <1>6 DEF SaveDuration, saveless
  <2>2. SUFFICES ASSUME draft'.promise >= 0
                 PROVE  ~IsStaircase /\ draft'.duration = draft'.promise
    BY <2>1 DEF flashVars
  <2>3. /\ ~IsStaircase /\ durationTimestamp # 0
        /\ ~raced /\ ~Inside("timer")
        /\ draft'.promise = promised /\ draft'.duration = RemainingTime
    BY <2>1, <2>2 DEF None
  <2>4. TimerAgrees
    BY <2>1, <2>3, AtRest DEF Inside, Task, CommandStep
  <2>5. QED
    BY <2>2, <2>3, <2>4, RemainingIsPromised
<1>7. ASSUME WriteRecord, func' = func
      PROVE  savedPromise' >= 0 =>
                 ~IsStaircase' /\ saved'.duration = savedPromise'
  BY <1>7 DEF WriteRecord
<1>8. CASE SaveFlags \/ SoftRestart
  <2>1. WriteRecord /\ func' = func /\ draft' = NoDraft
    BY <1>8 DEF SaveFlags, SoftRestart, saveless, Boot
  <2>2. QED
    BY <1>7, <2>1 DEF NoDraft, None
<1>9. QED
  BY <1>1, <1>2, <1>3, <1>4, <1>5, <1>6, <1>8 DEF Next, Iterate, Save

(* A command puts the save ahead, a tick brings it one closer.             *)
LEMMA ScheduleStep ==
    ASSUME TypeOK, TaskInv, IsVirtual, ScheduleInv, [Next]_vars
    PROVE  ScheduleInv'
<1> USE SaveScheduleAssumption
<1>1. ASSUME now' \in Time, unsaved' = 0,
             NEW last \in Time, lastWriteTimestamp' = ScheduledWrite(last, now')
      PROVE  ScheduleInv'
  <2>1. Since(now', lastWriteTimestamp')
            \in Period - DelayMax .. Period - DelayMin
    BY <1>1, ScheduledInTime
  <2>2. QED
    BY <1>1, <2>1 DEF ScheduleInv
<1>2. ASSUME UNCHANGED <<now, lastWriteTimestamp, unsaved>>
      PROVE  ScheduleInv'
  BY <1>2 DEF ScheduleInv
<1>3. CASE Restarts
  <2>1. now' = 1 /\ unsaved' = 0 /\ lastWriteTimestamp' = ScheduledWrite(0, 1)
    BY <1>3 DEF Restarts, Restart, SoftRestart, Boot
  <2>2. QED
    BY <1>1, <2>1, Ranges
<1>4. CASE \/ \E d \in Durations : ServerTurnOn(d) \/ ServerTurnOff(d)
           \/ ButtonToggle
           \/ Expire
  BY <1>2, <1>4 DEF ServerTurnOn, ServerTurnOff, ButtonToggle, Expire, outside
<1>5. CASE \E t \in StaircaseTimes : ServerStaircaseTime(t)
  BY <1>1, <1>5 DEF ServerStaircaseTime, TypeOK
<1>6. ASSUME NEW t \in Task, CommandStatement(t)
      PROVE  ScheduleInv'
  <2>1. now' = now /\ initDone
    BY <1>6 DEF CommandStatement, TaskInv
  <2>2. CASE ScheduleSave(t)
    BY <1>1, <2>1, <2>2 DEF ScheduleSave, TypeOK
  <2>3. CASE ~ScheduleSave(t)
    BY <1>2, <1>6, <2>1, <2>3
       DEF CommandStatement, SetState, SetDuration, SetStoredDuration,
           TestDuration, SetTimestamp, RestoreStored
  <2>4. QED
    BY <2>2, <2>3
<1>7. CASE Poll \/ AllowSave \/ SkipSave \/ BeginSoftRestart \/ SaveFlags
  BY <1>2, <1>7 DEF Poll, AllowSave, SkipSave, BeginSoftRestart, SaveFlags,
                    saveless
<1>8. CASE SaveDuration
  BY <1>8 DEF SaveDuration, ScheduleInv, None
<1>9. CASE Tick
  <2>1. /\ LoopKeepsUp
        /\ now' = After(now, 1)
        /\ unsaved' = Sooner(unsaved)
        /\ UNCHANGED lastWriteTimestamp
    BY <1>9 DEF Tick
  <2>2. CASE unsaved = None
    BY <2>1, <2>2 DEF ScheduleInv, Sooner, None
  <2>3. CASE unsaved # None
    <3>1. Since(now, lastWriteTimestamp) < TimeSpan - 1
      BY <2>1, <2>3
         DEF TypeOK, ScheduleInv, LoopKeepsUp, SaveAllowed, None, Time, TimeSpan
    <3>2. Since(now', lastWriteTimestamp) = Since(now, lastWriteTimestamp) + 1
      BY <2>1, <3>1, TickDistance DEF TypeOK
    <3>3. Since(now, lastWriteTimestamp) \in Int
      BY ClockRange DEF TypeOK, Time, TimeSpan
    <3>4. QED
      BY <2>1, <2>3, <3>2, <3>3 DEF TypeOK, ScheduleInv, Sooner, None
  <2>4. QED
    BY <2>2, <2>3
<1>10. CASE UNCHANGED vars
  BY <1>2, <1>10 DEF vars
<1>11. QED
  BY <1>3, <1>4, <1>5, <1>6, <1>7, <1>8, <1>9, <1>10
     DEF Next, Iterate, Save, Restarts

(* The invariant holds initially.                                          *)
LEMMA InvariantInit ==
    ASSUME IsVirtual, Init
    PROVE  IInv
<1>1. TypeOK /\ TaskInv
  BY TypeCorrectInit
<1>2. TimerInv
  BY DEF Init, TimerInv, TimerAgrees, Inside, CommandStep, Task, None
<1>3. FlashInv
  BY DEF Init, FlashInv, NoDraft, None
<1>4. Since(now, lastWriteTimestamp) \in Period - DelayMax .. Period - DelayMin
  BY Ranges, ScheduledInTime DEF Init
<1>5. ScheduleInv
  BY <1>4, SaveScheduleAssumption DEF Init, ScheduleInv
<1>6. QED
  BY <1>1, <1>2, <1>3, <1>5 DEF IInv

----------------------------------------------------------------------------
(* The properties of a VirtualRelay                                        *)

(* The strengthened invariant holds in every reachable state.              *)
THEOREM VirtualInductive ==
    ASSUME IsVirtual
    PROVE  Spec => []IInv
<1>1. Init => IInv
  BY InvariantInit
<1>2. IInv /\ [Next]_vars => IInv'
  BY TypeCorrectStep, TaskStep, TimerStep, FlashStep, ScheduleStep DEF IInv
<1>3. QED
  BY <1>1, <1>2, PTL DEF Spec

(* DelayMax after a command, the loop is allowed to save the new state.    *)
THEOREM SaveWithinDelayHolds ==
    ASSUME IsVirtual
    PROVE  Spec => []SaveWithinDelay
<1>1. IInv => SaveWithinDelay
  BY DEF IInv, ScheduleInv, SaveWithinDelay, SaveAllowed
<1>2. QED
  BY <1>1, VirtualInductive, PTL

(* Outside a race and what it leaves behind, a countdown never switches    *)
(* the relay before its time.                                              *)
THEOREM NeverEarlyHolds ==
    ASSUME IsVirtual
    PROVE  Spec => NeverEarly
<1>1. IInv /\ [Next]_vars
          => [Expire /\ ~raced /\ ~Inside("timer") => promised = 0]_vars
  <2> SUFFICES ASSUME IInv, Expire, ~raced, ~Inside("timer")
               PROVE  promised = 0
    OBVIOUS
  <2>1. \A t \in Task : ~Inside(t)
    BY DEF Expire, Inside, Task, CommandStep
  <2>2. TimerAgrees
    BY <2>1, AtRest DEF IInv
  <2>3. QED
    BY <2>2, SaveScheduleAssumption
       DEF IInv, TypeOK, TimerAgrees, Expire, TimerDue, None, Longest
<1>2. QED
  BY <1>1, VirtualInductive, PTL DEF Spec, NeverEarly

(* What a restart finds on flash, and what it makes of it.                 *)
LEMMA RestartReads ==
    ASSUME IsVirtual, IInv, Restarts, savedPromise' >= 0
    PROVE  /\ state' = saved'.on
           /\ durationMs' = savedPromise'
           /\ promised' = PromiseOf(savedPromise')
<1>1. ~IsStaircase' /\ saved'.duration = savedPromise'
  <2>1. FlashInv'
    BY FlashStep DEF IInv, Next, Restarts, Save
  <2>2. QED
    BY <2>1 DEF FlashInv
<1>2. func' = func
  BY DEF Restarts, Restart, SoftRestart
<1>3. ~IsStaircase
  BY <1>1, <1>2 DEF IsStaircase
<1>4. Boot(saved')
  BY DEF Restarts, Restart, SoftRestart, flashVars
<1>5. QED
  BY <1>1, <1>3, <1>4 DEF Boot, LoadedDuration

(* A restart resumes exactly the countdown that was saved.                 *)
THEOREM CountdownResumedHolds ==
    ASSUME IsVirtual
    PROVE  Spec => CountdownResumed
<1>1. IInv /\ [Next]_vars
          => [Restarts /\ savedPromise' > 0 =>
                 state' = saved'.on /\ durationMs' = savedPromise']_vars
  <2> SUFFICES ASSUME IInv, [Next]_vars, Restarts, savedPromise' > 0
               PROVE  state' = saved'.on /\ durationMs' = savedPromise'
    OBVIOUS
  <2>1. savedPromise' \in Int
    BY TypeCorrectStep, SaveScheduleAssumption DEF IInv, TypeOK, None, Longest
  <2>2. QED
    BY <2>1, RestartReads
<1>2. QED
  BY <1>1, VirtualInductive, PTL DEF Spec, CountdownResumed

(* No command is followed by the decision to save within DelayMin, though  *)
(* the decision is taken by a millis() of up to MaxLag earlier.            *)
THEOREM BurstSavedOnceHolds ==
    ASSUME IsVirtual
    PROVE  Spec => BurstSavedOnce
<1>1. IInv /\ [Next]_vars
          => [AllowSave => unsaved = None \/ unsaved > DelayMin]_vars
  <2> SUFFICES ASSUME IInv, AllowSave, unsaved # None
               PROVE  unsaved > DelayMin
    OBVIOUS
  <2> USE RelayAssumption, SaveScheduleAssumption
  <2>1. Since(Since(now, lag), lastWriteTimestamp) > Period
    BY DEF AllowSave, SaveAllowed, Iterated
  <2>2. /\ unsaved \in 0 .. DelayMax + 1 /\ lag \in 0 .. MaxLag
        /\ now \in Time /\ lastWriteTimestamp \in Time
    BY DEF IInv, TypeOK, None
  <2>3. CASE unsaved = DelayMax + 1
    BY <2>3
  <2>4. CASE unsaved \in 0 .. DelayMax
    <3>1. Since(now, lastWriteTimestamp)
              \in Period - DelayMax + unsaved .. Period - DelayMin + unsaved
      BY <2>4 DEF IInv, ScheduleInv
    <3>2. lag <= Since(now, lastWriteTimestamp)
      BY <2>2, <2>4, <3>1
    <3>3. Since(Since(now, lag), lastWriteTimestamp)
              = Since(now, lastWriteTimestamp) - lag
      BY <2>2, <3>2 DEF Since, Time, TimeSpan
    <3>4. QED
      BY <2>1, <2>2, <3>1, <3>3
  <2>5. QED
    BY <2>2, <2>3, <2>4
<1>2. QED
  BY <1>1, VirtualInductive, PTL DEF Spec, BurstSavedOnce

(* A countdown of an undisturbed relay is lost by a restart if and only if *)
(* its record says that nothing was left, and the record says so if and    *)
(* only if it was read after the countdown had run out and before          *)
(* iterateAlways had ended it, at once or some ms later: this is all that  *)
(* is wrong in the run relay_orphan.                                       *)
THEOREM LostOnlyWhenItEnds ==
    ASSUME IsVirtual
    PROVE  Spec => [][/\ Restarts /\ savedPromise' >= 0 =>
                             (promised' = None <=> saved'.duration = 0)
                      /\ SaveDuration /\ draft'.promise >= 0 =>
                             (draft'.duration = 0 <=> promised = 0)]_vars
<1> DEFINE Lost == Restarts /\ savedPromise' >= 0 =>
                       (promised' = None <=> saved'.duration = 0)
           Read == SaveDuration /\ draft'.promise >= 0 =>
                       (draft'.duration = 0 <=> promised = 0)
<1>1. ASSUME IInv, [Next]_vars PROVE Lost
  <2> SUFFICES ASSUME Restarts, savedPromise' >= 0
               PROVE  promised' = None <=> saved'.duration = 0
    OBVIOUS
  <2>1. promised' = IF savedPromise' = 0 THEN None ELSE savedPromise'
    BY <1>1, RestartReads DEF PromiseOf
  <2>2. saved'.duration = savedPromise'
    BY <1>1, FlashStep DEF IInv, FlashInv
  <2>3. QED
    BY <2>1, <2>2 DEF None
<1>2. ASSUME IInv, [Next]_vars PROVE Read
  <2> SUFFICES ASSUME SaveDuration, draft'.promise >= 0
               PROVE  draft'.duration = 0 <=> promised = 0
    OBVIOUS
  <2>1. draft'.duration = draft'.promise
    BY <1>2, FlashStep DEF IInv, FlashInv
  <2>2. draft'.promise \in {None, promised}
    BY DEF SaveDuration
  <2>3. draft'.promise # None
    BY DEF None
  <2>4. QED
    BY <2>1, <2>2, <2>3
<1>3. IInv /\ [Next]_vars => [Lost /\ Read]_vars
  BY <1>1, <1>2
<1>4. QED
  BY <1>3, VirtualInductive, PTL DEF Spec
=============================================================================
