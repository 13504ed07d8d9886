------------------------------- MODULE Relay -------------------------------
(***************************************************************************)
(* The relay channel: Supla::Control::Relay with its countdown timer, its  *)
(* state in flash and its restart, in the two classes of this firmware     *)
(* that have no pin of their own: VirtualRelay (virtual_relay.cpp), which  *)
(* implements what Relay promises, and the board's BistableRelay           *)
(* (Bistabile2Relay.cpp), which overrides onInit and iterateAlways and     *)
(* calls neither Relay::onInit nor Relay::iterateAlways.                   *)
(*                                                                         *)
(* The loop task executes the server's commands, iterateAlways and the     *)
(* saves, the timer task the toggle of the button.  Nothing keeps one out  *)
(* of the relay while the other is in it: pc[t] is the statement on the    *)
(* fields of Relay that task t executes next.  The pins and the pulse of   *)
(* BistableRelay are the subject of module BistableRelay.  Both relays are *)
(* configured with setDefaultStateRestore().                               *)
(***************************************************************************)
EXTENDS SaveSchedule

CONSTANTS
    Class,          \* "VirtualRelay" or "BistableRelay"
    Durations,      \* countdowns the server asks for, in ms; 0 is none
    StaircaseTimes, \* times the server may configure for the staircase timer
    DefaultTime,    \* defaultStaircaseDurationMs
    MaxLag,         \* ms that may pass between the steps of one iteration
    Preempted       \* a task may stand still for a ms or more in a command

ASSUME RelayAssumption ==
    /\ Class \in {"VirtualRelay", "BistableRelay"}
    /\ Durations \subseteq 0 .. HalfSpan
    /\ StaircaseTimes \subseteq 1 .. HalfSpan
    /\ DefaultTime \in 1 .. HalfSpan
    /\ MaxLag \in Nat /\ DelayMax + MaxLag <= Period
    /\ Preempted \in BOOLEAN

VARIABLES
    now,                    \* millis()
    func,                   \* default function of the channel, from the config
    state,                  \* VirtualRelay::state, what isOn() returns
    initDone,
    durationMs,             \* the countdown that runs; 0 is none
    durationTimestamp,      \* millis() when it was started
    storedTurnOnDurationMs, \* the staircase time
    lastWriteTimestamp,     \* of Supla::Storage
    saved,                  \* the relay's record in flash
    pc,             \* the statement each task executes next, or "idle"
    target,         \* where each task's command switches the relay
    argument,       \* the duration it was called with, then the one it sets
    copyDurationMs, \* local of handleNewValueFromServer, or None
    draft,          \* what onSaveState has read so far
    lag,            \* ms since the iteration in progress read millis()
    restarting,     \* the save in progress is that of softRestart
    promised,      \* history: ms left of the countdown last asked for, or None
    savedPromise,  \* history: promised when the record was saved
    unsaved,       \* history: ms since the last command, until it is saved
    raced          \* history: the last command met one of the other task,
                   \* which leaves nothing promised

timerVars   == <<durationMs, durationTimestamp>>
relayVars   == <<state, timerVars, storedTurnOnDurationMs>>
commandVars == <<target, argument, copyDurationMs>>
savingVars  == <<draft, lag, restarting>>
flashVars   == <<saved, savedPromise>>
vars == <<now, func, relayVars, initDone, lastWriteTimestamp, pc, commandVars,
          savingVars, flashVars, promised, unsaved, raced>>

Task        == {"loop", "timer"}
CommandStep == {"state", "duration", "stored", "test", "arm",
                "disarm", "schedule", "restore"}
SaveStep    == {"save", "store", "flags"}
Label       == {"idle"} \cup CommandStep \cup SaveStep

Function == {"power", "staircase"}
None     == -1
Longest  == HalfSpan
Record   == [on : BOOLEAN, duration : 0 .. Longest]
Draft    == [duration : 0 .. Longest, promise : None .. Longest]
NoDraft  == [duration |-> 0, promise |-> None]

IsVirtual   == Class = "VirtualRelay"
IsStaircase == func = "staircase"
Other(t)    == IF t = "loop" THEN "timer" ELSE "loop"

\* Task t is in a command, with statements on the relay's fields still to come.
Inside(t) == pc[t] \in CommandStep

TypeOK ==
    /\ now \in Time
    /\ func \in Function
    /\ state \in BOOLEAN
    /\ initDone \in BOOLEAN
    /\ durationMs \in 0 .. Longest
    /\ durationTimestamp \in Time
    /\ storedTurnOnDurationMs \in 0 .. Longest
    /\ lastWriteTimestamp \in Time
    /\ saved \in Record
    /\ pc \in [Task -> Label]
    /\ target \in [Task -> BOOLEAN]
    /\ argument \in [Task -> 0 .. Longest]
    /\ copyDurationMs \in None .. Longest
    /\ draft \in Draft
    /\ lag \in 0 .. MaxLag
    /\ restarting \in BOOLEAN
    /\ promised \in None .. Longest
    /\ savedPromise \in None .. Longest
    /\ unsaved \in None .. DelayMax + 1
    /\ raced \in BOOLEAN

----------------------------------------------------------------------------
(* turnOn and turnOff, statement by statement.  Until onInit has set       *)
(* initDone, Relay::turnOn and turnOff return at once: only the subclass   *)
(* has changed its state.  What is made of the new value of the channel is *)
(* the subject of ChannelDelivery.                                         *)

PromiseOf(duration) == IF duration = 0 THEN None ELSE duration

\* A staircase timer always runs for its stored time.
Asked(t) ==
    IF IsStaircase /\ target[t] THEN storedTurnOnDurationMs ELSE argument[t]

Promise(t) == IF raced THEN None ELSE PromiseOf(argument[t])

Goto(t, label) == pc' = [pc EXCEPT ![t] = label]

\* A command that starts alone makes good what an earlier race has left.
Enter(t, label) ==
    /\ pc[t] = "idle"
    /\ Goto(t, label)
    /\ raced' = Inside(Other(t))
    /\ promised' = IF raced' THEN None ELSE promised

\* handleNewValueFromServer still has to write the stored time back when it
\* has set it aside.
Leave(t) ==
    /\ Goto(t, IF t = "loop" /\ copyDurationMs # None THEN "restore"
                                                      ELSE "idle")
    /\ target' = [target EXCEPT ![t] = FALSE]
    /\ argument' = [argument EXCEPT ![t] = 0]
    /\ UNCHANGED copyDurationMs

\* VirtualRelay::turnOn and turnOff, before they call those of Relay
SetState(t) ==
    /\ pc[t] = "state"
    /\ state' = target[t]
    /\ IF initDone
       THEN /\ Goto(t, "duration")
            /\ UNCHANGED <<commandVars, promised, unsaved>>
       ELSE /\ Leave(t)
            /\ promised' = IF raced THEN None ELSE PromiseOf(Asked(t))
            /\ unsaved' = 0
    /\ UNCHANGED <<timerVars, storedTurnOnDurationMs, lastWriteTimestamp>>

\* applyDuration: four statements, durationTimestamp the last of them.
SetDuration(t) ==
    /\ pc[t] = "duration"
    /\ Goto(t, IF IsStaircase /\ target[t] THEN "stored" ELSE "test")
    /\ durationMs' = argument[t]
    /\ argument' = [argument EXCEPT ![t] = Asked(t)]
    /\ target' = [target EXCEPT ![t] = FALSE]
    /\ UNCHANGED <<state, durationTimestamp, storedTurnOnDurationMs,
                   copyDurationMs, lastWriteTimestamp, promised, unsaved>>

SetStoredDuration(t) ==
    /\ pc[t] = "stored"
    /\ Goto(t, "test")
    /\ durationMs' = storedTurnOnDurationMs
    /\ UNCHANGED <<state, durationTimestamp, storedTurnOnDurationMs,
                   commandVars, lastWriteTimestamp, promised, unsaved>>

TestDuration(t) ==
    /\ pc[t] = "test"
    /\ Goto(t, IF durationMs # 0 THEN "arm" ELSE "disarm")
    /\ UNCHANGED <<relayVars, commandVars, lastWriteTimestamp, promised,
                   unsaved>>

SetTimestamp(t) ==
    /\ pc[t] \in {"arm", "disarm"}
    /\ Goto(t, "schedule")
    /\ durationTimestamp' = IF pc[t] = "arm" THEN now ELSE 0
    /\ promised' = Promise(t)
    /\ argument' = [argument EXCEPT ![t] = 0]
    /\ UNCHANGED <<state, durationMs, storedTurnOnDurationMs,
                   target, copyDurationMs, lastWriteTimestamp, unsaved>>

\* Whatever scheduleSave reads of lastWriteTimestamp, what it writes is
\* between DelayMin and DelayMax ahead.
ScheduleSave(t) ==
    /\ pc[t] = "schedule"
    /\ Leave(t)
    /\ lastWriteTimestamp' = ScheduledWrite(lastWriteTimestamp, now)
    /\ unsaved' = 0
    /\ UNCHANGED <<relayVars, promised>>

RestoreStored(t) ==
    /\ pc[t] = "restore"
    /\ Goto(t, "idle")
    /\ storedTurnOnDurationMs' = copyDurationMs
    /\ copyDurationMs' = None
    /\ UNCHANGED <<state, timerVars, target, argument,
                   lastWriteTimestamp, promised, unsaved>>

CommandStatement(t) ==
    /\ \/ SetState(t)
       \/ SetDuration(t)
       \/ SetStoredDuration(t)
       \/ TestDuration(t)
       \/ SetTimestamp(t)
       \/ ScheduleSave(t)
       \/ RestoreStored(t)
    /\ UNCHANGED <<now, func, initDone, savingVars, flashVars, raced>>

----------------------------------------------------------------------------
(* Restart: constructors, onLoadConfig, onLoadState and onInit, all within *)
(* SuplaDevice.begin(); millis() is positive by then.  A relay that never  *)
(* saved reads zeros.                                                      *)

Blank == [on |-> FALSE, duration |-> 0]

\* onLoadState: the duration on flash is the staircase time or what was left
\* of a countdown, which onInit starts again.
LoadedStaircaseTime(record) ==
    IF ~IsStaircase THEN 0
    ELSE IF record.duration = 0 THEN DefaultTime ELSE record.duration

LoadedDuration(record) ==
    IF IsStaircase
    THEN IF record.on THEN LoadedStaircaseTime(record) ELSE 0
    ELSE record.duration

Boot(record) ==
    /\ now' = 1
    /\ storedTurnOnDurationMs' = LoadedStaircaseTime(record)
    /\ pc' = [t \in Task |-> "idle"]
    /\ target' = [t \in Task |-> FALSE]
    /\ argument' = [t \in Task |-> 0]
    /\ copyDurationMs' = None
    /\ draft' = NoDraft
    /\ lag' = 0
    /\ restarting' = FALSE
    /\ promised' = PromiseOf(LoadedDuration(record))
    /\ unsaved' = IF IsVirtual THEN 0 ELSE None
    /\ raced' = FALSE
    /\ initDone' = IsVirtual
    /\ IF IsVirtual
       THEN /\ state' = record.on
            /\ durationMs' = LoadedDuration(record)
            /\ durationTimestamp' = IF LoadedDuration(record) = 0 THEN 0 ELSE 1
            /\ lastWriteTimestamp' = ScheduledWrite(0, 1)
       ELSE /\ state' = FALSE
            /\ durationMs' = IF IsStaircase THEN 0 ELSE record.duration
            /\ durationTimestamp' = 0
            /\ lastWriteTimestamp' = 0

\* The first start of a device whose flash is blank.
Init ==
    /\ func \in Function
    /\ saved = Blank
    /\ savedPromise = None
    /\ now = 1
    /\ initDone = IsVirtual
    /\ state = FALSE
    /\ durationMs = 0
    /\ durationTimestamp = 0
    /\ storedTurnOnDurationMs = IF IsStaircase THEN DefaultTime ELSE 0
    /\ lastWriteTimestamp = IF IsVirtual THEN ScheduledWrite(0, 1) ELSE 0
    /\ pc = [t \in Task |-> "idle"]
    /\ target = [t \in Task |-> FALSE]
    /\ argument = [t \in Task |-> 0]
    /\ copyDurationMs = None
    /\ draft = NoDraft
    /\ lag = 0
    /\ restarting = FALSE
    /\ promised = None
    /\ unsaved = IF IsVirtual THEN 0 ELSE None
    /\ raced = FALSE

\* A power cut or a reset at any point.
Restart == Boot(saved) /\ UNCHANGED <<func, flashVars>>

----------------------------------------------------------------------------
(* Commands                                                                *)

outside == <<now, func, state, timerVars, initDone, lastWriteTimestamp,
             lag, restarting, flashVars, unsaved>>

\* handleNewValueFromServer, value 1: duration 0 turns a staircase timer on
\* for good, the stored time being set aside during the call.
ServerTurnOn(duration) ==
    /\ Enter("loop", "state")
    /\ target' = [target EXCEPT !["loop"] = TRUE]
    /\ argument' = [argument EXCEPT !["loop"] = duration]
    /\ IF IsStaircase /\ duration = 0
       THEN /\ copyDurationMs' = storedTurnOnDurationMs
            /\ storedTurnOnDurationMs' = 0
       ELSE UNCHANGED <<copyDurationMs, storedTurnOnDurationMs>>
    /\ UNCHANGED <<outside, draft>>

\* value 0: the duration of a staircase timer is not a turn-on-again delay
ServerTurnOff(duration) ==
    /\ Enter("loop", "state")
    /\ argument' = [argument EXCEPT !["loop"] =
                                        IF IsStaircase THEN 0 ELSE duration]
    /\ UNCHANGED <<outside, target, copyDurationMs, storedTurnOnDurationMs,
                   draft>>

\* Button -> handleAction(TOGGLE) -> toggle(), in the timer task; its first
\* access to the relay is isOn().  restartTimerOnToggle is never set.  What
\* onSaveState has read before is no longer of one moment.
ButtonToggle ==
    /\ Enter("timer", "state")
    /\ target' = [target EXCEPT !["timer"] = ~state]
    /\ draft' = [draft EXCEPT !.promise = None]
    /\ UNCHANGED <<outside, argument, copyDurationMs, storedTurnOnDurationMs>>

\* applyChannelConfig with the time of the staircase timer
ServerStaircaseTime(time) ==
    /\ pc["loop"] = "idle"
    /\ IsStaircase
    /\ time # storedTurnOnDurationMs
    /\ storedTurnOnDurationMs' = time
    /\ lastWriteTimestamp' = ScheduledWrite(lastWriteTimestamp, now)
    /\ unsaved' = 0
    /\ raced' = (raced \/ Inside("timer"))
    /\ promised' = IF raced' THEN None ELSE promised
    /\ UNCHANGED <<now, func, state, initDone, timerVars, pc,
                   commandVars, savingVars, flashVars>>

----------------------------------------------------------------------------
(* SuplaDevice.iterateAlwaysElements(): iterateAlways() of the relay, then *)
(* the elements' state if saving is allowed, by the millis() that iterate  *)
(* read at its beginning.  After an expired countdown it is not: turnOn    *)
(* and turnOff schedule it at least DelayMin ahead.                        *)

\* Mutants of TimerDue: one ms early; broken at the wrap of millis().
TimerDue_Early  == /\ initDone /\ IsVirtual
                   /\ durationMs # 0
                   /\ Since(now, durationTimestamp) + 1 >= durationMs
TimerDue_NoWrap == /\ initDone /\ IsVirtual
                   /\ durationMs # 0
                   /\ now > durationTimestamp + durationMs

TimerDue ==
    /\ initDone /\ IsVirtual
    /\ durationMs # 0
    /\ Since(now, durationTimestamp) > durationMs

\* A switch between the test and the isOn() of toggle() might as well have
\* come before the test, which does not look at the state.
Expire ==
    /\ pc["loop"] = "idle"
    /\ TimerDue
    /\ Enter("loop", "state")
    /\ target' = [target EXCEPT !["loop"] = ~state]
    /\ UNCHANGED <<outside, argument, copyDurationMs, storedTurnOnDurationMs,
                   draft>>

saveless == <<now, func, relayVars, initDone, commandVars, promised, raced>>

Poll ==
    /\ pc["loop"] = "idle"
    /\ ~TimerDue
    /\ Goto("loop", "save")
    /\ UNCHANGED <<saveless, lastWriteTimestamp, savingVars, flashVars,
                   unsaved>>

Iterated == Since(now, lag)     \* _millis, as iterate() read it

AllowSave ==
    /\ pc["loop"] = "save"
    /\ SaveAllowed(lastWriteTimestamp, Iterated)
    /\ Goto("loop", "store")
    /\ UNCHANGED <<saveless, lastWriteTimestamp, savingVars, flashVars,
                   unsaved>>

SkipSave ==
    /\ pc["loop"] = "save"
    /\ ~SaveAllowed(lastWriteTimestamp, Iterated)
    /\ Goto("loop", "idle")
    /\ lag' = 0
    /\ UNCHANGED <<saveless, lastWriteTimestamp, draft, restarting, flashVars,
                   unsaved>>

\* softRestart() saves whatever the period, then restarts (a press in the
\* 500 ms between changes nothing on flash).
BeginSoftRestart ==
    /\ pc["loop"] = "idle"
    /\ Goto("loop", "store")
    /\ restarting' = TRUE
    /\ UNCHANGED <<saveless, lastWriteTimestamp, draft, lag, flashVars,
                   unsaved>>

\* Mutant of RemainingTime: the full countdown instead of what is left.
RemainingTime_Full == durationMs

\* onSaveState: what is left of the countdown, 0 when it is over and for one
\* that was started while millis() was 0 (savedPromise leaves that one out)
RemainingTime ==
    IF /\ durationMs # 0 /\ durationTimestamp # 0
       /\ Since(now, durationTimestamp) < durationMs
    THEN durationMs - Since(now, durationTimestamp)
    ELSE 0

\* The first half of onSaveState.
SaveDuration ==
    /\ pc["loop"] = "store"
    /\ Goto("loop", "flags")
    /\ lastWriteTimestamp' = IF restarting THEN lastWriteTimestamp
                                           ELSE Iterated
    /\ draft' = [duration |-> IF IsStaircase THEN storedTurnOnDurationMs
                                             ELSE RemainingTime,
                 promise  |-> IF \/ IsStaircase \/ durationTimestamp = 0
                                 \/ raced \/ Inside("timer")
                              THEN None ELSE promised]
    /\ unsaved' = None
    /\ UNCHANGED <<saveless, lag, restarting, flashVars>>

\* The second half, and the write of the record to flash.
WriteRecord ==
    /\ pc["loop"] = "flags"
    /\ saved' = [on |-> state, duration |-> draft.duration]
    /\ savedPromise' = draft.promise

SaveFlags ==
    /\ ~restarting
    /\ WriteRecord
    /\ Goto("loop", "idle")
    /\ draft' = NoDraft
    /\ lag' = 0
    /\ UNCHANGED <<saveless, lastWriteTimestamp, restarting, unsaved>>

SoftRestart ==
    /\ restarting
    /\ WriteRecord
    /\ Boot(saved')
    /\ UNCHANGED func

----------------------------------------------------------------------------
(* A millisecond passes.  The loop is taken to run at least once before    *)
(* the distance of a timestamp wraps (49 days).                            *)

Later(ms)   == IF ms <= 0 THEN ms ELSE ms - 1
Sooner(ms)  == IF ms \in {None, DelayMax + 1} THEN ms ELSE ms + 1

LoopKeepsUp ==
    /\ TimerDue => Since(now, durationTimestamp) < TimeSpan - 1
    /\ SaveAllowed(lastWriteTimestamp, now) =>
           Since(now, lastWriteTimestamp) < TimeSpan - 1

Tick ==
    /\ LoopKeepsUp
    /\ pc["loop"] \in SaveStep => lag < MaxLag
    /\ Preempted \/ \A t \in Task : ~Inside(t)
    /\ now' = After(now, 1)
    /\ lag' = IF pc["loop"] \in SaveStep THEN lag + 1 ELSE lag
    /\ promised' = Later(promised)
    /\ unsaved' = Sooner(unsaved)
    /\ UNCHANGED <<func, relayVars, initDone, lastWriteTimestamp, pc,
                   commandVars, draft, restarting, flashVars, raced>>

Iterate == Expire \/ Poll
Save    == AllowSave \/ SkipSave \/ SaveDuration \/ SaveFlags \/ SoftRestart

Next ==
    \/ Restart
    \/ \E d \in Durations : ServerTurnOn(d) \/ ServerTurnOff(d)
    \/ ButtonToggle
    \/ \E t \in StaircaseTimes : ServerStaircaseTime(t)
    \/ \E t \in Task : CommandStatement(t)
    \/ Iterate
    \/ BeginSoftRestart
    \/ Save
    \/ Tick

\* The loop task goes on, the timer task finishes what it has entered, and
\* time passes; commands and restarts need not come.
LoopStep == CommandStatement("loop") \/ Iterate \/ Save

Fairness ==
    /\ WF_vars(LoopStep)
    /\ WF_vars(CommandStatement("timer"))
    /\ WF_vars(Tick)

Spec == Init /\ [][Next]_vars /\ Fairness

----------------------------------------------------------------------------
(* As long as the last command was alone in the relay, and no press is     *)
(* being handled, a countdown never switches the relay before its time:    *)
(* when it does, the whole time asked for has passed, also across a wrap   *)
(* of millis(), a new command, a restart that resumed it, or an earlier    *)
(* race.  Within a press it may: applyDuration writes durationMs before    *)
(* durationTimestamp (relay.cpp 496-512).                                  *)
NeverEarly ==
    [][Expire /\ ~raced /\ ~Inside("timer") => promised = 0]_vars

(* "relay will be on/off in onInit() with configured durationMs"           *)
(* (relay.cpp) and iterateAlways toggles it: a countdown that has run out  *)
(* is followed by its switch, unless a command or a restart comes first.   *)
CountdownServed == promised = 0 ~> promised # 0

Restarts == Restart \/ SoftRestart

(* "restore remaining countdown timer value" (relay.cpp): a relay saved    *)
(* with some of a countdown left comes back in the saved state and counts  *)
(* down exactly what was left, whenever it was saved and cut off, by a     *)
(* reset or by softRestart.                                                *)
CountdownResumed ==
    [][Restarts /\ savedPromise' > 0 =>
           state' = saved'.on /\ durationMs' = savedPromise']_vars

(* "Schedule save in 5 s after state change" (relay.cpp): DelayMax after   *)
(* the last command the loop is allowed to save, even if commands of both  *)
(* tasks and a save were under way at once.                                *)
SaveWithinDelay ==
    unsaved > DelayMax => SaveAllowed(lastWriteTimestamp, now)

(* No command is followed by the decision to save within DelayMin,         *)
(* whatever the period left over from earlier saves: a burst of commands   *)
(* is written once.                                                        *)
BurstSavedOnce ==
    [][AllowSave => unsaved = None \/ unsaved > DelayMin]_vars

(* The relay comes back from a restart as it was saved: setup configures  *)
(* setDefaultStateRestore().  BistableRelay breaks it, for its onInit()    *)
(* does not look at the loaded state.                                      *)
RestoredAsSaved == [][Restarts => state' = saved'.on]_vars

(* "timer already expired and it will be toggled on next iterateAlways()"  *)
(* (relay.cpp): a relay saved while it counts down still does so after a   *)
(* restart.  The code breaks it: a record saved after the countdown has    *)
(* run out, and before iterateAlways has noticed, says "on, nothing left". *)
CountdownSurvivesRestart ==
    [][Restarts /\ savedPromise' >= 0 => promised' # None]_vars

----------------------------------------------------------------------------
(* The inductive invariant behind the properties of VirtualRelay.          *)

\* Where each task may be, and what it has set aside: for both classes.
TaskInv ==
    /\ initDone = IsVirtual
    /\ pc["timer"] \notin SaveStep
    /\ pc["timer"] # "restore"
    /\ copyDurationMs # None => Inside("loop")
    /\ pc["loop"] = "restore" => copyDurationMs # None
    /\ pc["loop"] \notin SaveStep => lag = 0
    /\ restarting => pc["loop"] \in {"store", "flags"}
    /\ draft.promise # None => pc["loop"] = "flags"

\* The timer agrees with what is left of the countdown asked for.
TimerAgrees ==
    /\ promised = None <=> durationMs = 0
    /\ promised > 0 => Since(now, durationTimestamp) = durationMs - promised
    /\ promised = 0 => Since(now, durationTimestamp) >= durationMs

\* Unless commands raced, it does so outside them and after the statement that
\* takes the time; before that the duration is on its way.
TimerInv ==
    ~raced =>
        /\ \E t \in Task : ~Inside(t)
        /\ (\A t \in Task : pc[t] \notin CommandStep \ {"schedule", "restore"})
               => TimerAgrees
        /\ \A t \in Task :
            /\ pc[t] = "stored" => argument[t] = storedTurnOnDurationMs
            /\ pc[t] \in {"test", "arm", "disarm"} => durationMs = argument[t]
            /\ pc[t] = "arm" => durationMs # 0
            /\ pc[t] = "disarm" => durationMs = 0

\* What is on flash is what was left, to the millisecond, and so is what goes
\* there.
FlashInv ==
    /\ savedPromise >= 0 => ~IsStaircase /\ saved.duration = savedPromise
    /\ draft.promise >= 0 => ~IsStaircase /\ draft.duration = draft.promise

\* How far the save is, as a function of the time since the last command.
ScheduleInv ==
    LET age == Since(now, lastWriteTimestamp)
    IN  /\ unsaved \in 0 .. DelayMax =>
               age \in Period - DelayMax + unsaved
                          .. Period - DelayMin + unsaved
        /\ unsaved > DelayMax => age > Period

IInv == TypeOK /\ TaskInv /\ TimerInv /\ FlashInv /\ ScheduleInv
=============================================================================
