--------------------------- MODULE BistableRelay ---------------------------
(***************************************************************************)
(* The dual-coil latching relay of the Sonoff POW Elite: BistableRelay     *)
(* (Bistable2Relay.h, Bistabile2Relay.cpp) on top of VirtualRelay.         *)
(*                                                                         *)
(* A command raises the pin of one coil and lets iterateAlways() lower it  *)
(* pulseTime milliseconds later.  The firmware is built for the ESP32      *)
(* (platformio.ini, default_envs), where two tasks run these methods in    *)
(* parallel: the Arduino loop task ("loop": server commands and            *)
(* iterateAlways) and the esp_timer task ("timer": Ticker -> onTimer ->    *)
(* Button -> Relay::handleAction(TOGGLE)).  timerAccessMutex is held by    *)
(* the timer task only, so the two interleave between any two accesses of  *)
(* the shared fields; every such access is a step here.                    *)
(***************************************************************************)
EXTENDS Integers

CONSTANTS
    PulseTime,   \* ms a coil is to be driven (100 in setup())
    TimeSpan     \* modulus of millis() (2^32 in the code)

ASSUME PulseTimeAssumption == PulseTime \in Nat \ {0}
ASSUME TimeSpanAssumption  == TimeSpan \in Nat /\ TimeSpan > PulseTime + 1

VARIABLES
    now,          \* millis()
    level,        \* level[p]: the pin of coil p is HIGH
    activePin,    \* the pin iterateAlways() will lower
    pulseStart,   \* millis() at the last startPulse
    pulseActive,
    state,        \* VirtualRelay::state, what isOn() returns
    value,        \* the channel value reported to the server
    pc,           \* pc[t]: the statement task t executes next
    target,       \* target[t]: the state task t's command asks for
    contact,      \* the latching contact is closed (hardware)
    held,         \* held[p]: ms for which p alone has been driven (hardware)
    raced,        \* history: since reset, both tasks were inside the relay
    settled,      \* history: not since the last command began
    overlapped,   \* history: since reset, a command began during a pulse
    commanded     \* history: a command has completed since reset

pulseVars   == <<level, activePin, pulseStart, pulseActive>>
relayVars   == <<state, value>>
hardware    == <<contact, held>>
historyVars == <<raced, settled, overlapped, commanded>>
vars == <<now, pulseVars, relayVars, pc, target, hardware, historyVars>>

Coil  == {"set", "reset"}
NoPin == "none"
Task  == {"loop", "timer"}

CommandStep == {"pin", "active", "start", "flag", "state", "value"}
PollStep    == {"low", "clear", "none"}

CoilFor(on)   == IF on THEN "set" ELSE "reset"
Position(p)   == p = "set"
Other(t)      == IF t = "loop" THEN "timer" ELSE "loop"
Quiet         == \A t \in Task : pc[t] = "idle"
HighCoils     == {p \in Coil : level[p]}

\* millis() - pulseStart in unsigned arithmetic modulo TimeSpan
Elapsed == IF now >= pulseStart THEN now - pulseStart
                                ELSE now - pulseStart + TimeSpan

TypeOK ==
    /\ now \in 0 .. TimeSpan - 1
    /\ pulseStart \in 0 .. TimeSpan - 1
    /\ level \in [Coil -> BOOLEAN]
    /\ activePin \in Coil \cup {NoPin}
    /\ pulseActive \in BOOLEAN
    /\ state \in BOOLEAN
    /\ value \in BOOLEAN
    /\ pc \in [Task -> {"idle"} \cup CommandStep \cup PollStep]
    /\ target \in [Task -> BOOLEAN]
    /\ contact \in BOOLEAN
    /\ held \in [Coil -> 0 .. PulseTime]
    /\ raced \in BOOLEAN
    /\ settled \in BOOLEAN
    /\ overlapped \in BOOLEAN
    /\ commanded \in BOOLEAN

----------------------------------------------------------------------------
(* Construction and onInit(): both pins LOW, nothing known of the contact. *)

PowerOn ==
    /\ now = 0
    /\ level = [p \in Coil |-> FALSE]
    /\ activePin = NoPin
    /\ pulseStart = 0
    /\ pulseActive = FALSE
    /\ state = FALSE
    /\ value = FALSE
    /\ pc = [t \in Task |-> "idle"]
    /\ target = [t \in Task |-> FALSE]
    /\ held = [p \in Coil |-> 0]
    /\ raced = FALSE
    /\ settled = TRUE
    /\ overlapped = FALSE
    /\ commanded = FALSE

Init == PowerOn /\ contact \in BOOLEAN

\* A reset at any point: RAM and pins start again, the contact stays put.
Reset ==
    /\ now' = 0
    /\ level' = [p \in Coil |-> FALSE]
    /\ activePin' = NoPin
    /\ pulseStart' = 0
    /\ pulseActive' = FALSE
    /\ state' = FALSE
    /\ value' = FALSE
    /\ pc' = [t \in Task |-> "idle"]
    /\ target' = [t \in Task |-> FALSE]
    /\ held' = [p \in Coil |-> 0]
    /\ raced' = FALSE
    /\ settled' = TRUE
    /\ overlapped' = FALSE
    /\ commanded' = FALSE
    /\ UNCHANGED contact

----------------------------------------------------------------------------
(* Commands: turnOn and turnOff, statement by statement.                   *)

\* Task t enters a method of the relay whose first statement is s.
Enter(t, s) ==
    /\ pc[t] = "idle"
    /\ pc' = [pc EXCEPT ![t] = s]
    /\ raced' = (raced \/ pc[Other(t)] # "idle")

Step(t, from, to) ==
    /\ pc[t] = from
    /\ pc' = [pc EXCEPT ![t] = to]

Command(t, on) ==
    /\ Enter(t, "pin")
    /\ target' = [target EXCEPT ![t] = on]
    /\ settled' = (pc[Other(t)] = "idle")
    /\ overlapped' = (overlapped \/ pulseActive)
    /\ UNCHANGED <<now, pulseVars, relayVars, hardware, commanded>>

\* Relay::handleNewValueFromServer in the loop task: 1 is on, 0 is off
ServerCommand(on) == Command("loop", on)

\* Button ON_PRESS -> Relay::handleAction(TOGGLE) -> toggle() in the timer task
ButtonToggle == Command("timer", ~state)

DrivePin(t) ==       \* digitalWrite(pin, HIGH)
    /\ Step(t, "pin", "active")
    /\ level' = [level EXCEPT ![CoilFor(target[t])] = TRUE]
    /\ UNCHANGED <<now, activePin, pulseStart, pulseActive, relayVars, target,
                   hardware, historyVars>>

SetActivePin(t) ==   \* activePin = pin
    /\ Step(t, "active", "start")
    /\ activePin' = CoilFor(target[t])
    /\ UNCHANGED <<now, level, pulseStart, pulseActive, relayVars, target,
                   hardware, historyVars>>

\* Mutant of SetPulseStart: a deadline kept without the wrap.
SetPulseStart_Deadline(t) ==
    /\ Step(t, "start", "flag")
    /\ pulseStart' = now + PulseTime
    /\ UNCHANGED <<now, level, activePin, pulseActive, relayVars, target,
                   hardware, historyVars>>

SetPulseStart(t) ==  \* pulseStart = millis()
    /\ Step(t, "start", "flag")
    /\ pulseStart' = now
    /\ UNCHANGED <<now, level, activePin, pulseActive, relayVars, target,
                   hardware, historyVars>>

SetPulseActive(t) == \* pulseActive = true
    /\ Step(t, "flag", "state")
    /\ pulseActive' = TRUE
    /\ UNCHANGED <<now, level, activePin, pulseStart, relayVars, target,
                   hardware, historyVars>>

\* VirtualRelay::turnOn/turnOff set state; Relay::turnOn/turnOff then return at
\* once: initDone is set by Relay::onInit only, which BistableRelay overrides.
SetState(t) ==
    /\ Step(t, "state", "value")
    /\ state' = target[t]
    /\ UNCHANGED <<now, pulseVars, value, target, hardware, historyVars>>

SetValue(t) ==       \* getChannel()->setNewValue(on)
    /\ Step(t, "value", "idle")
    /\ value' = target[t]
    /\ commanded' = TRUE
    /\ UNCHANGED <<now, pulseVars, state, target, hardware, raced, settled,
                   overlapped>>

CommandStatement(t) ==
    \/ DrivePin(t)
    \/ SetActivePin(t)
    \/ SetPulseStart(t)
    \/ SetPulseActive(t)
    \/ SetState(t)
    \/ SetValue(t)

----------------------------------------------------------------------------
(* iterateAlways() in the loop task.  A call that finds the pulse running  *)
(* or no pulse changes nothing and is a stuttering step.                   *)

\* Mutants of PulseDue: off by one; a comparison that breaks at the wrap.
PulseDue_OffByOne    == pulseActive /\ Elapsed >= PulseTime - 1
PulseDue_NoWrap      == pulseActive /\ now >= pulseStart + PulseTime

\* What a call reads of pulseActive, millis() and pulseStart is taken as of one
\* moment.
PulseDue ==
    /\ pulseActive
    /\ Elapsed >= PulseTime

Poll ==
    /\ PulseDue
    /\ Enter("loop", "low")
    /\ settled' = (settled /\ pc["timer"] = "idle")
    /\ UNCHANGED <<now, pulseVars, relayVars, target, hardware, overlapped,
                   commanded>>

\* Mutant of ReleasePin: the coil of the present state is lowered.
ReleasePin_ByState ==
    /\ Step("loop", "low", "clear")
    /\ level' = [level EXCEPT ![CoilFor(~state)] = FALSE]
    /\ held' = [held EXCEPT ![CoilFor(~state)] = 0]
    /\ UNCHANGED <<now, activePin, pulseStart, pulseActive, relayVars, target,
                   contact, historyVars>>

ReleasePin ==        \* digitalWrite(activePin, LOW); pin -1 is ignored
    /\ Step("loop", "low", "clear")
    /\ level' = [p \in Coil |-> level[p] /\ p # activePin]
    /\ held' = [p \in Coil |-> IF p = activePin THEN 0 ELSE held[p]]
    /\ UNCHANGED <<now, activePin, pulseStart, pulseActive, relayVars, target,
                   contact, historyVars>>

ClearPulseActive ==  \* pulseActive = false
    /\ Step("loop", "clear", "none")
    /\ pulseActive' = FALSE
    /\ UNCHANGED <<now, level, activePin, pulseStart, relayVars, target,
                   hardware, historyVars>>

\* Mutant of ClearActivePin: the pin is not forgotten.
ClearActivePin_Kept ==
    /\ Step("loop", "none", "idle")
    /\ UNCHANGED <<now, pulseVars, relayVars, target, hardware, historyVars>>

ClearActivePin ==    \* activePin = -1
    /\ Step("loop", "none", "idle")
    /\ activePin' = NoPin
    /\ UNCHANGED <<now, level, pulseStart, pulseActive, relayVars, target,
                   hardware, historyVars>>

PollStatement ==
    \/ ReleasePin
    \/ ClearPulseActive
    \/ ClearActivePin

----------------------------------------------------------------------------
(* A millisecond passes.  A coil driven alone for PulseTime ms has moved   *)
(* the contact to its side; driven for less, it may have; with both coils  *)
(* driven the contact may end up on either side.  The loop is taken to run *)
(* at least once per period of millis() (49 days).                         *)

HeldAfter(p) ==
    IF HighCoils # {p} THEN 0
    ELSE IF held[p] < PulseTime THEN held[p] + 1 ELSE PulseTime

Tick ==
    /\ pulseActive => Elapsed < TimeSpan - 1
    /\ now' = IF now = TimeSpan - 1 THEN 0 ELSE now + 1
    /\ held' = [p \in Coil |-> HeldAfter(p)]
    /\ contact' \in {contact} \cup {Position(p) : p \in HighCoils}
    /\ \A p \in Coil : held'[p] = PulseTime => contact' = Position(p)
    /\ UNCHANGED <<pulseVars, relayVars, pc, target, historyVars>>

Next ==
    \/ Reset
    \/ \E on \in BOOLEAN : ServerCommand(on)
    \/ ButtonToggle
    \/ \E t \in Task : CommandStatement(t)
    \/ Poll
    \/ PollStatement
    \/ Tick

\* Both tasks keep running and time passes; nobody has to send commands.
Fairness ==
    /\ \A t \in Task : WF_vars(CommandStatement(t))
    /\ WF_vars(Poll)
    /\ WF_vars(PollStatement)
    /\ WF_vars(Tick)

Spec == Init /\ [][Next]_vars /\ Fairness

----------------------------------------------------------------------------
(* A race of the two tasks leaves nothing behind in the bookkeeping of the *)
(* pulse that the next command does not put right: between handlers, if no *)
(* other task was inside the relay during the last command or since, a     *)
(* running pulse names a coil, that coil is driven, and the channel        *)
(* reports what isOn() returns.                                            *)
PulseBookkeeping ==
    settled /\ Quiet =>
        /\ pulseActive <=> activePin # NoPin
        /\ pulseActive => level[activePin]
        /\ value = state

(* Without races and with commands at least a pulse apart, the two coils   *)
(* are never driven together, and none stays driven once its pulse ended.  *)
CoilsExclusive ==
    ~raced /\ ~overlapped =>
        /\ HighCoils # Coil
        /\ Quiet /\ ~pulseActive => HighCoils = {}

(* Under the same conditions the relay at rest is where the last command   *)
(* asked it to be: every pulse was long enough to latch, and the contact   *)
(* agrees with the value reported to the server.                           *)
ContactFollowsReport ==
    ~raced /\ ~overlapped /\ commanded /\ Quiet /\ ~pulseActive =>
        contact = value

(* Without races a pulse is never cut short, whatever commands overlap: a  *)
(* coil that iterateAlways switches off while the other one is not driven  *)
(* has been driven alone for the whole PulseTime, long enough to latch.    *)
NoShortPulse ==
    [][ReleasePin /\ ~raced /\ HighCoils = {activePin} =>
           held[activePin] = PulseTime]_vars

(* A driven coil is eventually released, unless commands raced or came     *)
(* closer together than a pulse: the loop keeps calling iterateAlways.     *)
CoilReleased ==
    \A p \in Coil : level[p] ~> (~level[p] \/ raced \/ overlapped)

\* A command has taken effect as soon as its pin is driven.
Commanding == {t \in Task : pc[t] \in CommandStep \ {"pin"}}

Latch == INSTANCE LatchingRelay WITH
    on   <- IF Commanding = {} THEN value
                               ELSE \E t \in Commanding : target[t],
    coil <- IF level["set"] THEN "set"
            ELSE IF level["reset"] THEN "reset" ELSE "none",
    calm <- ~raced /\ ~overlapped

(* The statements of a command, of iterateAlways and of the two tasks look *)
(* like the single steps of LatchingRelay: whatever comes between two      *)
(* statements, a reset included, the coil and the reported state belong    *)
(* together, and the coil is let go once the contact has followed.         *)
ActsAtOnce == Latch!Spec

(* "Supla device will send short impulses (<0.5 s) on GPIO"                *)
(* (bistable_relay.h): as long as the tasks never raced, no coil is driven *)
(* once the pulse is over.  The code breaks it: a command within PulseTime *)
(* of an opposite one overwrites activePin, and nobody lowers the first    *)
(* coil when the pulse of the second one ends.                             *)
ImpulsesEnd ==
    ~raced /\ Quiet /\ ~pulseActive => HighCoils = {}

----------------------------------------------------------------------------
(* The inductive invariant behind these properties, in named parts.        *)

CommandedCoil(t) == CoilFor(target[t])
Consistent ==
    /\ pulseActive <=> activePin # NoPin
    /\ pulseActive => level[activePin]
    /\ value = state

\* Without races at most one task is inside the relay, and only the loop polls.
TaskInv ==
    /\ ~raced => \E t \in Task : pc[t] = "idle"
    /\ pc["timer"] \notin PollStep

\* What each statement of a handler may rely on while no other task interferes.
PulseInv ==
    ~raced =>
        /\ Quiet => Consistent
        /\ \A t \in Task :
            /\ pc[t] \in {"pin", "active"} => Consistent
            /\ pc[t] \in CommandStep \ {"pin"} => level[CommandedCoil(t)]
            /\ pc[t] \in {"start", "flag", "state"} => value = state
            /\ pc[t] \in {"start", "flag", "state", "value"} =>
                   activePin = CommandedCoil(t)
            /\ pc[t] \in {"state", "value"} => pulseActive
            /\ pc[t] = "value" => state = target[t]
        /\ pc["loop"] \in PollStep => value = state /\ activePin # NoPin
        /\ pc["loop"] \in {"low", "clear"} => pulseActive
        /\ pc["loop"] = "low" => level[activePin] /\ Elapsed >= PulseTime
        /\ pc["loop"] = "none" => ~pulseActive

\* Which coils are driven at each statement when commands do not overlap.
DriveInv ==
    ~raced /\ ~overlapped =>
        /\ Quiet =>
               \A p \in Coil : level[p] <=> pulseActive /\ p = activePin
        /\ \A t \in Task :
            /\ pc[t] \in {"pin", "active", "start", "flag"} => ~pulseActive
            /\ pc[t] = "pin" => \A p \in Coil : ~level[p]
            /\ pc[t] \in CommandStep \ {"pin"} =>
                   \A p \in Coil : level[p] <=> p = CommandedCoil(t)
        /\ pc["loop"] = "low" => \A p \in Coil : level[p] <=> p = activePin
        /\ pc["loop"] \in {"clear", "none"} => \A p \in Coil : ~level[p]

\* A coil driven since pulseStart has been held at least as long as Elapsed says.
HeldLongEnough(p) == held[p] >= Elapsed \/ held[p] = PulseTime

\* How the drive of a coil carries the contact to the reported position.
LatchInv ==
    /\ \A p \in Coil : held[p] > 0 => level[p]
    /\ ~raced /\ ~overlapped =>
        /\ \A p \in Coil : held[p] = PulseTime => contact = Position(p)
        /\ \A t \in Task :
            /\ pc[t] \in {"flag", "state", "value"} =>
                   HeldLongEnough(CommandedCoil(t))
            /\ pc[t] = "pin" /\ commanded => contact = value
        /\ Quiet /\ pulseActive =>
               HeldLongEnough(activePin) /\ value = Position(activePin)
        /\ Quiet /\ ~pulseActive /\ commanded => contact = value
        /\ pc["loop"] = "low" =>
               HeldLongEnough(activePin) /\ value = Position(activePin)
        /\ pc["loop"] \in {"clear", "none"} => contact = value

\* The same drive when commands may overlap but one coil only is driven.
Solo == \A p \in Coil : level[p] => p = activePin

SoloInv ==
    ~raced /\ Solo =>
        /\ Quiet /\ pulseActive => HeldLongEnough(activePin)
        /\ \A t \in Task :
            /\ pc[t] \in {"pin", "active"} /\ pulseActive =>
                   HeldLongEnough(activePin)
            /\ pc[t] \in {"flag", "state", "value"} =>
                   HeldLongEnough(activePin)
        /\ pc["loop"] = "low" => HeldLongEnough(activePin)

\* What a command that is alone in the relay leaves behind, whatever it found.
SettledInv ==
    /\ ~raced => settled
    /\ settled =>
        /\ \E t \in Task : pc[t] = "idle"
        /\ Quiet => Consistent
        /\ \A t \in Task :
            /\ pc[t] \in CommandStep \ {"pin"} => level[CommandedCoil(t)]
            /\ pc[t] \in {"start", "flag", "state", "value"} =>
                   activePin = CommandedCoil(t)
            /\ pc[t] \in {"state", "value"} => pulseActive
            /\ pc[t] = "value" => state = target[t]
        /\ pc["loop"] \in PollStep => value = state /\ activePin # NoPin
        /\ pc["loop"] \in {"low", "clear"} => pulseActive
        /\ pc["loop"] = "low" => level[activePin]
        /\ pc["loop"] = "none" => ~pulseActive

IInv ==
    /\ TypeOK
    /\ TaskInv
    /\ PulseInv
    /\ DriveInv
    /\ LatchInv
    /\ SoloInv
    /\ SettledInv
=============================================================================
