# Sonoff POW Elite firmware: TLA+ models and proofs

This directory holds TLA+ modules for the firmware of the repository: a SUPLA
device (library `lib/SuplaDevice`) with a dual-coil latching relay, a button, a
CSE7766 energy meter and a TM1621 display. The modules are translated from the
code; TLC checks them on small instances and TLAPS proves the main properties for
every value of their constants. `PROJECT.json` lists the runs, the source lines of
each definition, the findings, the hazards and the theorems.

Notation: `relay.cpp`, `storage.cpp` and the like are files below
`lib/SuplaDevice/src/supla/`; `Bistabile2Relay.cpp` and `CSE_7766.cpp` are below
`lib/SuplaDeviceExtensions/src/supla/`.

## 1. Inventory

The default build is for the ESP32 (`platformio.ini`, `default_envs`). Two tasks
run the program:

* the **loop task**: `setup()` and `loop()`, i.e. `SuplaDevice.begin()` and
  `SuplaDevice.iterate()`: `iterateAlways()` of every element, the save of the
  elements' state, the protocol layer and `iterateConnected()` of the elements;
* the **timer task** (`esp_timer`): a Ticker of 10 ms (`timer.cpp`) calls
  `onTimer()` of the elements; the button debounces there and runs its actions,
  so a button press executes `Relay::handleAction(TOGGLE)` in the timer task.

`timerAccessMutex` is taken by the timer task only, so it does not order the two.

| Component | State | Operations | Hard behaviour | What makes it correct |
|---|---|---|---|---|
| Bistable relay (`Bistabile2Relay.cpp`) | pins, `activePin`, `pulseStart`, `pulseActive`, `state`, channel value | `turnOn`, `turnOff`, `startPulse`, `iterateAlways`, `onInit` | two tasks in it at once, commands during a pulse, wrap of `millis()` | one coil at a time, pulses long enough and finite, report = contact |
| Relay channel (`relay.cpp`, `virtual_relay.cpp`) | `durationMs`, `durationTimestamp`, `storedTurnOnDurationMs`, `stateOnInit`, `initDone` | server commands, toggle, expiry, save, load, configuration | timers across wraps and restarts, functions with their own durations | never early, always served, resumed after a restart |
| State-save schedule (`storage.cpp` 262-282) | `lastWriteTimestamp` | `scheduleSave`, `saveStateAllowed` | three timestamps modulo 2^32 moved by every command | saved within the delay, a burst saved once |
| State storage (`storage.cpp`, `simple_state.cpp`, `eeprom.cpp`) | sections, headers, CRCs, RAM copy of the EEPROM | read, write and delete of sections, save and load of the elements | a reset between writes, a section that grows | a record read back is one that was written |
| Button (`button.cpp`, `simple_button.cpp`) | debounce and filter timestamps, click counter, hold flags | `update`, `onTimer`, `handleAction` | bouncing contacts, multiclick against hold, wrap | a press is neither lost nor doubled |
| Channel delivery (`channel.cpp`, `element.cpp`) | value, `changedFields` | `setNewValue`, `sendUpdate`, `fillDeviceChannelStruct`, `onRegistered` | flags updated by both tasks, lost connections | the server never goes back to an older value and ends up with the last one |
| Server link (`supla_srpc.cpp`) | `registered`, client, `lastIterateTime`, `waitForIterate`, response times, `activityTimeoutS` | connect, register, result, ping, disconnect | lost and late answers, timeouts and retries | heard in time, given up when and only when the server is silent, always back |
| Energy meter (`CSE_7766.cpp`, `lib/CSE7766`) | pulse counter, sensor energy, base, counter | `handle`, `readValuesFromDevice`, `setCounter`, save, load | 16-bit wrap, restart, relay off | the counter never goes back and never counts twice |
| Main loop (`SuplaDevice.cpp`) | device mode, status, pointers into the element list | `begin`, `iterate`, `iterateAlwaysElements` | order of load, init and timers | the order the elements rely on |
| Remote configuration, conditions, GUI, web pages, OTA, Wi-Fi, MQTT, display | | | mostly I/O and formatting | |

Interactions: the button calls the relay (timer task); the server link calls
`handleNewValueFromServer` of the relay (loop task); the relay writes its channel,
whose flags the server link polls through `iterateConnected`; the relay calls
`Storage::ScheduleSave`, and the main loop then calls its `onSaveState`; the meter
reads the relay's channel. When the link registers, the registration message takes
every channel's value along and clears its flag, while the button may change it.

## 2. Modules

| Module | Models | Extends |
|---|---|---|
| `LatchingRelay` | abstract: what the bistable relay promises while commands keep apart | |
| `BistableRelay` | `Bistabile2Relay.cpp` statement by statement, two tasks, hardware contact | instance of `LatchingRelay` |
| `MCBistableRelay` | instance for TLC | `BistableRelay` |
| `BistableRelay_proofs` | theorems about it | `BistableRelay`, TLAPS |
| `SaveSchedule` | `scheduleSave`, `saveStateAllowed` as operators | |
| `Relay` | the commands and saves of `relay.cpp` statement by statement, two tasks, with load and restarts | `SaveSchedule` |
| `MCRelay` | instance for TLC | `Relay` |
| `Relay_proofs` | theorems about it | `Relay`, TLAPS |
| `EnergyMeter` | `CSE7766.cpp` and the counter of `CSE_7766.cpp`, with save and restart | |
| `MCEnergyMeter` | instance for TLC | `EnergyMeter` |
| `EnergyMeter_proofs` | theorems about it | `EnergyMeter`, TLAPS |
| `Session` | abstract: what the link to the server promises, one session per connection | |
| `Mirror` | abstract: what the delivery of values promises | |
| `ChannelDelivery` | `changedFields`, `sendUpdate`, registration, the round of `iterateConnected`, between two tasks, the server and a connection that dies | instances of `Mirror`, `Session` |
| `MCChannelDelivery` | instance for TLC | `ChannelDelivery` |
| `ChannelDelivery_proofs` | theorems about it, both refinements included | `ChannelDelivery`, TLAPS |
| `ServerLink` | `SuplaSrpc::iterate` with its timeouts, server and network | instance of `Session` |
| `MCServerLink` | instance for TLC | `ServerLink` |
| `ServerLink_proofs` | theorems about it | `ServerLink`, TLAPS |
| `Button` | `ButtonState::update` and `Button::onTimer` | |
| `MCButton` | instance for TLC | `Button` |
| `Button_proofs` | theorems about it | `Button`, TLAPS |

### BistableRelay

`pc[t]` is the statement that task `t` executes next. A command is
`digitalWrite(pin, HIGH)`, `activePin = pin`, `pulseStart = millis()`,
`pulseActive = true` (`startPulse`), `state = on` (`VirtualRelay`), then
`setNewValue(on)`; between any two the other task may run. `Relay::turnOn` and
`turnOff`, which `VirtualRelay` calls, return at once because `initDone` is set by
`Relay::onInit` only and `BistableRelay` overrides it; the same holds for
`Relay::iterateAlways`. `iterateAlways()` that finds nothing to do is a stuttering
step. `ButtonToggle` reads `state` when the command starts, as `toggle()` does.

The hardware is a contact that follows a coil driven alone for `PulseTime`
milliseconds, may follow one driven for less, and may end up anywhere while both
are driven; it keeps its position through a reset. `raced` and `overlapped` are
history: some properties hold only as long as the tasks were never in the relay
together, or no command began during a pulse. They are the code's actual
preconditions, and `relay_stuck_coil` shows what happens beyond the second. Beyond the
first, a race may leave `activePin`, `pulseActive`, `state` and the channel value in any
combination; `settled` says that no other task was in the relay during the last command
or since, and `PulseBookkeeping` that such a command has put all of them right.

`LatchingRelay` is what remains when one does not look between the statements: a
`Command` reports and drives at once, the contact moves (`Move`), the coil is let go
(`Release`), a `Reset` may come at any moment; `calm` is neither `raced` nor
`overlapped`, and beyond it nothing is promised until the next reset. The mapping takes
a command for done as soon as its pin is driven: until `setNewValue` has run, the
reported state is the command's.

### SaveSchedule and Relay

`SaveSchedule` holds the modular arithmetic of `storage.cpp` 262-282: `Since` is
an unsigned difference, `Earlier` the cast to `int32_t` compared with 0. `Relay`
adds the fields of the class `Relay` itself, which are not those of `BistableRelay`,
and what both tasks do with them.

A command is called (`ServerTurnOn`, `ServerTurnOff`, `Expire` in the loop task,
`ButtonToggle` in the timer task) and then executed statement by statement; `pc[t]`
is the next one of task `t`:

| `pc[t]` | In the code |
|---|---|
| `"state"` | `VirtualRelay::turnOn`, `turnOff`: `state` is set; test of `initDone` |
| `"duration"` | `durationMs = duration` (`relay.cpp` 496) |
| `"stored"` | `durationMs = storedTurnOnDurationMs` of a staircase timer (504) |
| `"test"` | `if (durationMs != 0)` (508) |
| `"arm"`, `"disarm"` | `durationTimestamp = millis()`, `= 0` (509, 511) |
| `"schedule"` | `ScheduleSave` (485, 537) |
| `"restore"` | `storedTurnOnDurationMs = copyDurationMs` (436) |
| `"save"` | the loop is behind `iterateAlways` and asks `SaveStateAllowed` (`SuplaDevice.cpp` 888) |
| `"store"` | first half of `onSaveState`, which reads the timer (`relay.cpp` 597-622) |
| `"flags"` | its second half, which reads `isOn()` (623-629), and the write to flash |

Between two statements the other task may run and, where `Preempted` is TRUE, time may
pass. `toggle()` reads `isOn()` when the command is called. `scheduleSave` is one step:
whatever it reads of `lastWriteTimestamp`, what it writes is between `DelayMin` and
`DelayMax` ahead of `Period`. The loop reads `millis()` once at the beginning of `iterate`
and decides about the save by that value (`Iterated`), while `onSaveState` reads the
clock again; `lag` is the difference. `softRestart()` goes to `"store"` without asking
(`BeginSoftRestart`) and ends in `SoftRestart`; the 500 ms it waits are left out, as
nothing is written to flash during them. `Restart` is a cut at any other point.

`Class` selects the subclass. With `"VirtualRelay"` the base class works as
intended; with `"BistableRelay"` `initDone` stays false and `TimerDue` never holds.
`func` is the channel function, power switch or staircase timer, which decides what
a duration means. Both restarts end in `Boot`: load, then `onInit`, at `millis()` = 1.
`promised`, `savedPromise` and `unsaved` are history variables: how much of the
countdown last asked for is left, what it was when the record was saved, and how
long ago the last unsaved command was.

`raced` says that the other task was in the relay during the last command. What is
promised then is nothing (`promised = None`), and a record read then promises nothing
either. The condition is needed: `applyDuration` writes `durationMs` before
`durationTimestamp`, so that the loop's `iterateAlways` in between compares the new time
with the old start. A press that switches a staircase timer on can switch it off at once
that way, and TLC shows `NeverEarly` to fail without `~raced` as well as without
`~Inside("timer")`. The properties say that the effect ends there: with the next command
that is alone in the relay a countdown is neither early nor forgotten again. This
concerns the base class; on this board `initDone` keeps `applyDuration` from running.

### EnergyMeter

| Variable | In the code |
|---|---|
| `chip` | the pulse counter of the chip, modulo `Wrap` (2^16) |
| `cf_pulses_last` | static variable of `CSE7766::_process`, 0 for "no frame yet" |
| `sensorEnergy` | `CSE7766::_energy`, what `getEnergy()` returns |
| `base`, `energy` | `_energy` and `energy` of `CSE_7766`: the counter when it was last set, and the counter |
| `relayOn` | value of the relay's channel, which `readValuesFromDevice` tests |
| `saved` | the counter in the element's record on flash |

`Frame` is one complete `handle()`, `ReadValuesFromDevice` one refresh,
`ChangeCounter` a reset from the server or a value from the web page, `Restart` the
load of the record, with the chip keeping its counter (reset of the processor) or
losing it (power cut). `SetCounter` is the method that three of them call. `pending`
and `drawn` are history: the pulses that no frame has reported yet, and those that
can count after the last `setCounter`.

### Session

`Session` has two variables, what the device takes itself for (`"closed"`, `"asking"`,
`"registered"`) and what the server has granted on the present connection. The device
asks, the server grants, the device learns; a connection can vanish unnoticed, and a
grant never outlives it. `ServerLink` and `ChannelDelivery` look at the same link with
different eyes, one with the timeouts and without the messages, the other the other way
round. Both implement `Session`, so that the registrations the delivery relies on are
those that the link provides. The mapping reads the server's `session` in
`ChannelDelivery` and the acceptance in the `inbox` in `ServerLink`.

### Mirror and ChannelDelivery

`Mirror` has two variables, the values and what the server shows. `Change` is a new
value; `Learn` lets the server take over newer values, never older ones. Its fairness
says that a picture that is behind catches up.

`ChannelDelivery` composes the channel, the main loop and the link. A value is its
version, so that "older" has a meaning.

| Variable | In the code |
|---|---|
| `value`, `sendValue` | `Channel::value`, `CHANNEL_SEND_VALUE` of `changedFields` |
| `timerAt` | the timer task is between the `memcpy` and the flag of `setNewValue` |
| `timerNews` | relays whose `timerUpdateTimestamp` and `durationTimestamp` differ |
| `loopAt`, `iterateConnectedPtr` | where `SuplaDeviceClass::iterate` is, and the element whose turn it is |
| `form` | the registration message as far as it is filled |
| `registered`, `connection` | `SuplaSrpc::registered`, the TCP connection as it really is |
| `toServer`, `toDevice`, `session`, `seen` | messages on their way, the server |

The registration fills one element per step, and between `FillClear` (the flag) and
`FillCopy` (the value) the timer task may run; so may it between `UpdateClears` and
`UpdateSends` of `sendUpdate`. The read of the value and the write to the socket are
one step. `ping()` that gives up disconnects but lets the round go on (`PingTimeout`),
so that an element may clear its flag and send into nothing, as in the code. A
connection that is `"dead"` takes messages and loses them until the device notices.

### ServerLink

A tick is a second. Every time stamp of the code is the time since it was taken,
`waitForIterate` the time left. The actions from `IterateWaits` to `IterateFails` are
the ways through one call of `SuplaSrpc::iterate`; `VersionErrorFails`,
`VersionErrorGoesOn` and `VersionErrorResets` are what can happen after
`onVersionError` has freed the object that `srpc_iterate_device` still uses. `inbox` is
what has arrived and `owed` the age of what the server has to answer. The server may
answer late (up to `ServerDelay`), fall silent, refuse, close, be gone, or ask for
another activity timeout; the network may be lost. `RestartNetwork` is what the main
loop does when the sixth failure in a row asks for it. `failsInRow` and `sinceFail` are
history.

### Button

One step is one call of `onTimer`, every 10 ms or a little later (`MaxLate`), or one
unit of time. `Watch(reading)` and `Accept(reading)` are `ButtonState::update` without
and with a change; the other actions add what `onTimer` does after it: `AcceptPress`
counts, `SendHold` and `ForgetClicks` are the two conditions of a pressed button,
`ReportClicks` and `CountNothing` those of a released one. `clickCounter = 255` is
`Reported`. A mode is what the set-up gives the button: `multiclickTimeMs`,
`holdTimeMs` and the longest series anything listens to. `line`, `lineFor`,
`sinceAccept`, `presses`, `rested` and `heldSent` are history.

The time stamps are those of the code, modulo `TimeSpan`, because two things happen
when `millis()` has come round since the last change: polls do not look for the
debounce time, and a button that listens to no clicks takes the time for a pause that
has just begun. `NoiseRejected` and `PauseSettles` name these cases; no press is lost
by them (`PressNotLost`).

Not in the model: `CONDITIONAL_ON_PRESS`. Its description (`events.h` 57-62) speaks of
the first press of a series only; `onTimer` tests `clickCounter <= 1` before it counts,
so the second press sends it too. No button of this board uses the event.

## 3. Runs

| Run | Result | Shows |
|---|---|---|
| `relay_pulse` | pass, 452 916 states | type, `PulseBookkeeping`, `CoilsExclusive`, `ContactFollowsReport`, `NoShortPulse`, `CoilReleased`, and `ActsAtOnce`: `BistableRelay` implements `LatchingRelay` |
| `relay_stuck_coil` | `ImpulsesEnd` violated | an opposite command within the pulse leaves the first coil driven |
| `relay_countdown` | pass, 1 079 926 states | type, `NeverEarly`, `CountdownServed`, `CountdownResumed`, `SaveWithinDelay`, `BurstSavedOnce` for `VirtualRelay` |
| `relay_orphan` | `CountdownSurvivesRestart` violated | a record read after the countdown has run out and before `iterateAlways` switches loses it |
| `bistable_restore` | `RestoredAsSaved` violated | the board's relay forgets its state over a restart |
| `bistable_countdown` | `CountdownServed` violated | it never ends a countdown |
| `energy_meter` | pass, 68 148 states | type, `PulsesCounted`, `CounterNeverBack`, `OverchargeBounded` |
| `energy_overcharge` | `NeverOvercharged` violated | setting the counter charges a share of it again |
| `channel_delivery` | pass, 246 928 states | type, `NothingForgotten`, `EveryElementServed`, and `FollowsTheDevice`, `RunsSessions`: `ChannelDelivery` implements `Mirror`, on a link that implements `Session` |
| `server_link` | pass, 253 668 states | type, `HeardInTime`, `SilenceNoticed`, `ResponsiveKept`, `FailuresSpaced`, `ComesBack`, and `RunsSessions`: `ServerLink` implements `Session` |
| `link_timeout_byte` | `GivesUpWhenAsked` violated | a timeout of 260 s gives up after 14 s |
| `button` | pass, 6 213 826 states | type, `NoiseRejected`, `PressNotLost`, `ClicksCounted`, `PauseSettles`, `HeldOnce`, `HoldNotLost` |

Bounds. `PulseTime = 2`, `TimeSpan = 4`: a pulse is shorter than the clock's period and
straddles its wrap at every phase, both tasks can be at any pair of statements, and a
command can come before, during and after a pulse. For the relay `HalfSpan = 3` makes the
clock wrap every 6 ticks, with a period of 2 and a delay and a minimum of 1; the
countdowns 0 and 2 and the staircase times 1 and 2 end before, with and after a save, and
`MaxLag = 1` lets a millisecond pass between the reading of the clock, the decision to
save and the two halves of the record. `Preempted` is FALSE: no millisecond begins while a
task is in a command. The theorems hold for both values; with TRUE and the countdown 2
alone TLC finds 3 130 601 states and no error, liveness included, but takes too long for a
run. The three runs that show a violation have `HalfSpan = 6`, a period of 4 and a delay
of 3, so that the schedule does not crowd out the case. `unsaved` stops counting at
`DelayMax + 1`, `promised` at 0; nothing else is bounded. For the meter the pulse counter
has four values, so that it wraps between frames at every position; a pulse is 2 and a
unit of the counter 3, so that the division truncates; `drawn <= MaxDrawn` and `saved <=
MaxSaved` at a restart bound the state space, which is enough for two restarts that each
raise the counter. `ReadInTime` keeps the chip from coming round between two frames:
frames come every 50 ms, a round takes hours at full load.

For the delivery: two elements, the first a meter that asks to be sent in every round
and the second a relay that the button switches, so that one can take the other's
turn; three versions (`MaxVersion`), so that a value can change during a registration
and again during the next; one message in flight in each direction (`MaxInFlight`),
which blocks a sender as a full socket does; two faults (`MaxFaults`), so that a
connection can die during the recovery from a first loss. For the link: the real
constants of the code in seconds, a default timeout of 7 and a request for 3, which
the minimum raises to 6; `ServerDelay = 3` is late enough to cross a ping; ages stop at
`Oldest = 18`, beyond every timeout; two faults. For the button: `MaxLate = 2` makes
polls come at both parities, so that each of the strict comparisons is met on both
sides; debounce 2 and filter 1 let two presses fall within a multiclick time of 6; the
clock wraps at 29, just after the longest wait, at every phase of a press;
`MaxPresses = 4` is more than any series counts.

Fairness. The loop calls `iterateAlways()` and the save again and again, a task that
entered a method finishes it, and time passes: weak fairness of `Poll`, `PollStatement`,
`CommandStatement(t)` and `Tick` in `BistableRelay`; of `LoopStep` (the loop goes on,
wherever it is), `CommandStatement("timer")` and `Tick` in `Relay`. Commands,
restarts and resets are never fair. `Tick` does not pass the moment at which an
unsigned distance wraps while the loop still has to react to it: the loop is taken
to run at least once in 49 days. `EnergyMeter` and `Button` have safety properties only
and assume no fairness.

`ChannelDelivery`: the loop and the timer task run (`WF` of `Link \/ Round` and of
`TimerFlags`), the server reads what it is sent (`WF` of `Server`), and on a connection
that is dead a timeout comes although the loop often finds it not yet due (`SF`); that
it comes is what `ServerLink` shows as `SilenceNoticed`. Lost connections and rejections
are never fair, but `MaxFaults` bounds them: nothing can be delivered while they go on
for ever. `ServerLink`: the loop iterates and time passes (`Iterate`, `Tick`), an
interface that was restarted gets ready, a server that was gone comes back, and one
that is not silent answers (`NetworkReady`, `ServerBack`, `ServerAnswers`).

The abstract modules promise fairness of their own, which these runs show to follow: a
grant is learned of and a lost connection noticed (`Session`), a driven coil moves the
contact and is let go (`LatchingRelay`), the server's picture catches up (`Mirror`).

Mutants. The operators named `X_...` before an operator `X` are plausible slips of
that code (a bound dropped, `>=` for `>`, a sum that is not reduced); each makes one
of the properties fail under its run.

## 4. Findings

1. `Bistabile2Relay.cpp:62`: `startPulse` during a pulse of the other coil forgets
   that coil; it stays driven until a later command to its side. The library's own
   `BistableRelay` ignores commands while it is busy.
2. `relay.cpp:611`: `onSaveState` compares a later `millis()` than `iterateAlways` did,
   and with `<` where that has `>`. A record read after the countdown has run out and
   before it has switched (by `softRestart`, which saves at any moment, or by a save a
   millisecond after `iterateAlways`) says "nothing left", and a relay restored from it
   stays as it is.
3. `Bistabile2Relay.cpp:33`: `onInit` drops the state that `setDefaultStateRestore`
   asks for: relay and report are off after a restart, the contact may be on.
4. `Bistabile2Relay.cpp:67`: `iterateAlways` does not run the countdown that the
   channel announces. For the same reason, `initDone` is never set, no command
   schedules a save (`relay.cpp:463`): a reset within the period of 600 s loses it.
5. `CSE_7766.cpp:166`: `setCounter` stores the value as the base and hands it to the
   sensor as accumulated energy too, which is then divided by 36 and added to the
   base: each restart raises the counter by 1/36 of its value once the relay is on.
   `OverchargeBounded` shows that it is no more than that.
6. `supla_srpc.cpp:744`: `setActivityTimeout` checks the minimum before it cuts the
   value to a byte. Of 256 to 261 seconds it keeps 0 to 5; below 5 the unsigned
   `activityTimeoutS - 5` is never reached, no ping is sent and a quiet connection is
   given up too early.

## 5. Proofs

The six `_proofs` modules are checked by `tlapm`. Assumptions on the constants: `PulseTime
> 0`, `TimeSpan > PulseTime + 1`; for the schedule `0 < DelayMin <= DelayMax <= Period <
HalfSpan` and `DelayMax + MaxLag <= Period` (5 s and one iteration of the loop against 600
s), durations up to `HalfSpan`; the theorems about countdowns and saves assume `Class =
"VirtualRelay"`; for the meter `Wrap > 1` and `Divisor > 0`; for the delivery at least one
element, version and message; for the link `ServerDelay < Grace` and ages that go beyond
every timeout, and for `HeardInTimeHolds` and `ResponsiveKeptHolds` `FitsByte`: every
timeout asked for is below 256, which finding 6 shows to be needed; for the button polls
no rarer than the debounce time and a clock longer than what the button waits for.

*Bistable relay.* The properties speak about moments when both tasks are idle, so they are
not inductive. `PulseInv` says what each statement of a handler may rely on (for instance:
between `activePin = pin` and the end of the command, `activePin` is the commanded coil
and that pin is HIGH), `DriveInv` which coils are driven at each statement if commands do
not overlap, `LatchInv` how the time a coil has been driven relates to `millis() -
pulseStart`, hence that the contact has moved by the time the pin is lowered. `SettledInv`
is what of `PulseInv` a command that is alone in the relay establishes whatever it finds;
it holds after races too. `Inductive` proves them together; `BookkeepingHolds`,
`ExclusiveHolds` and `ContactHolds` follow. `NoShortPulse` says more than that a pulse is
not short: as long as the tasks were never in the relay together, a coil that is driven
alone has been so for at least `PulseTime` milliseconds when it is released, even after
commands during a pulse. For that `SoloInv` drops the condition of `LatchInv` that
commands do not overlap and keeps the one on the tasks. `ActsAtOnceSafely` is the
refinement of `LatchingRelay`: `ViewHolds` reads off the invariant what the mapping shows
at each statement, `LatchCases` how one view can follow another, and each statement is
then one of those cases. The statement that decides is `digitalWrite(pin, HIGH)`:
`DriveInv` gives that no coil is driven before it, `LatchInv` that the contact has
followed by the time `iterateAlways` lowers the pin.

*Relay.* `TaskInv` says where each task may be and what it has set aside. `TimerAgrees`
ties the timer to what is left of the countdown asked for; in the middle of a command it
does not hold, and `TimerInv` says what holds there instead, statement by statement, as
long as the tasks have not raced. That a lone command leads back to it needs no
assumption on what a race has left, because the four statements of `applyDuration` write
everything. `FlashInv` ties the record, and the half of it that has been read, to what
was left at that moment; `ScheduleInv` gives the distance of `lastWriteTimestamp` as a
function of the time since the last command, for every task at every statement; its one
real lemma is `ScheduledInTime`, the effect of `scheduleSave` under the modular
comparisons. `VirtualInductive` proves them together. `BurstSavedOnceHolds` has to carry
this over to the older clock by which the loop decides, which takes
`DelayMax + MaxLag <= Period`. Two theorems mark the boundary of the findings:
`LostOnlyWhenItEnds` says that a restart loses a countdown exactly if the record says
nothing is left, and that a record says so exactly if it was read after the countdown
had run out; `BistableNeverCounts` (`Class = "BistableRelay"`) that on the board's relay
no countdown ever ends and no command starts or stops one.

*Energy meter.* `FrameInv` places the chip relative to the last frame, with one case
for the wrap; with it the lemma `DifferenceIsPending` shows that the 16-bit
subtraction of `_process` yields the pulses since that frame, which gives
`PulsesCountedHolds`. `SensorInv` bounds the counter by the sensor's energy and that
energy by what was drawn; `OverchargeBounded` needs it because the counter is computed
at some refresh, from a sensor that has moved on since. The division enters through
`DivMonotone`. `SensorAhead`, that the sensor never has less than the value it was
given, makes it a theorem that every reading is too high by the full share
(`OverchargedByEveryReading`).

*Channel delivery.* `LinkInv` says what a session is: a device that takes itself for
registered on a live connection has been accepted, or its acceptance is on its way.
`ToldInv` follows each value: a channel whose value the server does not have is
flagged, about to be flagged or read, or in a message on its way, and during a
registration the elements already in the form are compared with the form. `OrderInv`
says that the messages of a connection carry versions that never decrease and never
exceed the value, which is why the server cannot go back. `FollowsSafely` is the
refinement: each step is a `Change`, a `Learn` or a stutter of `Mirror`.
`RunsSessionsSafely` is the refinement of `Session`; it needs `AnswerInv`, that a
registration is answered once, to a device that waits for it, and that a refusal ends
the talk.

*Server link.* `Steady` is who may be waiting, connected or registered; `Said` and
`Noticed` bound the silence of either side before and after the loop has iterated in a
tick; `Responsive` ties the age of the last response to the last ping, for a server
that owes nothing, and to the age of its debt otherwise; `Spaced` relates
`firstConnectionAttempt`, the wait and the time since the last failure.
`GivesUpWhenAskedHolds` proves the comment of `ping()` under `FitsByte`, so that the
byte is the only thing wrong in finding 6. `RunsSessionsSafely` rests on `Agreed`: a
connection is always one the device asks or is registered on, and as long as the server
owes an answer none has arrived.

*Button.* `AgeInv` says when a difference of time stamps is a true age. `FilterInv`,
`CandidateInv` and `LineInv` bound how long a level can be found without being accepted:
by the filter, or by the debounce time after an accepted change, or by that after a wrap,
and never by two of the last in a row. `SeriesInv` makes the counter the number of
presses, `PauseInv` and `HoldInv` say what the first and the second poll after a limit
have done. `Inductive` proves them together, and all seven properties of the run follow
for every clock, delay and set-up.

Only model-checked: the liveness properties `CoilReleased`, `CountdownServed`,
`EveryElementServed`, `ComesBack`, the fairness half of `FollowsTheDevice`,
`RunsSessions` and `ActsAtOnce` (the prover handles no fairness), and the violations.

## 6. Not modelled

* State storage (`simple_state.cpp`, `eeprom.cpp`, sections of `storage.cpp`):
  sequential code over a RAM copy that `commit()` writes as one blob; size and CRC
  headers reject what does not fit. A model would have to invent a flash that tears
  writes, which the library does not expose. When a save happens and what it brings
  back are in `SaveSchedule`, `Relay` and `EnergyMeter`.
* Remote configuration (`element_with_channel_actions.cpp`): requests and
  acknowledgements of configuration changes. With the board's overcurrent limit of 0 the
  relay has nothing of its own to announce; the staircase time is an input of `Relay`.
* Of `Relay`: the overcurrent cut-off (limit 0), change of the function at run time,
  impulse and cyclic functions, buttons attached with `attach()`, and the restart after a
  factory reset, before which `softRestart` saves nothing.
* Of the button: bistable buttons and motion sensors, repeated holds, disabling,
  `waitForRelease`, the hold on power-on. No set-up of this board uses them.
* Of the link: autodiscovery of the server, the result that asks for configuration
  mode, sleeping channels, the handlers of the other messages; of the main loop:
  configuration mode, factory reset, status, updates of the firmware.
* Other channels of the library that this board does not instantiate (the larger part
  of its lines), MQTT, web pages, OTA, Improv, display, GUI configuration, the wire
  protocol and vendored code: formatting and I/O, with little state of their own.
  `PROJECT.json` lists each with its reason.
