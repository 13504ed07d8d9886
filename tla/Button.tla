------------------------------- MODULE Button -------------------------------
(***************************************************************************)
(* The button: ButtonState::update, which decides from noisy readings of a *)
(* pin when the button was pressed and released, and Button::onTimer,      *)
(* which makes clicks, series of clicks and holds of it.  Both run in the  *)
(* timer task, every 10 ms or a little later.                              *)
(*                                                                         *)
(* The button is monostable, is never disabled and repeats no hold, as on  *)
(* this board.  What it is set up for (addConfigESP) is its mode.          *)
(***************************************************************************)
EXTENDS Integers

CONSTANTS
    TimeSpan,           \* millis() counts modulo TimeSpan
    MaxLate,            \* the timer task polls at least this often
    DebounceDelay,      \* debounceDelayMs
    NoiseFilterDelay,   \* swNoiseFilterDelayMs
    Modes,              \* set-ups: multiclickTimeMs, holdTimeMs (0: none) and
                        \* maxMulticlickValueConfigured
    MaxPresses          \* bound: presses counted by the history

\* A press held for longer is not a click.
ClickLimit(m) == IF m.hold > 0 THEN m.hold ELSE 3 * m.multiclick

ASSUME ButtonAssumption ==
    /\ MaxLate \in Nat \ {0}
    /\ NoiseFilterDelay \in Nat \ {0}
    /\ DebounceDelay \in Nat /\ MaxLate <= DebounceDelay
    /\ Modes \subseteq [multiclick : Nat, hold : Nat, max : 0 .. 10]
    /\ TimeSpan \in Nat
    /\ DebounceDelay + NoiseFilterDelay + 4 * MaxLate < TimeSpan
    /\ \A m \in Modes : ClickLimit(m) + m.multiclick + 2 * MaxLate < TimeSpan
    /\ MaxPresses \in Nat
    /\ \A m \in Modes : m.max < MaxPresses

VARIABLES
    now,    \* millis()
    late,   \* since the last poll
    mode,
    prevState,
    newStatusCandidate,
    debounceTimestampMs,
    filterTimestampMs,
    lastStateChangeMs,  \* 0 before the first change
    clickCounter,
    holdSend,
    line,           \* history: what the last poll found at the pin
    lineFor,        \* history: for how long polls have found that
    sinceAccept,    \* history: since a press or release was accepted
    presses,        \* history: presses accepted and not accounted for
    rested,         \* history: a pause, or too long a press, since the last
                    \* series was reported
    heldSent        \* history: ON_HOLD was sent for this press

filterVars  == <<prevState, newStatusCandidate, debounceTimestampMs,
                 filterTimestampMs>>
clickVars   == <<lastStateChangeMs, clickCounter, holdSend>>
lineVars    == <<line, lineFor>>
seriesVars  == <<presses, rested, heldSent>>
vars == <<now, late, mode, filterVars, clickVars, lineVars, sinceAccept,
          seriesVars>>

Level    == {"pressed", "released"}
Time     == 0 .. TimeSpan - 1
Reported == 255     \* clickCounter of a series that is over but for a pause

\* Readings at the pin that last this long are accepted.
Accepted == DebounceDelay + NoiseFilterDelay + 3 * MaxLate

TypeOK ==
    /\ now \in Time
    /\ late \in 0 .. MaxLate
    /\ mode \in Modes
    /\ prevState \in Level
    /\ newStatusCandidate \in Level
    /\ debounceTimestampMs \in Time
    /\ filterTimestampMs \in Time
    /\ lastStateChangeMs \in Time
    /\ clickCounter \in (0 .. mode.max + 1) \cup {Reported}
    /\ holdSend \in 0 .. 1
    /\ line \in Level
    /\ lineFor \in 0 .. Accepted + 1
    /\ sinceAccept \in 0 .. TimeSpan
    /\ presses \in 0 .. MaxPresses
    /\ rested \in BOOLEAN
    /\ heldSent \in BOOLEAN

\* The level that init() finds counts as accepted since the clock began.
Init ==
    /\ now = 1
    /\ late = 0
    /\ mode \in Modes
    /\ prevState \in Level
    /\ newStatusCandidate = prevState
    /\ debounceTimestampMs = 0
    /\ filterTimestampMs = 0
    /\ lastStateChangeMs = 0
    /\ clickCounter = 0
    /\ holdSend = 0
    /\ line = prevState
    /\ lineFor = 0
    /\ sinceAccept = 1
    /\ presses = 0
    /\ rested = TRUE
    /\ heldSent = FALSE

----------------------------------------------------------------------------
(* ButtonState::update                                                     *)

\* An unsigned difference of two values of millis().
Since(t) == IF t <= now THEN now - t ELSE now - t + TimeSpan

Reads == Since(debounceTimestampMs) > DebounceDelay

Differs(reading) == Reads /\ reading # prevState

Confirmed(reading) ==
    /\ Differs(reading)
    /\ reading = newStatusCandidate
    /\ Since(filterTimestampMs) > NoiseFilterDelay

Poll(reading) ==
    /\ late > 0
    /\ late' = 0
    /\ line' = reading
    /\ lineFor' = IF reading = line THEN lineFor ELSE 0
    /\ UNCHANGED <<now, mode>>

\* Mutant: a reading of the old level leaves the candidate in place.
Watch_KeepsCandidate(reading) ==
    /\ Poll(reading)
    /\ ~Confirmed(reading)
    /\ newStatusCandidate' = IF Differs(reading) THEN reading
                                                 ELSE newStatusCandidate
    /\ filterTimestampMs' = IF Differs(reading) /\ reading # newStatusCandidate
                            THEN now ELSE filterTimestampMs
    /\ UNCHANGED <<prevState, debounceTimestampMs, lastStateChangeMs,
                   sinceAccept>>

\* Mutant: the filter starts again with every reading.
Watch_Restarts(reading) ==
    /\ Poll(reading)
    /\ ~Confirmed(reading)
    /\ newStatusCandidate' = IF Reads THEN reading ELSE newStatusCandidate
    /\ filterTimestampMs' = IF Differs(reading) THEN now ELSE filterTimestampMs
    /\ UNCHANGED <<prevState, debounceTimestampMs, lastStateChangeMs,
                   sinceAccept>>

\* No change is accepted: the reading is the new candidate, the old level
\* included, unless the contact may still bounce.
Watch(reading) ==
    /\ Poll(reading)
    /\ ~Confirmed(reading)
    /\ newStatusCandidate' = IF Reads THEN reading ELSE newStatusCandidate
    /\ filterTimestampMs' = IF Differs(reading) /\ reading # newStatusCandidate
                            THEN now ELSE filterTimestampMs
    /\ UNCHANGED <<prevState, debounceTimestampMs, lastStateChangeMs,
                   sinceAccept>>

\* debounceTimestampMs and lastStateChangeMs are two readings of millis(), at
\* most a ms apart, and taken for one.
Accept(reading) ==
    /\ Poll(reading)
    /\ Confirmed(reading)
    /\ prevState' = reading
    /\ debounceTimestampMs' = now
    /\ lastStateChangeMs' = now
    /\ sinceAccept' = 0
    /\ heldSent' = FALSE
    /\ UNCHANGED <<newStatusCandidate, filterTimestampMs, holdSend, rested>>

----------------------------------------------------------------------------
(* Button::onTimer                                                         *)

\* Mutant: the counter grows past what anything listens to.
AcceptPress_NoLimit ==
    /\ Accept("pressed")
    /\ clickCounter' = IF mode.multiclick > 0 THEN clickCounter + 1
                                              ELSE clickCounter
    /\ presses' = IF presses < MaxPresses THEN presses + 1 ELSE presses

AcceptPress ==
    /\ Accept("pressed")
    /\ clickCounter' = IF mode.multiclick > 0 /\ clickCounter <= mode.max
                       THEN clickCounter + 1 ELSE clickCounter
    /\ presses' = IF presses < MaxPresses THEN presses + 1 ELSE presses

AcceptRelease ==
    /\ Accept("released")
    /\ UNCHANGED <<clickCounter, presses>>

timeDelta == Since(lastStateChangeMs)

Changed == lastStateChangeMs # 0

\* Mutant: only the first press of a series can become a hold.
HoldDue_FirstPress ==
    /\ prevState = "pressed"
    /\ clickCounter = 1
    /\ mode.hold > 0 /\ timeDelta > mode.hold
    /\ holdSend = 0

HoldDue ==
    /\ prevState = "pressed"
    /\ clickCounter <= 1
    /\ mode.hold > 0 /\ timeDelta > mode.hold
    /\ holdSend = 0

PressTooLong ==
    /\ prevState = "pressed"
    /\ clickCounter >= 1
    /\ timeDelta > ClickLimit(mode)

SeriesOver ==
    /\ prevState = "released"
    /\ mode.multiclick > 0
    /\ timeDelta > mode.multiclick \/ clickCounter = mode.max

Pause == prevState = "released" /\ sinceAccept > mode.multiclick

\* Mutant: a hold sent is not counted.
SendHold_Again ==
    /\ \E reading \in Level : Watch(reading)
    /\ Changed /\ HoldDue
    /\ clickCounter' = 0
    /\ heldSent' = TRUE
    /\ presses' = 0
    /\ UNCHANGED <<holdSend, rested>>

SendHold ==
    /\ \E reading \in Level : Watch(reading)
    /\ Changed /\ HoldDue
    /\ holdSend' = holdSend + 1
    /\ clickCounter' = 0
    /\ heldSent' = TRUE
    /\ presses' = 0
    /\ UNCHANGED rested

ForgetClicks ==
    /\ \E reading \in Level : Watch(reading)
    /\ Changed /\ PressTooLong /\ ~HoldDue
    /\ clickCounter' = 0
    /\ presses' = 0
    /\ rested' = TRUE
    /\ UNCHANGED <<holdSend, heldSent>>

\* ON_CLICK_n, or ON_LONG_CLICK_n after a hold, n being clickCounter.
ReportsClicks == SeriesOver /\ clickCounter \in 1 .. 10

\* Mutant: a series that is as long as it can get is over without a pause.
ReportClicks_NoPause ==
    /\ \E reading \in Level : Watch(reading)
    /\ Changed /\ SeriesOver
    /\ clickCounter' = 0
    /\ holdSend' = IF timeDelta > mode.multiclick THEN 0 ELSE holdSend
    /\ presses' = 0
    /\ rested' = (Pause \/ (rested /\ ~ReportsClicks))
    /\ UNCHANGED heldSent

\* Mutant: the pause does not end a series that was reported before it.
ReportClicks_Stays ==
    /\ \E reading \in Level : Watch(reading)
    /\ Changed /\ SeriesOver
    /\ clickCounter' = Reported
    /\ holdSend' = IF timeDelta > mode.multiclick THEN 0 ELSE holdSend
    /\ presses' = 0
    /\ rested' = (Pause \/ (rested /\ ~ReportsClicks))
    /\ UNCHANGED heldSent

ReportClicks ==
    /\ \E reading \in Level : Watch(reading)
    /\ Changed /\ SeriesOver
    /\ IF timeDelta > mode.multiclick
       THEN clickCounter' = 0 /\ holdSend' = 0
       ELSE clickCounter' = Reported /\ UNCHANGED holdSend
    /\ presses' = 0
    /\ rested' = (Pause \/ (rested /\ ~ReportsClicks))
    /\ UNCHANGED heldSent

CountNothing ==
    /\ \E reading \in Level : Watch(reading)
    /\ Changed /\ prevState = "released" /\ mode.multiclick = 0
    /\ clickCounter' = 0
    /\ holdSend' = 0
    /\ presses' = 0
    /\ rested' = (Pause \/ rested)
    /\ UNCHANGED heldSent

WatchOnly ==
    /\ \E reading \in Level : Watch(reading)
    /\ Changed => ~HoldDue /\ ~PressTooLong /\ ~SeriesOver
    /\ Changed => prevState = "pressed" \/ mode.multiclick > 0
    /\ rested' = (Pause \/ rested)
    /\ UNCHANGED <<clickCounter, holdSend, presses, heldSent>>

Older(age, limit) == IF age < limit THEN age + 1 ELSE age

Tick ==
    /\ late < MaxLate
    /\ late' = late + 1
    /\ now' = IF now + 1 = TimeSpan THEN 0 ELSE now + 1
    /\ lineFor' = Older(lineFor, Accepted + 1)
    /\ sinceAccept' = Older(sinceAccept, TimeSpan)
    /\ UNCHANGED <<mode, filterVars, clickVars, line, seriesVars>>

OnTimer ==
    \/ AcceptPress \/ AcceptRelease
    \/ SendHold \/ ForgetClicks \/ ReportClicks \/ CountNothing \/ WatchOnly

Next == Tick \/ OnTimer

Spec == Init /\ [][Next]_vars

----------------------------------------------------------------------------
(* Properties                                                              *)

\* Noise is not a press: whenever a change is accepted, all polls for longer
\* than the filter's delay have found the new level, and the contact had time
\* to come to rest since the change before (simple_button.cpp 45-69).  In the
\* DebounceDelay after millis() has come round once, polls do not look.
NoiseRejected ==
    [][AcceptPress \/ AcceptRelease =>
           /\ sinceAccept > DebounceDelay
           /\ sinceAccept < TimeSpan =>
                  line' = line /\ lineFor > NoiseFilterDelay]_vars

\* No press is lost: a level that polls find for the debounce time, the
\* filter's delay and three polls is accepted, also when millis() wraps.
PressNotLost == lineFor > Accepted => prevState = line

\* A series is reported with the number of presses accepted since the last
\* series or hold, of which one too many for any listener is the most that
\* counts, and only after a pause or a long press since the one reported before
\* (button.cpp 97-106, 118-121, 130-210).
ClicksCounted ==
    [][ReportClicks /\ ReportsClicks =>
           /\ clickCounter = IF presses <= mode.max THEN presses
                                                    ELSE mode.max + 1
           /\ rested]_vars

\* After a pause no press is left unreported, no hold is remembered and the
\* next press begins a new series (button.cpp 206-210).  When millis() has come
\* round since the change, a button without clicks takes it for a moment that a
\* series has just been reported; nothing is counted then either.
PauseSettles ==
    Changed /\ Pause /\ sinceAccept > mode.multiclick + MaxLate =>
        /\ presses = 0 /\ holdSend = 0
        /\ \/ clickCounter = 0
           \/ clickCounter = Reported /\ sinceAccept = TimeSpan

\* ON_HOLD is sent once for a press, not before the hold time is over.
HeldOnce == [][SendHold => ~heldSent /\ sinceAccept > mode.hold]_vars

\* A button held long enough has sent ON_HOLD, for this press or for an
\* earlier one without a pause between them.
HoldNotLost ==
    Changed /\ prevState = "pressed" /\ mode.hold > 0
        /\ sinceAccept > mode.hold + 2 * MaxLate => holdSend = 1
=============================================================================
