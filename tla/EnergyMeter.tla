---------------------------- MODULE EnergyMeter ----------------------------
(***************************************************************************)
(* The energy counter of the CSE7766 meter: the chip's pulse counter, the  *)
(* driver that accumulates it (lib/CSE7766) and the channel's counter with *)
(* its save and restore (CSE_7766.cpp).  All of it runs in the loop task;  *)
(* the relay's channel, which gates the counter, is switched by others.    *)
(*                                                                         *)
(* A frame with a bad checksum or header leaves the energy alone and is a  *)
(* stuttering step.  The energy of a pulse, a float of the chip's          *)
(* calibration in the code, is the integer PulseEnergy.                    *)
(***************************************************************************)
EXTENDS Integers

CONSTANTS
    Wrap,         \* modulus of the chip's pulse counter (2^16)
    PulseEnergy,  \* sensor energy of a pulse
    Divisor,      \* sensor energy per unit of the counter (36)
    Counters,     \* counter values set by the server (0) or the web page
    MaxDrawn,     \* bound on drawn
    MaxSaved      \* bound: counter in flash with which the device restarts

ASSUME EnergyMeterAssumption ==
    /\ Wrap \in Nat /\ Wrap > 1
    /\ PulseEnergy \in Nat
    /\ Divisor \in Nat \ {0}
    /\ Counters \subseteq Nat
    /\ MaxDrawn \in Nat
    /\ MaxSaved \in Nat

VARIABLES
    chip,            \* the chip's pulse counter
    cf_pulses_last,  \* its value in the last frame, 0 before the first
    sensorEnergy,    \* CSE7766::_energy
    base,            \* CSE_7766::_energy, the counter when it was last set
    energy,          \* CSE_7766::energy, the counter
    relayOn,         \* value of the relay's channel
    saved,           \* the counter in flash
    pending,  \* history: pulses since the last frame
    drawn     \* history: pulses since the last frame before the counter was set

chipVars    == <<chip, pending>>
counterVars == <<base, energy>>
vars == <<chipVars, cf_pulses_last, sensorEnergy, counterVars, relayOn, saved,
          drawn>>

TypeOK ==
    /\ chip \in 0 .. Wrap - 1
    /\ cf_pulses_last \in 0 .. Wrap - 1
    /\ sensorEnergy \in Nat
    /\ base \in Nat
    /\ energy \in Nat
    /\ relayOn \in BOOLEAN
    /\ saved \in Nat
    /\ pending \in Nat
    /\ drawn \in Nat

\* A device that never saved.
Init ==
    /\ chip \in 0 .. Wrap - 1
    /\ cf_pulses_last = 0
    /\ sensorEnergy = 0
    /\ base = 0
    /\ energy = 0
    /\ relayOn = FALSE
    /\ saved = 0
    /\ pending = 0
    /\ drawn = 0

----------------------------------------------------------------------------
(* The chip.  Frames come every 50 ms; the loop is taken to read one       *)
(* before the counter comes round (hours at full load).                    *)

ReadInTime == pending < Wrap - 1

Pulse ==
    /\ ReadInTime
    /\ drawn < MaxDrawn
    /\ chip' = IF chip = Wrap - 1 THEN 0 ELSE chip + 1
    /\ pending' = pending + 1
    /\ drawn' = drawn + 1
    /\ UNCHANGED <<cf_pulses_last, sensorEnergy, counterVars, relayOn, saved>>

----------------------------------------------------------------------------
(* CSE7766::handle() with a complete frame.  cf_pulses_last = 0 stands for *)
(* "no frame yet", also when the chip has just passed 0.                   *)

\* Mutants of Difference: one pulse short at the wrap; the wrap forgotten.
Difference_OffByOne(last, pulses) ==
    IF pulses < last THEN pulses + (Wrap - 1 - last) ELSE pulses - last
Difference_NoWrap(last, pulses) == pulses - last

Difference(last, pulses) ==
    IF pulses < last THEN pulses + (Wrap - 1 - last) + 1 ELSE pulses - last

Frame ==
    /\ LET last == IF cf_pulses_last = 0 THEN chip ELSE cf_pulses_last
       IN  sensorEnergy' = sensorEnergy + Difference(last, chip) * PulseEnergy
    /\ cf_pulses_last' = chip
    /\ pending' = 0
    /\ UNCHANGED <<chip, counterVars, relayOn, saved, drawn>>

----------------------------------------------------------------------------
(* CSE_7766: every refreshRateSec, readValuesFromDevice moves the counter, *)
(* but only while the relay's channel says on.                             *)

\* Mutant of ReadValuesFromDevice: the accumulated energy is added each time.
ReadValuesFromDevice_Accumulates ==
    /\ relayOn
    /\ energy' = energy + sensorEnergy \div Divisor
    /\ UNCHANGED <<chipVars, cf_pulses_last, sensorEnergy, base, relayOn, saved,
                   drawn>>

ReadValuesFromDevice ==
    /\ relayOn
    /\ energy' = base + sensorEnergy \div Divisor
    /\ UNCHANGED <<chipVars, cf_pulses_last, sensorEnergy, base, relayOn, saved,
                   drawn>>

\* setCounter hands the value to the base and to the sensor.
SetCounter(value) ==
    /\ base' = value
    /\ energy' = value
    /\ sensorEnergy' = value
    /\ drawn' = pending'

\* handleCalcfgFromServer (RESET_COUNTERS) and the web page
ChangeCounter ==
    /\ UNCHANGED <<chipVars, cf_pulses_last, relayOn, saved>>
    /\ \E value \in Counters : SetCounter(value)

SaveState ==
    /\ saved' = energy
    /\ UNCHANGED <<chipVars, cf_pulses_last, sensorEnergy, counterVars, relayOn,
                   drawn>>

\* A reset of the processor, or a power cut that clears the chip as well;
\* onLoadState sets the counter that was saved, and the relay reports off.
Restart ==
    /\ saved <= MaxSaved
    /\ \/ UNCHANGED chipVars
       \/ chip' = 0 /\ pending' = 0
    /\ SetCounter(saved)
    /\ cf_pulses_last' = 0
    /\ relayOn' = FALSE
    /\ UNCHANGED saved

SwitchRelay ==
    /\ relayOn' = ~relayOn
    /\ UNCHANGED <<chipVars, cf_pulses_last, sensorEnergy, counterVars, saved,
                   drawn>>

Next ==
    \/ Pulse
    \/ Frame
    \/ ReadValuesFromDevice
    \/ ChangeCounter
    \/ SaveState
    \/ Restart
    \/ SwitchRelay

Spec == Init /\ [][Next]_vars

----------------------------------------------------------------------------
(* A frame adds exactly the pulses the chip has counted since the previous *)
(* one, also across the wrap of its counter; only after a frame that read  *)
(* 0, or none, they are not counted.                                       *)
PulsesCounted ==
    [][Frame => sensorEnergy' - sensorEnergy =
                    (IF cf_pulses_last = 0 THEN 0 ELSE pending) * PulseEnergy]_vars

(* The counter never goes back while the device runs, whatever the relay   *)
(* does: only a restart and a new value from outside lower it.             *)
CounterNeverBack ==
    [][~Restart /\ ~ChangeCounter => energy' >= energy]_vars

(* What the counter is ahead of the value it was set to is bounded by the  *)
(* pulses since, plus that value itself divided by Divisor: this is what   *)
(* the sensor's share of setCounter costs.                                 *)
OverchargeBounded ==
    energy <= base + (base + drawn * PulseEnergy) \div Divisor

(* "energy value read from memory at startup" (CSE_7766.h), to which what  *)
(* was drawn since is added: the counter never exceeds that.  The code     *)
(* breaks it: setCounter also starts the sensor's energy at that value.    *)
NeverOvercharged ==
    energy <= base + (drawn * PulseEnergy) \div Divisor

----------------------------------------------------------------------------
(* The inductive invariant.                                                *)

\* Where the chip is relative to the last frame.
FrameInv ==
    /\ pending < Wrap
    /\ cf_pulses_last # 0 =>
           chip = IF cf_pulses_last + pending < Wrap
                  THEN cf_pulses_last + pending
                  ELSE cf_pulses_last + pending - Wrap

\* The sensor holds what it started from and at most the pulses of frames since.
SensorInv ==
    /\ energy <= base + sensorEnergy \div Divisor
    /\ sensorEnergy + pending * PulseEnergy <= base + drawn * PulseEnergy

IInv == TypeOK /\ FrameInv /\ SensorInv
=============================================================================
