------------------------- MODULE EnergyMeter_proofs -------------------------
(***************************************************************************)
(* What module EnergyMeter promises, for every wrap of the pulse counter,  *)
(* every energy of a pulse and every divisor.                              *)
(***************************************************************************)
EXTENDS EnergyMeter, TLAPS

(* The integer quotient of naturals is a natural.                          *)
LEMMA DivNat ==
  ASSUME NEW a \in Nat, NEW d \in Nat \ {0}
  PROVE  a \div d \in Nat
OBVIOUS

(* The integer quotient is monotonic in the dividend.                      *)
LEMMA DivMonotone ==
  ASSUME NEW a \in Nat, NEW b \in Nat, NEW d \in Nat \ {0}, a <= b
  PROVE  a \div d <= b \div d
<1> DEFINE p == a \div d
           q == b \div d
<1>1. /\ p \in Nat /\ q \in Nat
      /\ d * p <= a
      /\ b < d * q + d
  BY DivNat
<1>2. SUFFICES ASSUME q + 1 <= p PROVE FALSE
  BY <1>1
<1> HIDE DEF p, q
<1>3. d * (q + 1) <= d * p
  BY <1>1, <1>2
<1>4. d * (q + 1) = d * q + d
  BY <1>1
<1>5. QED
  BY <1>1, <1>3, <1>4

(* The product of naturals is a natural.                                   *)
LEMMA ProductNat ==
  ASSUME NEW a \in Nat, NEW b \in Nat
  PROVE  a * b \in Nat
OBVIOUS

(* What a frame counts is a natural number.                                *)
LEMMA DifferenceNat ==
  ASSUME NEW last \in 0 .. Wrap - 1, NEW pulses \in 0 .. Wrap - 1
  PROVE  Difference(last, pulses) \in Nat
BY EnergyMeterAssumption DEF Difference

(* Between frames less than a round apart, Difference is what the chip     *)
(* counted: the modular subtraction of CSE7766::_process.                  *)
LEMMA DifferenceIsPending ==
  ASSUME TypeOK, FrameInv, cf_pulses_last # 0
  PROVE  Difference(cf_pulses_last, chip) = pending
BY EnergyMeterAssumption DEF TypeOK, FrameInv, Difference

(* A device that never saved starts with well-typed variables.             *)
LEMMA TypeCorrectInit == Init => TypeOK
<1> SUFFICES ASSUME Init PROVE TypeOK
  OBVIOUS
<1>1. relayOn \in BOOLEAN
  BY Zenon DEF Init
<1>2. /\ chip \in 0 .. Wrap - 1 /\ cf_pulses_last \in 0 .. Wrap - 1
      /\ sensorEnergy \in Nat /\ base \in Nat /\ energy \in Nat
      /\ saved \in Nat /\ pending \in Nat /\ drawn \in Nat
  BY EnergyMeterAssumption DEF Init
<1>3. QED
  BY <1>1, <1>2 DEF TypeOK

(* The value a frame or a command leaves in the sensor is a natural.       *)
LEMMA TypeCorrectStep == TypeOK /\ [Next]_vars => TypeOK'
<1> SUFFICES ASSUME TypeOK, [Next]_vars PROVE TypeOK'
  OBVIOUS
<1> USE EnergyMeterAssumption DEF TypeOK, chipVars, counterVars
<1>1. CASE Pulse
  BY <1>1 DEF Pulse, ReadInTime
<1>2. CASE Frame
  <2> DEFINE last == IF cf_pulses_last = 0 THEN chip ELSE cf_pulses_last
  <2>1. Difference(last, chip) \in Nat
    BY DifferenceNat
  <2>2. Difference(last, chip) * PulseEnergy \in Nat
    BY <2>1
  <2>3. sensorEnergy' = sensorEnergy + Difference(last, chip) * PulseEnergy
    BY <1>2 DEF Frame
  <2> HIDE DEF last
  <2>4. sensorEnergy' \in Nat
    BY <2>2, <2>3
  <2>5. QED
    BY <1>2, <2>4 DEF Frame
<1>3. CASE ReadValuesFromDevice
  <2>1. sensorEnergy \div Divisor \in Nat
    BY DivNat
  <2>2. QED
    BY <1>3, <2>1 DEF ReadValuesFromDevice
<1>4. CASE ChangeCounter
  BY <1>4 DEF ChangeCounter, SetCounter
<1>5. CASE SaveState
  BY <1>5 DEF SaveState
<1>6. CASE Restart
  <2>1. relayOn' \in BOOLEAN
    BY <1>6, Zenon DEF Restart
  <2>2. QED
    BY <1>6, <2>1 DEF Restart, SetCounter
<1>7. CASE SwitchRelay
  <2>1. relayOn' \in BOOLEAN
    BY <1>7, Zenon DEF SwitchRelay
  <2>2. QED
    BY <1>7, <2>1 DEF SwitchRelay
<1>8. CASE UNCHANGED vars
  BY <1>8 DEF vars
<1>9. QED
  BY <1>1, <1>2, <1>3, <1>4, <1>5, <1>6, <1>7, <1>8 DEF Next

(* Every variable keeps its type, for all constants.                       *)
THEOREM TypeCorrect == Spec => []TypeOK
<1>1. QED
  BY TypeCorrectInit, TypeCorrectStep, PTL DEF Spec

(* Every step keeps track of where the chip is relative to the last frame. *)
LEMMA FrameInvInductive == TypeOK /\ FrameInv /\ [Next]_vars => FrameInv'
<1> SUFFICES ASSUME TypeOK, FrameInv, [Next]_vars PROVE FrameInv'
  OBVIOUS
<1> USE EnergyMeterAssumption DEF TypeOK, FrameInv, chipVars, counterVars
<1>1. CASE Pulse
  BY <1>1 DEF Pulse, ReadInTime
<1>2. CASE Frame
  BY <1>2 DEF Frame
<1>3. CASE ChangeCounter
  BY <1>3 DEF ChangeCounter
<1>4. CASE Restart
  BY <1>4 DEF Restart
<1>5. CASE ReadValuesFromDevice \/ SaveState \/ SwitchRelay \/ UNCHANGED vars
  BY <1>5 DEF ReadValuesFromDevice, SaveState, SwitchRelay, vars
<1>6. QED
  BY <1>1, <1>2, <1>3, <1>4, <1>5 DEF Next

(* A frame adds what the chip counted, or nothing.                         *)
LEMMA FrameAdds ==
  ASSUME TypeOK, FrameInv, Frame
  PROVE  sensorEnergy' = sensorEnergy
                         + (IF cf_pulses_last = 0 THEN 0 ELSE pending) * PulseEnergy
<1>1. CASE cf_pulses_last = 0
  <2>1. Difference(chip, chip) = 0
    BY DEF Difference, TypeOK
  <2>2. sensorEnergy' = sensorEnergy + Difference(chip, chip) * PulseEnergy
    BY <1>1 DEF Frame
  <2>3. QED
    BY <1>1, <2>1, <2>2
<1>2. CASE cf_pulses_last # 0
  <2>1. Difference(cf_pulses_last, chip) = pending
    BY <1>2, DifferenceIsPending
  <2>2. sensorEnergy'
            = sensorEnergy + Difference(cf_pulses_last, chip) * PulseEnergy
    BY <1>2 DEF Frame
  <2>3. QED
    BY <1>2, <2>1, <2>2
<1>3. QED
  BY <1>1, <1>2

(* Setting the counter starts the sensor at the same value.                *)
LEMMA SetCounterSensorInv ==
  ASSUME NEW value \in Nat, SetCounter(value), pending' \in Nat
  PROVE  SensorInv'
<1>1. value \div Divisor \in Nat
  BY EnergyMeterAssumption, DivNat
<1>2. /\ base' = value /\ energy' = value /\ sensorEnergy' = value
      /\ drawn' = pending'
  BY DEF SetCounter
<1>3. pending' * PulseEnergy \in Nat
  BY EnergyMeterAssumption, ProductNat
<1>4. energy' <= base' + sensorEnergy' \div Divisor
  BY <1>1, <1>2
<1>5. sensorEnergy' + pending' * PulseEnergy <= base' + drawn' * PulseEnergy
  BY <1>2, <1>3
<1>6. QED
  BY <1>4, <1>5 DEF SensorInv

(* Every step keeps the counter behind the sensor, and the sensor behind   *)
(* the pulses.                                                             *)
LEMMA SensorInvInductive ==
  TypeOK /\ FrameInv /\ SensorInv /\ [Next]_vars => SensorInv'
<1> SUFFICES ASSUME TypeOK, FrameInv, SensorInv, [Next]_vars PROVE SensorInv'
  OBVIOUS
<1> USE EnergyMeterAssumption DEF TypeOK, chipVars, counterVars
<1>0. TypeOK'
  BY TypeCorrectStep
<1>1. CASE Pulse
  <2>1. /\ (pending + 1) * PulseEnergy = pending * PulseEnergy + PulseEnergy
        /\ (drawn + 1) * PulseEnergy = drawn * PulseEnergy + PulseEnergy
        /\ pending * PulseEnergy \in Nat
        /\ drawn * PulseEnergy \in Nat
    OBVIOUS
  <2>2. QED
    BY <1>1, <2>1 DEF Pulse, SensorInv
<1>2. CASE Frame
  <2> DEFINE added == (IF cf_pulses_last = 0 THEN 0 ELSE pending) * PulseEnergy
  <2>1. sensorEnergy' = sensorEnergy + added
    BY <1>2, FrameAdds
  <2>2. /\ added \in Nat /\ added <= pending * PulseEnergy
        /\ pending * PulseEnergy \in Nat /\ drawn * PulseEnergy \in Nat
    OBVIOUS
  <2>3. UNCHANGED <<counterVars, drawn>> /\ pending' = 0
    BY <1>2 DEF Frame
  <2> HIDE DEF added
  <2>4. sensorEnergy \div Divisor <= sensorEnergy' \div Divisor
    BY <1>0, <2>1, <2>2, DivMonotone
  <2>5. sensorEnergy' + 0 <= base + drawn * PulseEnergy
    BY <2>1, <2>2 DEF SensorInv
  <2>6. pending' * PulseEnergy = 0
    BY <2>3
  <2>7. /\ sensorEnergy \div Divisor \in Nat
        /\ sensorEnergy' \div Divisor \in Nat
    BY <1>0, DivNat
  <2>8. energy' <= base' + sensorEnergy' \div Divisor
    BY <2>3, <2>4, <2>7 DEF SensorInv
  <2>9. QED
    BY <1>0, <2>3, <2>5, <2>6, <2>8 DEF SensorInv
<1>3. CASE ReadValuesFromDevice
  <2>1. sensorEnergy \div Divisor \in Nat
    BY DivNat
  <2>2. QED
    BY <1>3, <2>1 DEF ReadValuesFromDevice, SensorInv
<1>4. CASE ChangeCounter
  BY <1>0, <1>4, SetCounterSensorInv DEF ChangeCounter
<1>5. CASE Restart
  BY <1>0, <1>5, SetCounterSensorInv DEF Restart
<1>6. CASE SaveState \/ SwitchRelay \/ UNCHANGED vars
  BY <1>6 DEF SaveState, SwitchRelay, vars, SensorInv
<1>7. QED
  BY <1>1, <1>2, <1>3, <1>4, <1>5, <1>6 DEF Next

(* The inductive invariant.                                                *)
THEOREM Inductive == Spec => []IInv
<1>1. Init => IInv
  <2> SUFFICES ASSUME Init PROVE IInv
    OBVIOUS
  <2>1. TypeOK /\ FrameInv
    BY TypeCorrectInit, EnergyMeterAssumption DEF Init, FrameInv
  <2>2. 0 \div Divisor \in Nat
    BY EnergyMeterAssumption, DivNat
  <2>3. SensorInv
    BY <2>2, EnergyMeterAssumption DEF Init, SensorInv
  <2>4. QED
    BY <2>1, <2>3 DEF IInv
<1>2. IInv /\ [Next]_vars => IInv'
  BY TypeCorrectStep, FrameInvInductive, SensorInvInductive DEF IInv
<1>3. QED
  BY <1>1, <1>2, PTL DEF Spec

(* PulsesCounted for every wrap of the chip's counter.                     *)
THEOREM PulsesCountedHolds == Spec => PulsesCounted
<1>1. IInv /\ [Next]_vars =>
          [Frame => sensorEnergy' - sensorEnergy =
                      (IF cf_pulses_last = 0 THEN 0 ELSE pending) * PulseEnergy]_vars
  <2> SUFFICES ASSUME IInv, Frame
               PROVE  sensorEnergy' - sensorEnergy =
                      (IF cf_pulses_last = 0 THEN 0 ELSE pending) * PulseEnergy
    OBVIOUS
  <2> DEFINE added == (IF cf_pulses_last = 0 THEN 0 ELSE pending) * PulseEnergy
  <2>1. sensorEnergy' = sensorEnergy + added
    BY FrameAdds DEF IInv
  <2>2. sensorEnergy \in Nat /\ added \in Nat
    BY EnergyMeterAssumption DEF IInv, TypeOK
  <2> HIDE DEF added
  <2>3. sensorEnergy' - sensorEnergy = added
    BY <2>1, <2>2
  <2>4. QED
    BY <2>3 DEF added
<1>2. QED
  BY <1>1, Inductive, PTL DEF Spec, PulsesCounted

(* CounterNeverBack for every energy of a pulse and every divisor.         *)
THEOREM CounterNeverBackHolds == Spec => CounterNeverBack
<1>1. IInv /\ [Next]_vars =>
          [~Restart /\ ~ChangeCounter => energy' >= energy]_vars
  <2> SUFFICES ASSUME IInv, Next, ~Restart, ~ChangeCounter
               PROVE  energy' >= energy
    OBVIOUS
  <2>1. CASE ReadValuesFromDevice
    BY <2>1 DEF ReadValuesFromDevice, IInv, SensorInv
  <2>2. CASE Pulse \/ Frame \/ SaveState \/ SwitchRelay
    BY <2>2 DEF Pulse, Frame, SaveState, SwitchRelay, counterVars, IInv, TypeOK
  <2>3. QED
    BY <2>1, <2>2 DEF Next
<1>2. QED
  BY <1>1, Inductive, PTL DEF Spec, CounterNeverBack

(* OverchargeBounded for every energy of a pulse and every divisor.        *)
THEOREM OverchargeBoundedHolds == Spec => []OverchargeBounded
<1>1. IInv => OverchargeBounded
  <2> SUFFICES ASSUME IInv PROVE OverchargeBounded
    OBVIOUS
  <2> DEFINE most == base + drawn * PulseEnergy
  <2>1. /\ sensorEnergy \in Nat /\ most \in Nat /\ base \in Nat /\ energy \in Nat
        /\ pending * PulseEnergy \in Nat
        /\ sensorEnergy + pending * PulseEnergy <= most
        /\ energy <= base + sensorEnergy \div Divisor
    BY EnergyMeterAssumption DEF IInv, TypeOK, SensorInv
  <2> HIDE DEF most
  <2>2. sensorEnergy <= most
    BY <2>1
  <2>3. sensorEnergy \div Divisor <= most \div Divisor
    BY <2>1, <2>2, DivMonotone, EnergyMeterAssumption
  <2>4. sensorEnergy \div Divisor \in Nat /\ most \div Divisor \in Nat
    BY <2>1, DivNat, EnergyMeterAssumption
  <2>5. energy <= base + most \div Divisor
    BY <2>1, <2>3, <2>4
  <2>6. QED
    BY <2>5 DEF most, OverchargeBounded
<1>2. QED
  BY <1>1, Inductive, PTL

----------------------------------------------------------------------------
(* How far NeverOvercharged fails.                                         *)

(* The sensor starts from the value the counter was set to and only adds.  *)
SensorAhead == sensorEnergy >= base

(* It stays ahead of that value.                                           *)
LEMMA SensorStartsFromBase == Spec => []SensorAhead
<1>1. Init => SensorAhead
  BY DEF Init, SensorAhead
<1>2. IInv /\ SensorAhead /\ [Next]_vars => SensorAhead'
  <2> SUFFICES ASSUME IInv, sensorEnergy >= base, [Next]_vars
               PROVE  sensorEnergy' >= base'
    BY DEF SensorAhead
  <2>0. TypeOK /\ FrameInv /\ TypeOK'
    BY TypeCorrectStep DEF IInv
  <2>1. CASE Frame
    <3> DEFINE added ==
          (IF cf_pulses_last = 0 THEN 0 ELSE pending) * PulseEnergy
    <3>1. sensorEnergy' = sensorEnergy + added
      BY <2>0, <2>1, FrameAdds
    <3>2. added \in Nat
      BY <2>0, EnergyMeterAssumption DEF TypeOK
    <3> HIDE DEF added
    <3>3. QED
      BY <2>0, <2>1, <3>1, <3>2 DEF Frame, counterVars, TypeOK
  <2>2. ASSUME NEW value \in Nat, SetCounter(value)
        PROVE  sensorEnergy' >= base'
    BY <2>2 DEF SetCounter
  <2>3. CASE ChangeCounter
    BY <2>2, <2>3, EnergyMeterAssumption DEF ChangeCounter
  <2>4. CASE Restart
    BY <2>0, <2>2, <2>4 DEF Restart, TypeOK
  <2>5. CASE \/ Pulse \/ ReadValuesFromDevice \/ SaveState \/ SwitchRelay
             \/ UNCHANGED vars
    BY <2>5 DEF Pulse, ReadValuesFromDevice, SaveState, SwitchRelay, vars,
                counterVars
  <2>6. QED
    BY <2>1, <2>3, <2>4, <2>5 DEF Next
<1>3. QED
  BY <1>1, <1>2, Inductive, PTL DEF Spec

(* Every reading is ahead by the share of the value set: the overcharge of *)
(* the run energy_overcharge is no matter of timing, it comes with the     *)
(* first reading after any restart or new value of Divisor or more.        *)
THEOREM OverchargedByEveryReading ==
  Spec => [][ReadValuesFromDevice => energy' >= base + base \div Divisor]_vars
<1>1. IInv /\ SensorAhead
          => [ReadValuesFromDevice =>
                 energy' >= base + base \div Divisor]_vars
  <2> SUFFICES ASSUME IInv, sensorEnergy >= base, ReadValuesFromDevice
               PROVE  energy' >= base + base \div Divisor
    BY DEF SensorAhead
  <2>1. base \in Nat /\ sensorEnergy \in Nat
    BY DEF IInv, TypeOK
  <2>2. /\ base \div Divisor <= sensorEnergy \div Divisor
        /\ base \div Divisor \in Nat /\ sensorEnergy \div Divisor \in Nat
    BY <2>1, DivMonotone, DivNat, EnergyMeterAssumption
  <2>3. energy' = base + sensorEnergy \div Divisor
    BY DEF ReadValuesFromDevice
  <2>4. QED
    BY <2>1, <2>2, <2>3
<1>2. QED
  BY <1>1, Inductive, SensorStartsFromBase, PTL
=============================================================================
