----------------------- MODULE BistableRelay_proofs -----------------------
(***************************************************************************)
(* Theorems about BistableRelay for every pulse length and every period of *)
(* millis().                                                               *)
(***************************************************************************)
EXTENDS BistableRelay, TLAPS

(* The values every field starts with.                                     *)
LEMMA InitialTypes ==
  /\ [p \in Coil |-> FALSE] \in [Coil -> BOOLEAN]
  /\ [t \in Task |-> FALSE] \in [Task -> BOOLEAN]
  /\ [t \in Task |-> "idle"] \in [Task -> {"idle"} \cup CommandStep \cup PollStep]
  /\ [p \in Coil |-> 0] \in [Coil -> 0 .. PulseTime]
  /\ 0 \in 0 .. TimeSpan - 1
<1>1. 0 \in 0 .. PulseTime /\ 0 \in 0 .. TimeSpan - 1
  BY PulseTimeAssumption, TimeSpanAssumption
<1>2. QED
  BY <1>1, Zenon

(* The types hold initially and after a reset.                             *)
LEMMA TypeCorrectInit == Init => TypeOK
  BY InitialTypes, Zenon DEF Init, PowerOn, TypeOK

(* Every step keeps the types.                                             *)
LEMMA TypeCorrectStep == TypeOK /\ [Next]_vars => TypeOK'
<1> SUFFICES ASSUME TypeOK, [Next]_vars
             PROVE  TypeOK'
  OBVIOUS
<1> USE PulseTimeAssumption, TimeSpanAssumption DEF TypeOK, Coil, Task, NoPin,
        CommandStep, PollStep
<1>1. CASE Reset
  BY InitialTypes, <1>1, Zenon DEF Reset
<1>2. ASSUME NEW t \in Task, NEW on \in BOOLEAN, Command(t, on)
      PROVE  TypeOK'
  BY <1>2 DEF Command, Enter, pulseVars, relayVars, hardware
<1>3. ASSUME NEW t \in Task, CommandStatement(t)
      PROVE  TypeOK'
  <2> USE DEF Step, pulseVars, relayVars, hardware, historyVars
  <2>1. CASE DrivePin(t)
    BY <2>1 DEF DrivePin, CoilFor
  <2>2. CASE SetActivePin(t)
    BY <2>2 DEF SetActivePin, CoilFor
  <2>3. CASE SetPulseStart(t)
    BY <2>3 DEF SetPulseStart
  <2>4. CASE SetPulseActive(t)
    BY <2>4 DEF SetPulseActive
  <2>5. CASE SetState(t)
    BY <2>5 DEF SetState
  <2>6. CASE SetValue(t)
    BY <2>6 DEF SetValue
  <2>7. QED
    BY <1>3, <2>1, <2>2, <2>3, <2>4, <2>5, <2>6 DEF CommandStatement
<1>4. CASE Poll
  BY <1>4 DEF Poll, Enter, pulseVars, relayVars, hardware
<1>5. CASE PollStatement
  <2> USE DEF Step, pulseVars, relayVars, hardware, historyVars
  <2>1. CASE ReleasePin
    BY <2>1 DEF ReleasePin
  <2>2. CASE ClearPulseActive
    BY <2>2 DEF ClearPulseActive
  <2>3. CASE ClearActivePin
    BY <2>3 DEF ClearActivePin
  <2>4. QED
    BY <1>5, <2>1, <2>2, <2>3 DEF PollStatement
<1>6. CASE Tick
  <2>1. now' \in 0 .. TimeSpan - 1
    BY <1>6 DEF Tick
  <2>2. held' \in [Coil -> 0 .. PulseTime]
    BY <1>6 DEF Tick, HeldAfter
  <2>3. contact' \in BOOLEAN
    BY <1>6 DEF Tick, Position, HighCoils
  <2>4. QED
    BY <1>6, <2>1, <2>2, <2>3
    DEF Tick, pulseVars, relayVars, historyVars
<1>7. CASE UNCHANGED vars
  BY <1>7 DEF vars, pulseVars, relayVars, hardware, historyVars
<1>8. QED
  BY <1>1, <1>2, <1>3, <1>4, <1>5, <1>6, <1>7
  DEF Next, ServerCommand, ButtonToggle

(* The type invariant of BistableRelay: every field keeps its type across  *)
(* commands, polls, resets and the passage of time.                        *)
THEOREM TypeCorrect == Spec => []TypeOK
<1>1. QED
  BY TypeCorrectInit, TypeCorrectStep, PTL DEF Spec

----------------------------------------------------------------------------
(* The actions, one name each, for the proofs that follow.                 *)
LEMMA NextCases ==
  ASSUME TypeOK, [Next]_vars
  PROVE  \/ Reset
         \/ \E t \in Task, on \in BOOLEAN : Command(t, on)
         \/ \E t \in Task : CommandStatement(t)
         \/ Poll \/ PollStatement \/ Tick \/ UNCHANGED vars
<1>1. CASE ButtonToggle
  <2>1. Command("timer", ~state) /\ (~state) \in {TRUE, FALSE}
    BY <1>1, Zenon DEF ButtonToggle
  <2>2. QED
    BY <2>1, Zenon DEF Task
<1>2. QED
  BY <1>1, Zenon DEF Next, ServerCommand, Task

(* Every step keeps the tasks apart while no race is recorded.             *)
LEMMA TaskInvInductive ==
  ASSUME TypeOK, TaskInv, PulseInv, DriveInv, LatchInv, [Next]_vars
  PROVE  TaskInv'
<1> USE PulseTimeAssumption, TimeSpanAssumption
    DEF TaskInv, TypeOK, Task, Coil, NoPin, CommandStep, PollStep,
        Quiet, CoilFor, CommandedCoil
<1>1. CASE Reset
  BY <1>1 DEF Reset
<1>2. ASSUME NEW t \in Task, NEW on \in BOOLEAN, Command(t, on)
      PROVE  TaskInv'
  BY <1>2 DEF Command, Enter, Other, pulseVars, relayVars, hardware
<1>3. ASSUME NEW t \in Task, CommandStatement(t)
      PROVE  TaskInv'
  <2> USE DEF Step, pulseVars, relayVars, hardware, historyVars
  <2>1. CASE DrivePin(t)
    BY <2>1 DEF DrivePin
  <2>2. CASE SetActivePin(t)
    BY <2>2 DEF SetActivePin
  <2>3. CASE SetPulseStart(t)
    BY <2>3 DEF SetPulseStart
  <2>4. CASE SetPulseActive(t)
    BY <2>4 DEF SetPulseActive
  <2>5. CASE SetState(t)
    BY <2>5 DEF SetState
  <2>6. CASE SetValue(t)
    BY <2>6 DEF SetValue
  <2>7. QED
    BY <1>3, <2>1, <2>2, <2>3, <2>4, <2>5, <2>6 DEF CommandStatement
<1>4. CASE Poll
  BY <1>4 DEF Poll, PulseDue, Enter, Other, pulseVars, relayVars, hardware
<1>5. CASE PollStatement
  <2> USE DEF Step, pulseVars, relayVars, hardware, historyVars
  <2>1. CASE ReleasePin
    BY <2>1 DEF ReleasePin
  <2>2. CASE ClearPulseActive
    BY <2>2 DEF ClearPulseActive
  <2>3. CASE ClearActivePin
    BY <2>3 DEF ClearActivePin
  <2>4. QED
    BY <1>5, <2>1, <2>2, <2>3 DEF PollStatement
<1>6. CASE Tick
  BY <1>6 DEF Tick, pulseVars, relayVars, historyVars
<1>7. CASE UNCHANGED vars
  BY <1>7 DEF vars, pulseVars, relayVars, hardware, historyVars
<1>8. QED
  BY NextCases, <1>1, <1>2, <1>3, <1>4, <1>5, <1>6, <1>7, Zenon

(* Every step keeps the pulse bookkeeping of an undisturbed handler.       *)
LEMMA PulseInvInductive ==
  ASSUME TypeOK, TaskInv, PulseInv, DriveInv, LatchInv, [Next]_vars
  PROVE  PulseInv'
<1> USE PulseTimeAssumption, TimeSpanAssumption
    DEF TaskInv, PulseInv, Consistent, Elapsed, TypeOK, Task, Coil, NoPin, CommandStep, PollStep,
        Quiet, CoilFor, CommandedCoil
<1>1. CASE Reset
  BY <1>1 DEF Reset
<1>2. ASSUME NEW t \in Task, NEW on \in BOOLEAN, Command(t, on)
      PROVE  PulseInv'
  BY <1>2 DEF Command, Enter, Other, pulseVars, relayVars, hardware
<1>3. ASSUME NEW t \in Task, CommandStatement(t)
      PROVE  PulseInv'
  <2> USE DEF Step, pulseVars, relayVars, hardware, historyVars
  <2>1. CASE DrivePin(t)
    BY <2>1 DEF DrivePin
  <2>2. CASE SetActivePin(t)
    BY <2>2 DEF SetActivePin
  <2>3. CASE SetPulseStart(t)
    BY <2>3 DEF SetPulseStart
  <2>4. CASE SetPulseActive(t)
    BY <2>4 DEF SetPulseActive
  <2>5. CASE SetState(t)
    BY <2>5 DEF SetState
  <2>6. CASE SetValue(t)
    BY <2>6 DEF SetValue
  <2>7. QED
    BY <1>3, <2>1, <2>2, <2>3, <2>4, <2>5, <2>6 DEF CommandStatement
<1>4. CASE Poll
  BY <1>4 DEF Poll, PulseDue, Enter, Other, pulseVars, relayVars, hardware
<1>5. CASE PollStatement
  <2> USE DEF Step, pulseVars, relayVars, hardware, historyVars
  <2>1. CASE ReleasePin
    BY <2>1 DEF ReleasePin
  <2>2. CASE ClearPulseActive
    BY <2>2 DEF ClearPulseActive
  <2>3. CASE ClearActivePin
    BY <2>3 DEF ClearActivePin
  <2>4. QED
    BY <1>5, <2>1, <2>2, <2>3 DEF PollStatement
<1>6. CASE Tick
  BY <1>6 DEF Tick, pulseVars, relayVars, historyVars
<1>7. CASE UNCHANGED vars
  BY <1>7 DEF vars, pulseVars, relayVars, hardware, historyVars
<1>8. QED
  BY NextCases, <1>1, <1>2, <1>3, <1>4, <1>5, <1>6, <1>7, Zenon

(* Every step keeps the picture of which coils are driven.                 *)
LEMMA DriveInvInductive ==
  ASSUME TypeOK, TaskInv, PulseInv, DriveInv, LatchInv, [Next]_vars
  PROVE  DriveInv'
<1> USE PulseTimeAssumption, TimeSpanAssumption
    DEF TaskInv, PulseInv, DriveInv, Consistent, TypeOK, Task, Coil, NoPin, CommandStep, PollStep,
        Quiet, CoilFor, CommandedCoil
<1>1. CASE Reset
  BY <1>1 DEF Reset
<1>2. ASSUME NEW t \in Task, NEW on \in BOOLEAN, Command(t, on)
      PROVE  DriveInv'
  BY <1>2 DEF Command, Enter, Other, pulseVars, relayVars, hardware
<1>3. ASSUME NEW t \in Task, CommandStatement(t)
      PROVE  DriveInv'
  <2> USE DEF Step, pulseVars, relayVars, hardware, historyVars
  <2>1. CASE DrivePin(t)
    BY <2>1 DEF DrivePin
  <2>2. CASE SetActivePin(t)
    BY <2>2 DEF SetActivePin
  <2>3. CASE SetPulseStart(t)
    BY <2>3 DEF SetPulseStart
  <2>4. CASE SetPulseActive(t)
    BY <2>4 DEF SetPulseActive
  <2>5. CASE SetState(t)
    BY <2>5 DEF SetState
  <2>6. CASE SetValue(t)
    BY <2>6 DEF SetValue
  <2>7. QED
    BY <1>3, <2>1, <2>2, <2>3, <2>4, <2>5, <2>6 DEF CommandStatement
<1>4. CASE Poll
  BY <1>4 DEF Poll, PulseDue, Enter, Other, pulseVars, relayVars, hardware
<1>5. CASE PollStatement
  <2> USE DEF Step, pulseVars, relayVars, hardware, historyVars
  <2>1. CASE ReleasePin
    BY <2>1 DEF ReleasePin
  <2>2. CASE ClearPulseActive
    BY <2>2 DEF ClearPulseActive
  <2>3. CASE ClearActivePin
    BY <2>3 DEF ClearActivePin
  <2>4. QED
    BY <1>5, <2>1, <2>2, <2>3 DEF PollStatement
<1>6. CASE Tick
  BY <1>6 DEF Tick, pulseVars, relayVars, historyVars
<1>7. CASE UNCHANGED vars
  BY <1>7 DEF vars, pulseVars, relayVars, hardware, historyVars
<1>8. QED
  BY NextCases, <1>1, <1>2, <1>3, <1>4, <1>5, <1>6, <1>7, Zenon

(* Every step carries the contact to where the pulse drives it.            *)
LEMMA LatchInvInductive ==
  ASSUME TypeOK, TaskInv, PulseInv, DriveInv, LatchInv, [Next]_vars
  PROVE  LatchInv'
<1> USE PulseTimeAssumption, TimeSpanAssumption
    DEF TaskInv, PulseInv, DriveInv, LatchInv, Consistent, Elapsed,
        HeldLongEnough, Position, TypeOK, Task, Coil, NoPin, CommandStep, PollStep,
        Quiet, CoilFor, CommandedCoil
<1>1. CASE Reset
  BY <1>1 DEF Reset
<1>2. ASSUME NEW t \in Task, NEW on \in BOOLEAN, Command(t, on)
      PROVE  LatchInv'
  BY <1>2 DEF Command, Enter, Other, pulseVars, relayVars, hardware
<1>3. ASSUME NEW t \in Task, CommandStatement(t)
      PROVE  LatchInv'
  <2> USE DEF Step, pulseVars, relayVars, hardware, historyVars
  <2>1. CASE DrivePin(t)
    BY <2>1 DEF DrivePin
  <2>2. CASE SetActivePin(t)
    BY <2>2 DEF SetActivePin
  <2>3. CASE SetPulseStart(t)
    BY <2>3 DEF SetPulseStart
  <2>4. CASE SetPulseActive(t)
    BY <2>4 DEF SetPulseActive
  <2>5. CASE SetState(t)
    BY <2>5 DEF SetState
  <2>6. CASE SetValue(t)
    BY <2>6 DEF SetValue
  <2>7. QED
    BY <1>3, <2>1, <2>2, <2>3, <2>4, <2>5, <2>6 DEF CommandStatement
<1>4. CASE Poll
  BY <1>4 DEF Poll, PulseDue, Enter, Other, pulseVars, relayVars, hardware
<1>5. CASE PollStatement
  <2> USE DEF Step, pulseVars, relayVars, hardware, historyVars
  <2>1. CASE ReleasePin
    BY <2>1 DEF ReleasePin
  <2>2. CASE ClearPulseActive
    BY <2>2 DEF ClearPulseActive
  <2>3. CASE ClearActivePin
    BY <2>3 DEF ClearActivePin
  <2>4. QED
    BY <1>5, <2>1, <2>2, <2>3 DEF PollStatement
<1>6. CASE Tick
  BY <1>6 DEF Tick, HeldAfter, HighCoils, pulseVars, relayVars, historyVars
<1>7. CASE UNCHANGED vars
  BY <1>7 DEF vars, pulseVars, relayVars, hardware, historyVars
<1>8. QED
  BY NextCases, <1>1, <1>2, <1>3, <1>4, <1>5, <1>6, <1>7, Zenon

(* SoloInv: while one coil only is driven, the time it has been held        *)
(* covers what iterateAlways measures, even if commands overlap.           *)
LEMMA SoloInvInductive ==
  ASSUME TypeOK, TaskInv, PulseInv, LatchInv, SoloInv, [Next]_vars
  PROVE  SoloInv'
<1> USE PulseTimeAssumption, TimeSpanAssumption
    DEF TaskInv, PulseInv, LatchInv, SoloInv, Solo, Consistent, Elapsed,
        HeldLongEnough, Position, TypeOK, Task, Coil, NoPin, CommandStep, PollStep,
        Quiet, CoilFor, CommandedCoil
<1>1. CASE Reset
  BY <1>1 DEF Reset
<1>2. ASSUME NEW t \in Task, NEW on \in BOOLEAN, Command(t, on)
      PROVE  SoloInv'
  BY <1>2 DEF Command, Enter, Other, pulseVars, relayVars, hardware
<1>3. ASSUME NEW t \in Task, CommandStatement(t)
      PROVE  SoloInv'
  <2> USE DEF Step, pulseVars, relayVars, hardware, historyVars
  <2>1. CASE DrivePin(t)
    BY <2>1 DEF DrivePin
  <2>2. CASE SetActivePin(t)
    BY <2>2 DEF SetActivePin
  <2>3. CASE SetPulseStart(t)
    BY <2>3 DEF SetPulseStart
  <2>4. CASE SetPulseActive(t)
    BY <2>4 DEF SetPulseActive
  <2>5. CASE SetState(t)
    BY <2>5 DEF SetState
  <2>6. CASE SetValue(t)
    BY <2>6 DEF SetValue
  <2>7. QED
    BY <1>3, <2>1, <2>2, <2>3, <2>4, <2>5, <2>6 DEF CommandStatement
<1>4. CASE Poll
  BY <1>4 DEF Poll, PulseDue, Enter, Other, pulseVars, relayVars, hardware
<1>5. CASE PollStatement
  <2> USE DEF Step, pulseVars, relayVars, hardware, historyVars
  <2>1. CASE ReleasePin
    BY <2>1 DEF ReleasePin
  <2>2. CASE ClearPulseActive
    BY <2>2 DEF ClearPulseActive
  <2>3. CASE ClearActivePin
    BY <2>3 DEF ClearActivePin
  <2>4. QED
    BY <1>5, <2>1, <2>2, <2>3 DEF PollStatement
<1>6. CASE Tick
  BY <1>6 DEF Tick, HeldAfter, HighCoils, pulseVars, relayVars, historyVars
<1>7. CASE UNCHANGED vars
  BY <1>7 DEF vars, pulseVars, relayVars, hardware, historyVars
<1>8. QED
  BY NextCases, <1>1, <1>2, <1>3, <1>4, <1>5, <1>6, <1>7, Zenon

(* SettledInv: a command that is alone in the relay sets every field that  *)
(* a race may have left inconsistent.                                      *)
LEMMA SettledInvInductive ==
  ASSUME TypeOK, TaskInv, SettledInv, [Next]_vars
  PROVE  SettledInv'
<1> USE PulseTimeAssumption, TimeSpanAssumption
    DEF TaskInv, SettledInv, Consistent, TypeOK, Task, Coil, NoPin,
        CommandStep, PollStep, Quiet, CoilFor, CommandedCoil
<1>1. CASE Reset
  BY <1>1 DEF Reset
<1>2. ASSUME NEW t \in Task, NEW on \in BOOLEAN, Command(t, on)
      PROVE  SettledInv'
  BY <1>2 DEF Command, Enter, Other, pulseVars, relayVars, hardware
<1>3. ASSUME NEW t \in Task, CommandStatement(t)
      PROVE  SettledInv'
  <2> USE DEF Step, pulseVars, relayVars, hardware, historyVars
  <2>1. CASE DrivePin(t)
    BY <2>1 DEF DrivePin
  <2>2. CASE SetActivePin(t)
    BY <2>2 DEF SetActivePin
  <2>3. CASE SetPulseStart(t)
    BY <2>3 DEF SetPulseStart
  <2>4. CASE SetPulseActive(t)
    BY <2>4 DEF SetPulseActive
  <2>5. CASE SetState(t)
    BY <2>5 DEF SetState
  <2>6. CASE SetValue(t)
    BY <2>6 DEF SetValue
  <2>7. QED
    BY <1>3, <2>1, <2>2, <2>3, <2>4, <2>5, <2>6 DEF CommandStatement
<1>4. CASE Poll
  BY <1>4 DEF Poll, PulseDue, Enter, Other, pulseVars, relayVars, hardware
<1>5. CASE PollStatement
  <2> USE DEF Step, pulseVars, relayVars, hardware, historyVars
  <2>1. CASE ReleasePin
    BY <2>1 DEF ReleasePin
  <2>2. CASE ClearPulseActive
    BY <2>2 DEF ClearPulseActive
  <2>3. CASE ClearActivePin
    BY <2>3 DEF ClearActivePin
  <2>4. QED
    BY <1>5, <2>1, <2>2, <2>3 DEF PollStatement
<1>6. CASE Tick
  BY <1>6 DEF Tick, pulseVars, relayVars, historyVars
<1>7. CASE UNCHANGED vars
  BY <1>7 DEF vars, pulseVars, relayVars, hardware, historyVars
<1>8. QED
  BY NextCases, <1>1, <1>2, <1>3, <1>4, <1>5, <1>6, <1>7, Zenon

(* The inductive invariant, from the lemmas above.                         *)
THEOREM Inductive == Spec => []IInv
<1>1. Init => IInv
  <2> SUFFICES ASSUME Init PROVE IInv
    OBVIOUS
  <2>1. TypeOK
    BY TypeCorrectInit
  <2>2. /\ \A p \in Coil : ~level[p] /\ held[p] = 0
        /\ \A t \in Task : pc[t] = "idle"
        /\ activePin = NoPin /\ ~pulseActive /\ value = state /\ ~commanded
        /\ settled
    BY Zenon DEF Init, PowerOn
  <2>3. TaskInv /\ PulseInv
    BY <2>2 DEF TaskInv, PulseInv, Consistent, Task, NoPin, CommandStep, PollStep
  <2>4. DriveInv /\ LatchInv
    BY <2>2, PulseTimeAssumption DEF DriveInv, LatchInv, Task, CommandStep
  <2>5. SoloInv
    BY <2>2 DEF SoloInv, Task
  <2>6. SettledInv
    BY <2>2 DEF SettledInv, Consistent, Task, CommandStep, PollStep
  <2>7. QED
    BY <2>1, <2>3, <2>4, <2>5, <2>6 DEF IInv
<1>2. IInv /\ [Next]_vars => IInv'
  BY TypeCorrectStep, TaskInvInductive, PulseInvInductive, DriveInvInductive,
     LatchInvInductive, SoloInvInductive, SettledInvInductive DEF IInv
<1>3. QED
  BY <1>1, <1>2, PTL DEF Spec

(* PulseBookkeeping for every pulse length and clock period: the first     *)
(* command that is alone in the relay repairs what a race has left.        *)
THEOREM BookkeepingHolds == Spec => []PulseBookkeeping
<1>1. IInv => PulseBookkeeping
  BY DEF IInv, SettledInv, PulseBookkeeping, Consistent
<1>2. QED
  BY <1>1, Inductive, PTL

(* CoilsExclusive for every pulse length and clock period.                 *)
THEOREM ExclusiveHolds == Spec => []CoilsExclusive
<1>1. IInv => CoilsExclusive
  <2> SUFFICES ASSUME IInv, ~raced, ~overlapped
               PROVE  /\ HighCoils # Coil
                      /\ Quiet /\ ~pulseActive => HighCoils = {}
    BY DEF CoilsExclusive
  <2>1. \E q \in Coil : ~level[q]
    BY DEF IInv, TypeOK, TaskInv, DriveInv, Quiet, Task, Coil, CommandStep,
           PollStep, CommandedCoil, CoilFor
  <2>2. Quiet /\ ~pulseActive => \A q \in Coil : ~level[q]
    BY DEF IInv, DriveInv
  <2>3. QED
    BY <2>1, <2>2 DEF HighCoils
<1>2. QED
  BY <1>1, Inductive, PTL

(* ContactFollowsReport for every pulse length and clock period: a relay   *)
(* left alone after its command is where the server was told it is.        *)
THEOREM ContactHolds == Spec => []ContactFollowsReport
<1>1. IInv => ContactFollowsReport
  BY DEF IInv, LatchInv, ContactFollowsReport
<1>2. QED
  BY <1>1, Inductive, PTL

(* NoShortPulse for every pulse length and clock period: the time measured *)
(* by iterateAlways is time the coil has been driven alone.                *)
THEOREM NoShortPulseHolds == Spec => NoShortPulse
<1>1. IInv /\ [Next]_vars =>
          [ReleasePin /\ ~raced /\ HighCoils = {activePin} =>
               held[activePin] = PulseTime]_vars
  <2> SUFFICES ASSUME IInv, ReleasePin, ~raced, HighCoils = {activePin}
               PROVE  held[activePin] = PulseTime
    OBVIOUS
  <2>1. pc["loop"] = "low"
    BY DEF ReleasePin, Step
  <2>2. Solo /\ activePin \in Coil
    BY DEF Solo, HighCoils
  <2>3. HeldLongEnough(activePin) /\ Elapsed >= PulseTime
    BY <2>1, <2>2 DEF IInv, SoloInv, PulseInv
  <2>4. held[activePin] \in 0 .. PulseTime /\ Elapsed \in Int
    BY <2>2, TimeSpanAssumption DEF IInv, TypeOK, Elapsed
  <2>5. QED
    BY <2>3, <2>4, PulseTimeAssumption DEF HeldLongEnough
<1>2. QED
  BY <1>1, Inductive, PTL DEF Spec, NoShortPulse

----------------------------------------------------------------------------
(* BistableRelay implements LatchingRelay: its commands and releases act   *)
(* at once.                                                                *)

(* The variables of LatchingRelay as functions of those of BistableRelay.  *)
Shown  == IF Commanding = {} THEN value ELSE \E t \in Commanding : target[t]
Driven == IF level["set"] THEN "set"
          ELSE IF level["reset"] THEN "reset" ELSE "none"
Calm   == ~raced /\ ~overlapped

(* The statements of a command that follow its effect.                     *)
After == CommandStep \ {"pin"}

(* What LatchingRelay sees at each statement.                              *)
View ==
  Calm =>
    /\ \A t \in Task : pc[t] \in After => Shown = target[t]
    /\ (\A t \in Task : pc[t] \notin After) => Shown = value
    /\ \A p \in Coil : level[p] => Driven = p
    /\ (\A p \in Coil : ~level[p]) => Driven = "none"
    /\ (\E p \in Coil : level[p]) => Driven = CoilFor(Shown)
    /\ pc["loop"] = "low" => level[activePin] /\ contact = Shown

(* The view follows from the inductive invariant.                          *)
LEMMA ViewHolds == IInv => View
<1> SUFFICES ASSUME IInv, Calm PROVE View
  BY DEF View
<1> USE DEF Calm, Task, Coil, After, CommandStep, PollStep
<1>1. /\ level \in [Coil -> BOOLEAN] /\ target \in [Task -> BOOLEAN]
      /\ value \in BOOLEAN /\ contact \in BOOLEAN
      /\ held \in [Coil -> 0 .. PulseTime]
      /\ pc \in [Task -> {"idle"} \cup CommandStep \cup PollStep]
  BY DEF IInv, TypeOK
<1>2. \E t \in Task : pc[t] = "idle"
  BY DEF IInv, TaskInv
<1>3. ASSUME NEW t \in Task, pc[t] \in After PROVE Shown = target[t]
  <2>1. Commanding = {t}
    BY <1>2, <1>3 DEF Commanding
  <2>2. Commanding # {}
    BY <2>1
  <2>3. target[t] \in BOOLEAN
    BY <1>1
  <2>4. QED
    BY <2>1, <2>2, <2>3, Zenon DEF Shown
<1>4. ASSUME \A t \in Task : pc[t] \notin After PROVE Shown = value
  <2>1. Commanding = {}
    BY <1>4 DEF Commanding
  <2>2. QED
    BY <2>1, Zenon DEF Shown
<1>5. \A p \in Coil : level[p] => p = CoilFor(Shown)
  <2> SUFFICES ASSUME NEW p \in Coil, level[p] PROVE p = CoilFor(Shown)
    OBVIOUS
  <2>1. ASSUME NEW t \in Task, pc[t] \in After PROVE p = CoilFor(target[t])
    BY <2>1 DEF IInv, DriveInv, CommandedCoil
  <2>2. CASE \E t \in Task : pc[t] \in After
    BY <2>1, <2>2, <1>3
  <2>3. CASE \A t \in Task : pc[t] \notin After
    <3>1. p = activePin /\ value = Position(activePin)
      <4>1. \/ Quiet
            \/ \E t \in Task : pc[t] = "pin"
            \/ pc["loop"] \in PollStep
        BY <1>1, <2>3 DEF Quiet, IInv, TaskInv
      <4>2. QED
        BY <4>1 DEF IInv, DriveInv, LatchInv
    <3>2. p = CoilFor(value)
      BY <1>1, <3>1 DEF Position, CoilFor
    <3>3. QED
      BY <2>3, <3>2, <1>4
  <2>4. QED
    BY <2>2, <2>3
<1>6. \A p \in Coil : level[p] => Driven = p
  BY <1>5 DEF Driven
<1>7. (\A p \in Coil : ~level[p]) => Driven = "none"
  BY DEF Driven
<1>8. ASSUME pc["loop"] = "low" PROVE level[activePin] /\ contact = Shown
  <2>1. /\ level[activePin] /\ activePin \in Coil
        /\ Elapsed >= PulseTime /\ HeldLongEnough(activePin)
        /\ value = Position(activePin)
    BY <1>8 DEF IInv, TypeOK, PulseInv, DriveInv, LatchInv, NoPin
  <2>2. held[activePin] = PulseTime
    <3>1. held[activePin] \in 0 .. PulseTime /\ Elapsed \in Int
      BY <1>1, <2>1, TimeSpanAssumption DEF IInv, TypeOK, Elapsed
    <3>2. QED
      BY <2>1, <3>1, PulseTimeAssumption DEF HeldLongEnough
  <2>3. contact = value
    BY <2>1, <2>2 DEF IInv, LatchInv
  <2>4. \A t \in Task : pc[t] \notin After
    BY <1>2, <1>8 DEF IInv, TaskInv
  <2>5. QED
    BY <2>1, <2>3, <2>4, <1>4
<1>9. QED
  BY <1>3, <1>4, <1>5, <1>6, <1>7, <1>8 DEF View

(* What is left of a step in the calm: none of the three has changed.      *)
Stays == Shown' = Shown /\ Driven' = Driven /\ UNCHANGED <<contact, Calm>>

(* Each step, seen as a step of LatchingRelay.                             *)
LEMMA LatchCases ==
  ASSUME IInv, View, View', [Next]_vars, Calm, Calm'
  PROVE  \/ Stays
         \/ \E t \in Task : /\ pc[t] = "pin" /\ Driven = "none"
                            /\ Shown' = target[t] /\ UNCHANGED contact
                            /\ Driven' = CoilFor(target[t])
         \/ /\ Driven = CoilFor(Shown) /\ contact' = Shown
            /\ Shown' = Shown /\ Driven' = Driven
         \/ /\ Driven = CoilFor(Shown) /\ contact = Shown
            /\ Driven' = "none" /\ Shown' = Shown /\ UNCHANGED contact
         \/ Reset
<1> DEFINE Goal ==
      \/ Stays
      \/ \E t \in Task : /\ pc[t] = "pin" /\ Driven = "none"
                         /\ Shown' = target[t] /\ UNCHANGED contact
                         /\ Driven' = CoilFor(target[t])
      \/ /\ Driven = CoilFor(Shown) /\ contact' = Shown
         /\ Shown' = Shown /\ Driven' = Driven
      \/ /\ Driven = CoilFor(Shown) /\ contact = Shown
         /\ Driven' = "none" /\ Shown' = Shown /\ UNCHANGED contact
<1> USE DEF Task, Coil, After, CommandStep
<1>0. /\ level \in [Coil -> BOOLEAN] /\ target \in [Task -> BOOLEAN]
      /\ pc \in [Task -> {"idle"} \cup CommandStep \cup PollStep]
      /\ \E t \in Task : pc[t] = "idle"
  BY DEF IInv, TypeOK, TaskInv, Calm
<1>d. ASSUME UNCHANGED level PROVE Driven' = Driven
  BY <1>d DEF Driven
<1>s. ASSUME UNCHANGED <<pc, target, value>> PROVE Shown' = Shown
  BY <1>s DEF Shown, Commanding
<1>2. ASSUME NEW t \in Task, NEW on \in BOOLEAN, Command(t, on) PROVE Goal
  <2>1. /\ pc[t] = "idle" /\ pc' = [pc EXCEPT ![t] = "pin"]
        /\ pc[Other(t)] = "idle"
        /\ UNCHANGED <<level, value, contact>>
    BY <1>2, <1>0, Zenon
       DEF Command, Enter, Calm, pulseVars, relayVars, hardware
  <2>2. /\ \A u \in Task : pc[u] \notin After
        /\ \A u \in Task : pc'[u] \notin After
    BY <1>0, <2>1 DEF Other
  <2>3. Shown = value /\ Shown' = value'
    BY <2>2, Zenon DEF View
  <2>4. Calm' = Calm
    BY Zenon DEF Calm
  <2>5. Stays
    BY <1>d, <2>1, <2>3, <2>4, Zenon DEF Stays
  <2>6. QED
    BY <2>5
<1>3. ASSUME NEW t \in Task, CommandStatement(t) PROVE Goal
  <2>0. Calm' = Calm
    BY Zenon DEF Calm
  <2>1. CASE DrivePin(t)
    <3>1. /\ pc[t] = "pin" /\ pc' = [pc EXCEPT ![t] = "active"]
          /\ level' = [level EXCEPT ![CoilFor(target[t])] = TRUE]
          /\ UNCHANGED <<target, contact>>
      BY <2>1 DEF DrivePin, Step, hardware
    <3>2. \A p \in Coil : ~level[p]
      BY <3>1 DEF Calm, IInv, DriveInv
    <3>3. Driven = "none"
      BY <3>2, Zenon DEF View
    <3>4. pc'[t] \in After
      BY <1>0, <3>1
    <3>5. Shown' = target[t]
      BY <3>1, <3>4, Zenon DEF View
    <3>6. CoilFor(target[t]) \in Coil
      BY DEF CoilFor
    <3>7. level'[CoilFor(target[t])]
      BY <1>0, <3>1, <3>6
    <3>8. Driven' = CoilFor(target[t])
      BY <3>6, <3>7, Zenon DEF View
    <3>9. QED
      BY <3>1, <3>3, <3>5, <3>8, Zenon
  <2>2. CASE SetActivePin(t) \/ SetPulseStart(t) \/ SetPulseActive(t)
             \/ SetState(t)
    <3>1. /\ pc[t] \in After /\ pc'[t] \in After
          /\ UNCHANGED <<level, target, contact>>
      BY <1>0, <2>2 DEF SetActivePin, SetPulseStart, SetPulseActive, SetState,
                        Step, pulseVars, hardware
    <3>2. Shown = target[t] /\ Shown' = target'[t]
      BY <3>1, Zenon DEF View
    <3>3. Stays
      BY <1>d, <2>0, <3>1, <3>2, Zenon DEF Stays
    <3>4. QED
      BY <3>3
  <2>3. CASE SetValue(t)
    <3>1. /\ pc[t] = "value" /\ pc' = [pc EXCEPT ![t] = "idle"]
          /\ value' = target[t]
          /\ UNCHANGED <<level, target, contact>>
      BY <2>3, Zenon DEF SetValue, Step, pulseVars, hardware
    <3>2. pc[t] \in After /\ \A u \in Task : pc'[u] \notin After
      BY <1>0, <3>1
    <3>3. Shown = target[t] /\ Shown' = value'
      BY <3>2, Zenon DEF View
    <3>4. Stays
      BY <1>d, <2>0, <3>1, <3>3, Zenon DEF Stays
    <3>5. QED
      BY <3>4
  <2>4. QED
    BY <1>3, <2>1, <2>2, <2>3, Zenon DEF CommandStatement
<1>4. CASE Poll
  <2>1. /\ pc["loop"] = "idle" /\ pc' = [pc EXCEPT !["loop"] = "low"]
        /\ pc["timer"] = "idle"
        /\ UNCHANGED <<level, value, contact>>
    BY <1>4, Zenon DEF Poll, Enter, Other, Calm, pulseVars, relayVars, hardware
  <2>2. /\ \A u \in Task : pc[u] \notin After
        /\ \A u \in Task : pc'[u] \notin After
    BY <1>0, <2>1
  <2>3. Shown = value /\ Shown' = value'
    BY <2>2, Zenon DEF View
  <2>4. Calm' = Calm
    BY Zenon DEF Calm
  <2>5. Stays
    BY <1>d, <2>1, <2>3, <2>4, Zenon DEF Stays
  <2>6. QED
    BY <2>5
<1>5. CASE PollStatement
  <2>0. Calm' = Calm
    BY Zenon DEF Calm
  <2>1. /\ pc["loop"] \in PollStep
        /\ pc' \in {[pc EXCEPT !["loop"] = s] : s \in {"clear", "none", "idle"}}
        /\ UNCHANGED <<value, contact>>
    BY <1>5 DEF PollStatement, ReleasePin, ClearPulseActive, ClearActivePin,
                Step, PollStep, relayVars, hardware
  <2>2. /\ \A u \in Task : pc[u] \notin After
        /\ \A u \in Task : pc'[u] \notin After
    BY <1>0, <2>1 DEF PollStep
  <2>3. Shown = value /\ Shown' = value'
    BY <2>2, Zenon DEF View
  <2>4. CASE ReleasePin
    <3>1. /\ pc["loop"] = "low" /\ activePin \in Coil \cup {NoPin}
          /\ level' = [p \in Coil |-> level[p] /\ p # activePin]
      BY <2>4 DEF ReleasePin, Step, IInv, TypeOK
    <3>2. level[activePin] /\ contact = Shown /\ activePin \in Coil
      <4>1. activePin # NoPin
        BY <3>1 DEF IInv, PulseInv, PollStep, Calm
      <4>2. QED
        BY <3>1, <4>1, Zenon DEF View
    <3>3. Driven = CoilFor(Shown)
      BY <3>2, Zenon DEF View
    <3>4. \A p \in Coil : level[p] => p = activePin
      BY <3>2 DEF View
    <3>5. \A p \in Coil : ~level'[p]
      BY <3>1, <3>4
    <3>6. Driven' = "none"
      BY <3>5, Zenon DEF View
    <3>7. QED
      BY <2>1, <2>3, <3>2, <3>3, <3>6, Zenon
  <2>5. CASE ClearPulseActive \/ ClearActivePin
    <3>1. UNCHANGED level
      BY <2>5 DEF ClearPulseActive, ClearActivePin, pulseVars
    <3>2. Stays
      BY <1>d, <2>0, <2>1, <2>3, <3>1, Zenon DEF Stays
    <3>3. QED
      BY <3>2
  <2>6. QED
    BY <1>5, <2>4, <2>5 DEF PollStatement
<1>6. CASE Tick
  <2>0. Calm' = Calm
    BY Zenon DEF Calm
  <2>1. /\ UNCHANGED <<level, pc, target, value>>
        /\ contact' \in {contact} \cup {Position(p) : p \in HighCoils}
    BY <1>6 DEF Tick, pulseVars, relayVars
  <2>2. Shown' = Shown /\ Driven' = Driven
    BY <1>d, <1>s, <2>1, Zenon
  <2>3. CASE contact' = contact
    BY <2>0, <2>2, <2>3, Zenon DEF Stays
  <2>4. ASSUME NEW p \in Coil, level[p], contact' = Position(p) PROVE Goal
    <3>1. Driven = p /\ p = CoilFor(Shown)
      BY <2>4, Zenon DEF View
    <3>2. Shown \in BOOLEAN
      BY <1>0, Zenon DEF Shown, Commanding, IInv, TypeOK
    <3>3. contact' = Shown
      BY <2>4, <3>1, <3>2 DEF Position, CoilFor
    <3>4. QED
      BY <2>2, <3>1, <3>3, Zenon
  <2>5. QED
    BY <2>1, <2>3, <2>4 DEF HighCoils
<1>7. CASE UNCHANGED vars
  <2>1. UNCHANGED <<level, pc, target, value, contact, raced, overlapped>>
    BY <1>7 DEF vars, pulseVars, relayVars, hardware, historyVars
  <2>2. QED
    BY <1>d, <1>s, <2>1, Zenon DEF Stays, Calm
<1>8. TypeOK
  BY DEF IInv
<1>9. Goal \/ Reset
  BY NextCases, <1>2, <1>3, <1>4, <1>5, <1>6, <1>7, <1>8, Zenon
<1>10. QED
  BY <1>9

(* The bistable relay implements LatchingRelay, for every pulse length and *)
(* period of millis(): what the runs check of ActsAtOnce, its fairness     *)
(* excepted.                                                               *)
THEOREM ActsAtOnceSafely == Spec => Latch!Safety
<1>1. Init => Latch!Init
  <2> SUFFICES ASSUME Init PROVE Latch!Init
    OBVIOUS
  <2>1. /\ value = FALSE /\ contact \in BOOLEAN
        /\ raced = FALSE /\ overlapped = FALSE
        /\ \A p \in Coil : ~level[p]
        /\ \A t \in Task : pc[t] = "idle"
    BY Zenon DEF Init, PowerOn
  <2>2. Commanding = {}
    BY <2>1 DEF Commanding, CommandStep
  <2>3. ~level["set"] /\ ~level["reset"]
    BY <2>1 DEF Coil
  <2>4. QED
    BY <2>1, <2>2, <2>3, Zenon DEF Latch!Init
<1>2. IInv /\ View /\ View' /\ [Next]_vars => [Latch!Next]_Latch!latchVars
  <2> SUFFICES ASSUME IInv, View, View', [Next]_vars
               PROVE  [Latch!Next]_Latch!latchVars
    OBVIOUS
  <2> USE DEF Latch!latchVars, Latch!Next
  <2>1. CASE ~Calm'
    BY <2>1, Zenon DEF Calm
  <2>2. CASE Reset
    <3>1. /\ value' = FALSE /\ UNCHANGED contact
          /\ raced' = FALSE /\ overlapped' = FALSE
          /\ \A p \in Coil : ~level'[p]
          /\ \A t \in Task : pc'[t] = "idle"
      BY <2>2, Zenon DEF Reset
    <3>2. Commanding' = {}
      BY <3>1 DEF Commanding, CommandStep
    <3>3. ~level'["set"] /\ ~level'["reset"]
      BY <3>1 DEF Coil
    <3>4. Latch!Reset
      BY <3>1, <3>2, <3>3, Zenon DEF Latch!Reset
    <3>5. QED
      BY <3>4
  <2>3. CASE ~Calm /\ Calm' /\ ~Reset
    <3>1. (raced => raced') /\ (overlapped => overlapped')
      <4>1. TypeOK
        BY DEF IInv
      <4>2. ASSUME NEW t \in Task, NEW on \in BOOLEAN, Command(t, on)
            PROVE  (raced => raced') /\ (overlapped => overlapped')
        BY <4>2, Zenon DEF Command, Enter
      <4>3. ASSUME NEW t \in Task, CommandStatement(t)
            PROVE  UNCHANGED <<raced, overlapped>>
        BY <4>3 DEF CommandStatement, DrivePin, SetActivePin, SetPulseStart,
                    SetPulseActive, SetState, SetValue, historyVars
      <4>4. CASE Poll
        BY <4>4, Zenon DEF Poll, Enter
      <4>5. CASE PollStatement \/ Tick \/ UNCHANGED vars
        BY <4>5 DEF PollStatement, ReleasePin, ClearPulseActive,
                    ClearActivePin, Tick, vars, historyVars
      <4>6. QED
        BY <2>3, <4>1, <4>2, <4>3, <4>4, <4>5, NextCases, Zenon
    <3>2. QED
      BY <2>3, <3>1, Zenon DEF Calm
  <2>4. CASE Calm /\ Calm' /\ ~Reset
    <3>1. target \in [Task -> BOOLEAN]
      BY DEF IInv, TypeOK
    <3>2. QED
      BY <2>4, <3>1, LatchCases, Zenon
         DEF Stays, Shown, Driven, Calm, CoilFor, Latch!CoilFor,
             Latch!Command, Latch!Move, Latch!Release
  <2>5. QED
    BY <2>1, <2>2, <2>3, <2>4, Zenon
<1>3. QED
  BY <1>1, <1>2, ViewHolds, Inductive, PTL DEF Spec, Latch!Safety
=============================================================================
