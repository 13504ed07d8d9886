---------------------------- MODULE Button_proofs ----------------------------
(***************************************************************************)
(* What the button promises, for every width of the clock, every delay and *)
(* every set-up.                                                           *)
(***************************************************************************)
EXTENDS Button, TLAPS

(* The inductive invariant                                                 *)

\* The age of the last change and of the candidate, as the code sees them.
Debounced == Since(debounceTimestampMs)
Filtered  == Since(filterTimestampMs)

\* Until millis() has come round, the time stamps tell the true age of the
\* last change.
AgeInv ==
    /\ sinceAccept < TimeSpan => Debounced = sinceAccept
    /\ Changed => lastStateChangeMs = debounceTimestampMs

\* A candidate waits no longer than the filter, or is overlooked while polls do
\* not look again after millis() has come round.
FilterInv ==
    newStatusCandidate # prevState =>
        \/ Filtered <= NoiseFilterDelay + late
        \/ /\ Debounced <= DebounceDelay + late
           /\ Filtered <= NoiseFilterDelay + MaxLate + Debounced

\* Until then, a candidate is what all polls since have found.
CandidateInv ==
    newStatusCandidate # prevState /\ sinceAccept < TimeSpan =>
        /\ line = newStatusCandidate
        /\ Filtered <= lineFor \/ lineFor > Accepted
        /\ sinceAccept > DebounceDelay

\* A level that polls find and that is not accepted is the candidate, or polls
\* do not look; it is not older than its candidate, or than that time.
LineInv ==
    line # prevState =>
        \/ /\ newStatusCandidate = prevState
           /\ lineFor <= Debounced
           /\ Debounced <= DebounceDelay + late
        \/ /\ newStatusCandidate # prevState
           /\ lineFor <= Filtered
        \/ /\ newStatusCandidate # prevState
           /\ lineFor <= Debounced
           /\ Debounced <= Filtered + DebounceDelay + MaxLate

\* The presses that count, one too many for any listener being the most.
Counted == IF presses <= mode.max THEN presses ELSE mode.max + 1

\* The counter is the number of presses, but for a series just reported.
SeriesInv ==
    /\ mode.multiclick = 0 => clickCounter = 0
    /\ mode.multiclick > 0 /\ clickCounter # Reported => clickCounter = Counted
    /\ ~rested => clickCounter = Reported

\* A hold sent for this press is remembered while the press lasts.
SentInv == heldSent => prevState = "pressed" /\ holdSend = 1

\* A poll after the pause settles everything.
PauseInv ==
    Changed /\ prevState = "released" /\ sinceAccept - late > mode.multiclick =>
        /\ presses = 0 /\ holdSend = 0
        /\ \/ clickCounter = 0
           \/ clickCounter = Reported /\ sinceAccept = TimeSpan

\* One poll after the hold time forgets the clicks at the latest, the next one
\* sends the hold.
HoldInv ==
    Changed /\ prevState = "pressed" /\ mode.hold > 0 =>
        /\ sinceAccept - late > mode.hold => holdSend = 1 \/ clickCounter = 0
        /\ sinceAccept - late > mode.hold + MaxLate => holdSend = 1

IInv ==
    /\ TypeOK /\ AgeInv /\ FilterInv /\ CandidateInv /\ LineInv
    /\ SeriesInv /\ SentInv /\ PauseInv /\ HoldInv

----------------------------------------------------------------------------
(* Types                                                                   *)

\* What the assumption says of the delays.
LEMMA DelayTypes ==
    /\ TimeSpan \in Nat /\ MaxLate \in Nat /\ MaxLate > 0
    /\ NoiseFilterDelay \in Nat /\ NoiseFilterDelay > 0
    /\ DebounceDelay \in Nat /\ MaxLate <= DebounceDelay
    /\ DebounceDelay + NoiseFilterDelay + 4 * MaxLate < TimeSpan
    /\ MaxPresses \in Nat
    /\ Accepted \in Nat
    /\ Accepted = DebounceDelay + NoiseFilterDelay + 3 * MaxLate
BY ButtonAssumption DEF Accepted

\* What the assumption says of a set-up.
LEMMA ModeTypes ==
    ASSUME NEW m \in Modes
    PROVE  /\ m.multiclick \in Nat /\ m.hold \in Nat
           /\ m.max \in Nat /\ m.max <= 10 /\ m.max < MaxPresses
           /\ ClickLimit(m) \in Nat
           /\ m.hold > 0 => ClickLimit(m) = m.hold
           /\ ClickLimit(m) + m.multiclick + 2 * MaxLate < TimeSpan
           /\ m.hold + m.multiclick + 2 * MaxLate < TimeSpan
<1>1. m \in [multiclick : Nat, hold : Nat, max : 0 .. 10]
  BY ButtonAssumption
<1>2. m.multiclick \in Nat /\ m.hold \in Nat /\ m.max \in 0 .. 10
  BY <1>1
<1>3. ClickLimit(m) \in Nat /\ (m.hold > 0 => ClickLimit(m) = m.hold)
  BY <1>2 DEF ClickLimit
<1>4. /\ ClickLimit(m) + m.multiclick + 2 * MaxLate < TimeSpan
      /\ m.max < MaxPresses
  BY ButtonAssumption
<1>5. QED
  BY <1>2, <1>3, <1>4, DelayTypes DEF ClickLimit

\* The age of a time stamp.
LEMMA SinceTypes ==
    ASSUME now \in Time, NEW t \in Time
    PROVE  Since(t) \in Nat /\ Since(t) < TimeSpan
BY DelayTypes DEF Since, Time

\* The ages of the time stamps.
LEMMA AgeTypes ==
    ASSUME TypeOK
    PROVE  /\ Debounced \in Nat /\ Debounced < TimeSpan
           /\ Filtered \in Nat /\ Filtered < TimeSpan
           /\ timeDelta \in Nat /\ timeDelta < TimeSpan
BY SinceTypes DEF TypeOK, Debounced, Filtered, timeDelta

\* With a tick a time stamp gets older, or looks new when millis() has come
\* round.
LEMMA SinceTick ==
    ASSUME TypeOK, Tick, NEW t \in Time
    PROVE  (IF t <= now' THEN now' - t ELSE now' - t + TimeSpan) =
           IF Since(t) + 1 = TimeSpan THEN 0 ELSE Since(t) + 1
<1>1. now \in Time /\ now' = IF now + 1 = TimeSpan THEN 0 ELSE now + 1
  BY DEF TypeOK, Tick
<1>2. QED
  BY <1>1, DelayTypes DEF Since, Time

\* What a tick does to the ages.
LEMMA TickAges ==
    ASSUME TypeOK, Tick
    PROVE  /\ Debounced' = IF Debounced + 1 = TimeSpan THEN 0 ELSE Debounced + 1
           /\ Filtered' = IF Filtered + 1 = TimeSpan THEN 0 ELSE Filtered + 1
<1>1. /\ debounceTimestampMs \in Time /\ filterTimestampMs \in Time
      /\ debounceTimestampMs' = debounceTimestampMs
      /\ filterTimestampMs' = filterTimestampMs
  BY DEF TypeOK, Tick, filterVars
<1>2. QED
  BY <1>1, SinceTick DEF Debounced, Filtered, Since

\* What a tick does to the rest.
LEMMA TickTypes ==
    ASSUME TypeOK, Tick
    PROVE  /\ late \in Nat /\ late < MaxLate /\ late' = late + 1
           /\ lineFor \in Nat /\ lineFor <= Accepted + 1
           /\ lineFor' = IF lineFor <= Accepted THEN lineFor + 1 ELSE lineFor
           /\ sinceAccept \in Nat /\ sinceAccept <= TimeSpan
           /\ sinceAccept' = IF sinceAccept < TimeSpan THEN sinceAccept + 1
                                                       ELSE sinceAccept
           /\ UNCHANGED <<mode, prevState, newStatusCandidate,
                 debounceTimestampMs, filterTimestampMs, lastStateChangeMs,
                 clickCounter, holdSend, line, presses, rested, heldSent>>
<1>1. late \in Nat /\ late < MaxLate /\ late' = late + 1
  BY DelayTypes DEF TypeOK, Tick
<1>2. /\ lineFor \in Nat /\ lineFor <= Accepted + 1
      /\ lineFor' = IF lineFor <= Accepted THEN lineFor + 1 ELSE lineFor
  BY DelayTypes DEF TypeOK, Tick, Older
<1>3. /\ sinceAccept \in Nat /\ sinceAccept <= TimeSpan
      /\ sinceAccept' = IF sinceAccept < TimeSpan THEN sinceAccept + 1
                                                  ELSE sinceAccept
  BY DelayTypes DEF TypeOK, Tick, Older
<1>4. QED
  BY <1>1, <1>2, <1>3 DEF Tick, filterVars, clickVars, seriesVars

\* What a poll that accepts nothing does.
LEMMA WatchTypes ==
    ASSUME TypeOK, NEW reading \in Level, Watch(reading)
    PROVE  /\ late \in Nat /\ late <= MaxLate /\ late > 0 /\ late' = 0
           /\ line' = reading
           /\ lineFor \in Nat /\ lineFor <= Accepted + 1
           /\ lineFor' = IF reading = line THEN lineFor ELSE 0
           /\ Debounced' = Debounced
           /\ Filtered' = IF Differs(reading) /\ reading # newStatusCandidate
                          THEN 0 ELSE Filtered
           /\ newStatusCandidate' =
                  IF Reads THEN reading ELSE newStatusCandidate
           /\ UNCHANGED <<now, mode, prevState, debounceTimestampMs,
                          lastStateChangeMs, sinceAccept>>
<1>1. late \in Nat /\ late <= MaxLate /\ late > 0 /\ late' = 0
  BY DelayTypes DEF TypeOK, Watch, Poll
<1>2. lineFor \in Nat /\ lineFor <= Accepted + 1
  BY DelayTypes DEF TypeOK
<1>3. UNCHANGED <<now, mode, prevState, debounceTimestampMs,
                  lastStateChangeMs, sinceAccept>>
  BY DEF Watch, Poll
<1>4. Debounced' = Debounced
  BY <1>3 DEF Debounced, Since
<1>5. now \in Time
  BY DEF TypeOK
<1>6. Filtered' = IF Differs(reading) /\ reading # newStatusCandidate
                  THEN 0 ELSE Filtered
  BY <1>3, <1>5, DelayTypes DEF Watch, Filtered, Since, Time
<1>7. QED
  BY <1>1, <1>2, <1>3, <1>4, <1>6 DEF Watch, Poll

\* What a poll that accepts a change does.
LEMMA AcceptTypes ==
    ASSUME TypeOK, NEW reading \in Level, Accept(reading)
    PROVE  /\ late' = 0 /\ line' = reading /\ prevState' = reading
           /\ newStatusCandidate' = reading
           /\ Debounced' = 0
           /\ sinceAccept' = 0
           /\ lastStateChangeMs' = debounceTimestampMs'
           /\ lineFor' = IF reading = line THEN lineFor ELSE 0
           /\ UNCHANGED <<mode, holdSend, rested>>
<1>1. now \in Time /\ now' = now /\ debounceTimestampMs' = now
  BY DEF TypeOK, Accept, Poll
<1>2. Debounced' = 0
  BY <1>1, DelayTypes DEF Debounced, Since, Time
<1>3. QED
  BY <1>2 DEF Accept, Poll, Confirmed

\* Every poll watches or accepts.
LEMMA PollKinds ==
    ASSUME OnTimer
    PROVE  \/ \E reading \in Level : Watch(reading)
           \/ \E reading \in Level : Accept(reading)
BY DEF OnTimer, AcceptPress, AcceptRelease, SendHold, ForgetClicks,
       ReportClicks, CountNothing, WatchOnly, Level

\* Every step keeps the types.
LEMMA TypesKept ==
    ASSUME TypeOK, [Next]_vars
    PROVE  TypeOK'
<1> DEFINE Clocks == now \in Time /\ late \in 0 .. MaxLate
           Filter == /\ mode \in Modes /\ prevState \in Level
                     /\ newStatusCandidate \in Level
                     /\ debounceTimestampMs \in Time
                     /\ filterTimestampMs \in Time
                     /\ lastStateChangeMs \in Time
                     /\ line \in Level
           Ages   == /\ lineFor \in 0 .. Accepted + 1
                     /\ sinceAccept \in 0 .. TimeSpan
           Series == /\ clickCounter \in (0 .. mode.max + 1) \cup {Reported}
                     /\ holdSend \in 0 .. 1
                     /\ presses \in 0 .. MaxPresses
                     /\ rested \in BOOLEAN
                     /\ heldSent \in BOOLEAN
<1>0. Clocks' /\ Filter' /\ Ages' /\ Series' => TypeOK'
  BY DEF TypeOK
<1>1. CASE Tick
  <2>1. Clocks'
    BY <1>1, DelayTypes DEF Tick, TypeOK, Time
  <2>2. Ages'
    BY <1>1, TickTypes, DelayTypes
  <2>3. Filter' /\ Series'
    BY <1>1, TickTypes DEF TypeOK
  <2>4. QED
    BY <1>0, <2>1, <2>2, <2>3
<1>2. ASSUME OnTimer PROVE Clocks' /\ Filter' /\ Ages'
  <2>1. ASSUME NEW reading \in Level, Watch(reading)
        PROVE  Clocks' /\ Filter' /\ Ages'
    <3>1. Clocks' /\ Ages'
      BY <2>1, WatchTypes, DelayTypes DEF TypeOK
    <3>2. Filter'
      BY <2>1 DEF Watch, Poll, TypeOK
    <3>3. QED
      BY <3>1, <3>2
  <2>2. ASSUME NEW reading \in Level, Accept(reading)
        PROVE  Clocks' /\ Filter' /\ Ages'
    <3>1. Clocks' /\ Ages'
      BY <2>2, DelayTypes DEF Accept, Poll, TypeOK
    <3>2. Filter'
      BY <2>2 DEF Accept, Poll, TypeOK
    <3>3. QED
      BY <3>1, <3>2
  <2>3. QED
    BY <1>2, <2>1, <2>2, PollKinds
<1>3. ASSUME OnTimer PROVE mode' = mode
  BY <1>3, PollKinds DEF Watch, Accept, Poll
<1>4. ASSUME OnTimer PROVE rested' \in BOOLEAN /\ heldSent' \in BOOLEAN
  <2>1. rested \in BOOLEAN /\ heldSent \in BOOLEAN
    BY DEF TypeOK
  <2>2. QED
    BY <1>4, <2>1, Zenon
       DEF OnTimer, AcceptPress, AcceptRelease, Accept, SendHold, ForgetClicks,
           ReportClicks, CountNothing, WatchOnly
<1>5. ASSUME OnTimer
      PROVE  /\ clickCounter' \in (0 .. mode'.max + 1) \cup {Reported}
             /\ holdSend' \in 0 .. 1
             /\ presses' \in 0 .. MaxPresses
  <2>0. /\ mode.max \in Nat /\ mode' = mode
        /\ mode.max <= 10
        /\ clickCounter \in (0 .. mode.max + 1) \cup {Reported}
        /\ holdSend \in 0 .. 1
        /\ presses \in 0 .. MaxPresses
    BY <1>3, <1>5, ModeTypes DEF TypeOK
  <2>1. CASE AcceptPress
    BY <2>0, <2>1, DelayTypes DEF AcceptPress, Accept, Reported
  <2>2. CASE AcceptRelease
    BY <2>0, <2>2 DEF AcceptRelease, Accept
  <2>3. CASE SendHold
    BY <2>0, <2>3, DelayTypes DEF SendHold, HoldDue
  <2>4. CASE ForgetClicks
    BY <2>0, <2>4, DelayTypes DEF ForgetClicks
  <2>5. CASE ReportClicks
    BY <2>0, <2>5, DelayTypes DEF ReportClicks
  <2>6. CASE CountNothing
    BY <2>0, <2>6, DelayTypes DEF CountNothing
  <2>7. CASE WatchOnly
    BY <2>0, <2>7 DEF WatchOnly
  <2>8. QED
    BY <1>5, <2>1, <2>2, <2>3, <2>4, <2>5, <2>6, <2>7 DEF OnTimer
<1>6. CASE OnTimer
  BY <1>0, <1>2, <1>3, <1>4, <1>5, <1>6
<1>7. CASE UNCHANGED vars
  BY <1>7 DEF vars, filterVars, clickVars, lineVars, seriesVars, TypeOK
<1>8. QED
  BY <1>1, <1>6, <1>7 DEF Next

----------------------------------------------------------------------------
(* The filter                                                              *)

\* What the filter's part of the invariant says.
FilterPart == AgeInv /\ FilterInv /\ CandidateInv /\ LineInv

\* Time passes.
LEMMA TickFilter ==
    ASSUME TypeOK, FilterPart, Tick
    PROVE  FilterPart'
<1> USE DelayTypes, AgeTypes, TickTypes, TickAges
<1>1. AgeInv'
  BY DEF FilterPart, AgeInv, Changed, Debounced
<1>2. FilterInv'
  BY DEF FilterPart, FilterInv
<1>3. CandidateInv'
  BY DEF FilterPart, CandidateInv
<1>4. LineInv'
  BY DEF FilterPart, LineInv, FilterInv
<1>5. QED
  BY <1>1, <1>2, <1>3, <1>4 DEF FilterPart

\* A poll that accepts nothing.
LEMMA WatchFilter ==
    ASSUME TypeOK, FilterPart, NEW reading \in Level, Watch(reading)
    PROVE  FilterPart'
<1> USE DelayTypes, AgeTypes, WatchTypes
<1>0. /\ prevState \in Level /\ newStatusCandidate \in Level /\ line \in Level
      /\ ~Confirmed(reading)
      /\ sinceAccept \in Nat /\ sinceAccept <= TimeSpan
  BY DEF TypeOK, Watch
<1>r. Reads <=> Debounced > DebounceDelay
  BY DEF Reads, Debounced
<1>c. Confirmed(reading) <=>
          /\ Reads /\ reading # prevState /\ reading = newStatusCandidate
          /\ Filtered > NoiseFilterDelay
  BY DEF Confirmed, Differs, Filtered
<1>1. AgeInv'
  BY DEF FilterPart, AgeInv, Changed, Debounced
<1>2. FilterInv'
  BY <1>0, <1>r, <1>c DEF FilterPart, FilterInv, Differs, Level
<1>3. CandidateInv'
  BY <1>0, <1>r, <1>c DEF FilterPart, CandidateInv, AgeInv, Differs, Level,
                          Debounced
<1>4. LineInv'
  BY <1>0, <1>r, <1>c DEF FilterPart, LineInv, FilterInv, Differs, Level
<1>5. QED
  BY <1>1, <1>2, <1>3, <1>4 DEF FilterPart

\* A change is accepted.
LEMMA AcceptFilter ==
    ASSUME TypeOK, FilterPart, NEW reading \in Level, Accept(reading)
    PROVE  FilterPart'
BY DelayTypes, AcceptTypes
   DEF FilterPart, AgeInv, FilterInv, CandidateInv, LineInv, Changed, Debounced

\* Every step keeps the filter's part.
LEMMA FilterKept ==
    ASSUME TypeOK, FilterPart, [Next]_vars
    PROVE  FilterPart'
<1>1. CASE Tick
  BY <1>1, TickFilter
<1>2. CASE OnTimer
  BY <1>2, PollKinds, WatchFilter, AcceptFilter
<1>3. CASE UNCHANGED vars
  BY <1>3 DEF vars, filterVars, clickVars, lineVars, seriesVars, FilterPart,
              AgeInv, FilterInv, CandidateInv, LineInv, Changed, Debounced,
              Filtered, Since
<1>4. QED
  BY <1>1, <1>2, <1>3 DEF Next

----------------------------------------------------------------------------
(* Clicks and holds                                                        *)

\* What the types say of the clicks.
LEMMA ClickTypes ==
    ASSUME TypeOK
    PROVE  /\ mode \in Modes
           /\ mode.multiclick \in Nat /\ mode.hold \in Nat
           /\ mode.max \in Nat /\ mode.max <= 10 /\ mode.max < MaxPresses
           /\ ClickLimit(mode) \in Nat
           /\ mode.hold > 0 => ClickLimit(mode) = mode.hold
           /\ mode.hold + mode.multiclick + 2 * MaxLate < TimeSpan
           /\ clickCounter \in Nat /\ holdSend \in {0, 1}
           /\ clickCounter <= mode.max + 1 \/ clickCounter = Reported
           /\ presses \in Nat /\ presses <= MaxPresses
           /\ late \in Nat /\ late <= MaxLate
           /\ sinceAccept \in Nat /\ sinceAccept <= TimeSpan
           /\ prevState \in Level
           /\ rested \in BOOLEAN /\ heldSent \in BOOLEAN
           /\ Reported = 255
BY ModeTypes, DelayTypes DEF TypeOK, Reported

\* What the code sees of the age of the last change.
LEMMA DeltaTypes ==
    ASSUME TypeOK, AgeInv, Changed
    PROVE  /\ timeDelta \in Nat
           /\ timeDelta <= sinceAccept
           /\ sinceAccept < TimeSpan => timeDelta = sinceAccept
BY AgeTypes, ClickTypes, DelayTypes DEF AgeInv, timeDelta, Debounced

\* A poll that accepts nothing leaves the press as it was.
LEMMA WatchKeeps ==
    ASSUME TypeOK, \E reading \in Level : Watch(reading)
    PROVE  /\ late' = 0
           /\ UNCHANGED <<mode, prevState, lastStateChangeMs, sinceAccept>>
           /\ Changed' = Changed
BY WatchTypes DEF Changed

\* With a change everything about a pause or a hold begins anew.
LEMMA AcceptKeeps ==
    ASSUME TypeOK, NEW reading \in Level, Accept(reading)
    PROVE  late' = 0 /\ sinceAccept' = 0 /\ mode' = mode
BY AcceptTypes

\* Every step keeps what the counter says.
LEMMA SeriesKept ==
    ASSUME TypeOK, AgeInv, SeriesInv, [Next]_vars
    PROVE  SeriesInv'
<1> USE ClickTypes, DelayTypes
<1>1. CASE Tick
  BY <1>1, TickTypes DEF SeriesInv, Counted
<1>2. CASE AcceptPress
  <2>1. mode' = mode /\ rested' = rested
    BY <1>2 DEF AcceptPress, Accept, Poll
  <2>2. QED
    BY <1>2, <2>1 DEF AcceptPress, SeriesInv, Counted
<1>3. CASE AcceptRelease
  BY <1>3 DEF AcceptRelease, Accept, Poll, SeriesInv, Counted
<1>4. CASE SendHold
  <2>1. mode' = mode /\ clickCounter' = 0 /\ presses' = 0 /\ clickCounter <= 1
    BY <1>4, WatchKeeps DEF SendHold, HoldDue
  <2>2. rested
    BY <2>1 DEF SeriesInv
  <2>3. rested'
    BY <1>4, <2>2, Zenon DEF SendHold
  <2>4. QED
    BY <2>1, <2>3 DEF SeriesInv, Counted
<1>5. CASE ForgetClicks
  <2>1. mode' = mode /\ clickCounter' = 0 /\ presses' = 0
    BY <1>5, WatchKeeps DEF ForgetClicks
  <2>2. rested'
    BY <1>5, Zenon DEF ForgetClicks
  <2>3. QED
    BY <2>1, <2>2 DEF SeriesInv, Counted
<1>6. CASE ReportClicks
  <2>1. /\ mode' = mode /\ mode.multiclick > 0 /\ presses' = 0
        /\ clickCounter' = IF timeDelta > mode.multiclick THEN 0 ELSE Reported
    BY <1>6, WatchKeeps DEF ReportClicks, SeriesOver
  <2>2. timeDelta > mode.multiclick => rested'
    <3>1. timeDelta > mode.multiclick => Pause
      BY <1>6, DeltaTypes DEF ReportClicks, SeriesOver, Pause
    <3>2. rested' = (Pause \/ (rested /\ ~ReportsClicks))
      BY <1>6 DEF ReportClicks
    <3>3. QED
      BY <3>1, <3>2, Zenon
  <2>3. QED
    BY <2>1, <2>2 DEF SeriesInv, Counted
<1>7. CASE CountNothing
  <2>1. mode' = mode /\ mode.multiclick = 0 /\ clickCounter' = 0
    BY <1>7, WatchKeeps DEF CountNothing
  <2>2. rested => rested'
    <3>1. rested' = (Pause \/ rested)
      BY <1>7 DEF CountNothing
    <3>2. QED
      BY <3>1, Zenon
  <2>3. QED
    BY <2>1, <2>2 DEF SeriesInv
<1>8. CASE WatchOnly
  <2>1. mode' = mode /\ UNCHANGED <<clickCounter, presses>>
    BY <1>8, WatchKeeps DEF WatchOnly
  <2>2. rested => rested'
    <3>1. rested' = (Pause \/ rested)
      BY <1>8 DEF WatchOnly
    <3>2. QED
      BY <3>1, Zenon
  <2>3. QED
    BY <2>1, <2>2 DEF SeriesInv, Counted
<1>9. CASE UNCHANGED vars
  BY <1>9 DEF vars, clickVars, seriesVars, SeriesInv, Counted
<1>10. QED
  BY <1>1, <1>2, <1>3, <1>4, <1>5, <1>6, <1>7, <1>8, <1>9 DEF Next, OnTimer

\* Every step keeps the hold that was sent.
LEMMA SentKept ==
    ASSUME TypeOK, SentInv, [Next]_vars
    PROVE  SentInv'
<1> USE ClickTypes
<1>1. CASE Tick
  BY <1>1, TickTypes DEF SentInv
<1>2. CASE AcceptPress \/ AcceptRelease
  BY <1>2 DEF AcceptPress, AcceptRelease, Accept, SentInv
<1>3. CASE SendHold
  <2>1. prevState = "pressed" /\ holdSend = 0 /\ holdSend' = holdSend + 1
    BY <1>3 DEF SendHold, HoldDue
  <2>2. prevState' = prevState
    BY <1>3, WatchKeeps DEF SendHold
  <2>3. QED
    BY <2>1, <2>2 DEF SentInv
<1>4. CASE ForgetClicks
  BY <1>4, WatchKeeps DEF ForgetClicks, SentInv
<1>5. CASE ReportClicks
  BY <1>5, WatchKeeps DEF ReportClicks, SeriesOver, SentInv
<1>6. CASE CountNothing
  BY <1>6, WatchKeeps DEF CountNothing, SentInv
<1>7. CASE WatchOnly
  BY <1>7, WatchKeeps DEF WatchOnly, SentInv
<1>8. CASE UNCHANGED vars
  BY <1>8 DEF vars, filterVars, clickVars, seriesVars, SentInv
<1>9. QED
  BY <1>1, <1>2, <1>3, <1>4, <1>5, <1>6, <1>7, <1>8 DEF Next, OnTimer

\* Every step keeps what a pause has settled.
LEMMA PauseKept ==
    ASSUME TypeOK, AgeInv, PauseInv, [Next]_vars
    PROVE  PauseInv'
<1> USE ClickTypes, DelayTypes
<1>1. CASE Tick
  BY <1>1, TickTypes DEF PauseInv, Changed
<1>2. CASE AcceptPress \/ AcceptRelease
  BY <1>2, AcceptKeeps DEF AcceptPress, AcceptRelease, Level, PauseInv
<1>3. CASE SendHold
  BY <1>3, WatchKeeps DEF SendHold, HoldDue, PauseInv
<1>4. CASE ForgetClicks
  BY <1>4, WatchKeeps DEF ForgetClicks, PressTooLong, PauseInv
<1>5. CASE ReportClicks
  <2>1. /\ late' = 0 /\ UNCHANGED <<mode, prevState, sinceAccept>>
        /\ Changed /\ Changed' = Changed /\ presses' = 0
    BY <1>5, WatchKeeps DEF ReportClicks
  <2>2. IF timeDelta > mode.multiclick
        THEN clickCounter' = 0 /\ holdSend' = 0
        ELSE clickCounter' = Reported /\ holdSend' = holdSend
    BY <1>5 DEF ReportClicks
  <2>3. CASE timeDelta > mode.multiclick
    BY <2>1, <2>2, <2>3 DEF PauseInv
  <2>4. CASE ~(timeDelta > mode.multiclick) /\ sinceAccept > mode.multiclick
    <3>1. sinceAccept = TimeSpan
      BY <2>1, <2>4, DeltaTypes
    <3>2. prevState = "released"
      BY <1>5 DEF ReportClicks, SeriesOver
    <3>3. sinceAccept - late > mode.multiclick
      BY <3>1
    <3>4. holdSend = 0
      BY <2>1, <3>2, <3>3 DEF PauseInv
    <3>5. QED
      BY <2>1, <2>2, <2>4, <3>1, <3>4 DEF PauseInv
  <2>5. CASE ~(sinceAccept > mode.multiclick)
    BY <2>1, <2>5 DEF PauseInv
  <2>6. QED
    BY <2>3, <2>4, <2>5
<1>6. CASE CountNothing
  BY <1>6, WatchKeeps DEF CountNothing, PauseInv
<1>7. CASE WatchOnly
  <2>1. /\ late' = 0 /\ UNCHANGED <<mode, prevState, sinceAccept>>
        /\ Changed' = Changed
        /\ UNCHANGED <<clickCounter, holdSend, presses>>
    BY <1>7, WatchKeeps DEF WatchOnly
  <2>2. Changed /\ prevState = "released" => timeDelta <= mode.multiclick
    <3>1. Changed => /\ ~SeriesOver
                     /\ prevState = "pressed" \/ mode.multiclick > 0
      BY <1>7 DEF WatchOnly
    <3>2. QED
      BY <3>1, DeltaTypes DEF SeriesOver
  <2>3. CASE sinceAccept < TimeSpan
    BY <2>1, <2>2, <2>3, DeltaTypes DEF PauseInv
  <2>4. CASE sinceAccept = TimeSpan
    BY <2>1, <2>4 DEF PauseInv
  <2>5. QED
    BY <2>3, <2>4
<1>8. CASE UNCHANGED vars
  BY <1>8 DEF vars, filterVars, clickVars, seriesVars, PauseInv, Changed
<1>9. QED
  BY <1>1, <1>2, <1>3, <1>4, <1>5, <1>6, <1>7, <1>8 DEF Next, OnTimer

\* Every step keeps the way to a hold.
LEMMA HoldKept ==
    ASSUME TypeOK, AgeInv, HoldInv, [Next]_vars
    PROVE  HoldInv'
<1> USE ClickTypes, DelayTypes
<1>1. CASE Tick
  BY <1>1, TickTypes DEF HoldInv, Changed
<1>2. CASE AcceptPress \/ AcceptRelease
  BY <1>2, AcceptKeeps DEF AcceptPress, AcceptRelease, Level, HoldInv
<1>3. CASE SendHold
  BY <1>3, WatchKeeps DEF SendHold, HoldDue, HoldInv
<1>4. CASE ForgetClicks
  BY <1>4, WatchKeeps, DeltaTypes
     DEF ForgetClicks, PressTooLong, HoldDue, HoldInv
<1>5. CASE ReportClicks
  BY <1>5, WatchKeeps DEF ReportClicks, SeriesOver, HoldInv
<1>6. CASE CountNothing
  BY <1>6, WatchKeeps DEF CountNothing, HoldInv
<1>7. CASE WatchOnly
  <2>1. /\ late' = 0 /\ UNCHANGED <<mode, prevState, sinceAccept>>
        /\ Changed' = Changed
        /\ UNCHANGED <<clickCounter, holdSend>>
    BY <1>7, WatchKeeps DEF WatchOnly
  <2>2. Changed => ~HoldDue /\ ~PressTooLong
    BY <1>7 DEF WatchOnly
  <2>3. CASE sinceAccept < TimeSpan
    BY <2>1, <2>2, <2>3, DeltaTypes DEF HoldDue, PressTooLong, HoldInv
  <2>4. CASE sinceAccept = TimeSpan
    BY <2>1, <2>4 DEF HoldInv
  <2>5. QED
    BY <2>3, <2>4
<1>8. CASE UNCHANGED vars
  BY <1>8 DEF vars, filterVars, clickVars, seriesVars, HoldInv, Changed
<1>9. QED
  BY <1>1, <1>2, <1>3, <1>4, <1>5, <1>6, <1>7, <1>8 DEF Next, OnTimer

----------------------------------------------------------------------------
(* Theorems                                                                *)

\* The invariant holds at first.
LEMMA InitIInv == Init => IInv
<1> SUFFICES ASSUME Init PROVE IInv
  OBVIOUS
<1> USE DelayTypes
<1>1. TypeOK
  <2>1. mode.max \in Nat
    BY ModeTypes DEF Init
  <2>2. QED
    <3>1. now \in Time /\ 0 \in Time
      BY DEF Init, Time
    <3>2. clickCounter \in 0 .. mode.max + 1
      BY <2>1 DEF Init
    <3>3. lineFor \in 0 .. Accepted + 1 /\ sinceAccept \in 0 .. TimeSpan
      BY DEF Init
    <3>4. rested \in BOOLEAN /\ heldSent \in BOOLEAN
      BY Zenon DEF Init
    <3>5. QED
      BY <3>1, <3>2, <3>3, <3>4 DEF Init, TypeOK
<1>2. AgeInv /\ FilterInv /\ CandidateInv /\ LineInv
  BY DEF Init, AgeInv, FilterInv, CandidateInv, LineInv, Debounced, Since,
         Changed
<1>3. SeriesInv /\ SentInv
  BY <1>1, ClickTypes DEF Init, SeriesInv, SentInv, Counted
<1>4. PauseInv /\ HoldInv
  BY DEF Init, PauseInv, HoldInv, Changed
<1>5. QED
  BY <1>1, <1>2, <1>3, <1>4 DEF IInv

\* Every step keeps the invariant.
LEMMA NextIInv == IInv /\ [Next]_vars => IInv'
<1> SUFFICES ASSUME IInv, [Next]_vars PROVE IInv'
  OBVIOUS
<1>1. TypeOK' /\ FilterPart'
  BY TypesKept, FilterKept DEF IInv, FilterPart
<1>2. SeriesInv' /\ SentInv' /\ PauseInv' /\ HoldInv'
  BY SeriesKept, SentKept, PauseKept, HoldKept DEF IInv
<1>3. QED
  BY <1>1, <1>2 DEF IInv, FilterPart

\* The invariant holds throughout.
THEOREM Inductive == Spec => []IInv
BY InitIInv, NextIInv, PTL DEF Spec

\* Every variable keeps its type.
THEOREM TypeCorrect == Spec => []TypeOK
<1>1. IInv => TypeOK
  BY DEF IInv
<1>2. QED
  BY Inductive, <1>1, PTL

\* A level that lasts is accepted, whatever the clock does meanwhile
\* (simple_button.cpp 44-70).
THEOREM PressNotLostHolds == Spec => []PressNotLost
<1>1. IInv => PressNotLost
  <2> SUFFICES ASSUME IInv PROVE PressNotLost
    OBVIOUS
  <2>1. late \in Nat /\ late <= MaxLate /\ lineFor \in Nat
    BY DelayTypes DEF IInv, TypeOK
  <2>2. QED
    BY <2>1, DelayTypes, AgeTypes DEF IInv, FilterInv, LineInv, PressNotLost
<1>2. QED
  BY Inductive, <1>1, PTL

\* After a pause no press is left and no hold remembered
\* (button.cpp 126-132, 206-210).
THEOREM PauseSettlesHolds == Spec => []PauseSettles
<1>1. IInv => PauseSettles
  BY ClickTypes, DelayTypes DEF IInv, PauseInv, PauseSettles, Pause
<1>2. QED
  BY Inductive, <1>1, PTL

\* A press that lasts has sent its hold (button.cpp 111-122).
THEOREM HoldNotLostHolds == Spec => []HoldNotLost
<1>1. IInv => HoldNotLost
  BY ClickTypes, DelayTypes DEF IInv, HoldInv, HoldNotLost
<1>2. QED
  BY Inductive, <1>1, PTL

\* A change is accepted only after polls have found nothing else
\* (simple_button.cpp 48-67).
THEOREM NoiseRejectedHolds == Spec => NoiseRejected
<1> DEFINE Quiet ==
        AcceptPress \/ AcceptRelease =>
            /\ sinceAccept > DebounceDelay
            /\ sinceAccept < TimeSpan =>
                   line' = line /\ lineFor > NoiseFilterDelay
<1>1. IInv => Quiet
  <2> SUFFICES ASSUME IInv, NEW reading \in Level, Accept(reading)
               PROVE  /\ sinceAccept > DebounceDelay
                      /\ sinceAccept < TimeSpan =>
                             line' = line /\ lineFor > NoiseFilterDelay
    BY DEF AcceptPress, AcceptRelease, Level
  <2>1. /\ Debounced > DebounceDelay /\ reading # prevState
        /\ reading = newStatusCandidate /\ Filtered > NoiseFilterDelay
        /\ line' = reading
    BY DEF Accept, Poll, Confirmed, Differs, Reads, Debounced, Filtered
  <2>2. /\ sinceAccept \in Nat /\ sinceAccept <= TimeSpan /\ lineFor \in Nat
        /\ sinceAccept < TimeSpan => Debounced = sinceAccept
    BY DelayTypes DEF IInv, TypeOK, AgeInv, Debounced
  <2>3. QED
    BY <2>1, <2>2, DelayTypes, AgeTypes DEF IInv, CandidateInv
<1>2. IInv => [Quiet]_vars
  BY <1>1
<1>3. QED
  BY Inductive, <1>2, PTL DEF NoiseRejected

\* A series is reported with its presses, after a pause (button.cpp 97-106,
\* 118-121, 130-210).
THEOREM ClicksCountedHolds == Spec => ClicksCounted
<1> DEFINE Right ==
        ReportClicks /\ ReportsClicks =>
            /\ clickCounter = IF presses <= mode.max THEN presses
                                                     ELSE mode.max + 1
            /\ rested
<1>1. IInv => Right
  BY ClickTypes DEF IInv, SeriesInv, Counted, ReportsClicks, SeriesOver
<1>2. IInv => [Right]_vars
  BY <1>1
<1>3. QED
  BY Inductive, <1>2, PTL DEF ClicksCounted

\* A hold is sent once for a press, and not early (button.cpp 111-117).
THEOREM HeldOnceHolds == Spec => HeldOnce
<1> DEFINE Once == SendHold => ~heldSent /\ sinceAccept > mode.hold
<1>1. IInv => Once
  BY ClickTypes, DeltaTypes DEF IInv, SentInv, SendHold, HoldDue
<1>2. IInv => [Once]_vars
  BY <1>1
<1>3. QED
  BY Inductive, <1>2, PTL DEF HeldOnce
=============================================================================
