---------------------------- MODULE SaveSchedule ----------------------------
(***************************************************************************)
(* When the elements' state goes to flash: Supla::Storage::scheduleSave    *)
(* and saveStateAllowed.  Both work on lastWriteTimestamp in unsigned      *)
(* arithmetic modulo TimeSpan: a save is allowed once more than Period has *)
(* passed since it, and scheduleSave moves it, into the past as a rule, so *)
(* that the next save comes earlier than the period asks for.              *)
(***************************************************************************)
EXTENDS Integers

CONSTANTS
    HalfSpan,   \* millis() wraps at 2 * HalfSpan (2^31 in the code)
    Period,     \* saveStatePeriod (600 s, set by addCSE7766)
    DelayMax,   \* relayStorageSaveDelay (5 s)
    DelayMin    \* second argument of ScheduleSave in relay.cpp (2 s)

ASSUME SaveScheduleAssumption ==
    /\ HalfSpan \in Nat /\ Period \in Nat
    /\ DelayMin \in Nat /\ DelayMax \in Nat
    /\ 0 < DelayMin /\ DelayMin <= DelayMax
    /\ DelayMax <= Period /\ Period < HalfSpan

TimeSpan == 2 * HalfSpan
Time     == 0 .. TimeSpan - 1

Since(t, u) == IF t >= u THEN t - u ELSE t - u + TimeSpan         \* t - u

\* Mutant of After: the sum is not reduced to 32 bits.
After_NoWrap(t, d) == t + d
After(t, d) == IF t + d < TimeSpan THEN t + d ELSE t + d - TimeSpan \* t + d
Earlier(t, u) == Since(t, u) >= HalfSpan        \* static_cast<int32_t>(t - u) < 0

\* Mutants of ScheduledWrite: without the upper bound; without the lower one.
ScheduledWrite_NoMax(last, now) ==
    LET next     == After(last, Period)
        earliest == After(now, DelayMin)
        bounded  == IF Earlier(next, earliest) THEN earliest ELSE next
    IN  Since(bounded, Period)

ScheduledWrite_NoMin(last, now) ==
    LET next   == After(last, Period)
        latest == After(now, DelayMax)
        target == IF Earlier(next, latest) THEN next ELSE latest
    IN  Since(target, Period)

\* lastWriteTimestamp after scheduleSave(DelayMax, DelayMin) at time now
ScheduledWrite(last, now) ==
    LET next     == After(last, Period)
        latest   == After(now, DelayMax)
        earliest == After(now, DelayMin)
        target   == IF Earlier(next, latest) THEN next ELSE latest
        bounded  == IF Earlier(target, earliest) THEN earliest ELSE target
    IN  Since(bounded, Period)

\* saveStateAllowed(now)
SaveAllowed(last, now) == Since(now, last) > Period
=============================================================================
