----------------------------- MODULE QuietHours -----------------------------
(***************************************************************************)
(* The end of a user's quiet hours (src/utils/quietHours.ts).              *)
(*                                                                         *)
(* Times are minutes, days have DayLength of them and months MonthLength   *)
(* days.  A zone is its offset before and after a change of its clocks.    *)
(* What Intl.DateTimeFormat prints of a time is its day of the month and   *)
(* its hour and minute, where the first hour of the day is printed as 24   *)
(* (hour12: false in en-US).                                               *)
(***************************************************************************)
EXTENDS Integers

CONSTANTS
    DayLength,
    HourLength,
    MonthLength, \* in days
    Offsets,     \* of the zones
    ClockChange, \* the time at which a zone may change its clocks
    MaxInstant   \* bounds the clock

ASSUME QuietAssumption ==
    /\ {DayLength, HourLength, MonthLength} \subseteq Nat \ {0}
    /\ Offsets \subseteq Int /\ ClockChange \in Nat /\ MaxInstant \in Nat

VARIABLES
    instant, \* the time, UTC
    zone,    \* the user's zone
    window   \* the user's quiet hours, local

quietVars == <<instant, zone, window>>

QuietInit ==
    /\ instant = DayLength * MonthLength
    /\ \E o, p \in Offsets, m \in {0, DayLength} :
           p - o \in {-1, 0, 1} /\ zone = [before |-> o, after |-> p, midnight |-> m]
    /\ window \in [startTime : 0..DayLength-1, endTime : 0..DayLength-1]

Minute ==
    /\ instant < MaxInstant
    /\ instant' = instant + 1
    /\ UNCHANGED <<zone, window>>

QuietNext == Minute
QuietSpec == QuietInit /\ [][QuietNext]_quietVars

-----------------------------------------------------------------------------
Local(t) == t + (IF t < ClockChange THEN zone.before ELSE zone.after)
LocalMinute(t) == Local(t) % DayLength
LocalDay(t) == Local(t) \div DayLength
DayOfMonth(day) == day % MonthLength

\* getLocalMinutes, with the hour that is printed.
ShownMinutes(t) ==
    IF LocalMinute(t) < HourLength THEN LocalMinute(t) + zone.midnight ELSE LocalMinute(t)

isInQuietHours(t) ==
    IF window.startTime <= window.endTime
    THEN ShownMinutes(t) >= window.startTime /\ ShownMinutes(t) < window.endTime
    ELSE ShownMinutes(t) >= window.startTime \/ ShownMinutes(t) < window.endTime

\* localToUTC: three corrections of a guess by the difference of day of the month,
\* hour and minute.
Correct(guess, day, minutes) ==
    guess + minutes + (DayOfMonth(day) - DayOfMonth(LocalDay(guess))) * DayLength
          - ShownMinutes(guess)
localToUTC(day, minutes) ==
    LET guess == day * DayLength + minutes
    IN  Correct(Correct(Correct(guess, day, minutes), day, minutes), day, minutes)

\* Mutant of getQuietHoursEndUTC: an end that has passed is not moved to tomorrow.
EndOfToday(t) == localToUTC(LocalDay(t), window.endTime)

getQuietHoursEndUTC(t) ==
    LET today == localToUTC(LocalDay(t), window.endTime)
    IN  IF today <= t THEN localToUTC(LocalDay(t + DayLength), window.endTime) ELSE today

QuietTypeOK ==
    /\ instant \in 0..MaxInstant
    /\ zone \in [before : Offsets, after : Offsets, midnight : {0, DayLength}]
    /\ window \in [startTime : 0..DayLength-1, endTime : 0..DayLength-1]

-----------------------------------------------------------------------------
Quiet(t) ==
    IF window.startTime <= window.endTime
    THEN LocalMinute(t) \in window.startTime..(window.endTime - 1)
    ELSE LocalMinute(t) \notin window.endTime..(window.startTime - 1)
NextEnd ==
    CHOOSE t \in (instant + 1)..(instant + 2 * DayLength) :
        /\ LocalMinute(t) = window.endTime
        /\ \A u \in (instant + 1)..(t - 1) : LocalMinute(u) # window.endTime

\* What makes the guesses go wrong: the first hour printed as 24, where it is the
\* hour asked for; a guess in another month than the day asked for, of which only the
\* days of the month are compared; and a change of the clocks within a day.
PrintsMidnightAs24 == zone.midnight = DayLength
LeavesMonth(day) ==
    LET first == day * DayLength + window.endTime
        second == Correct(first, day, window.endTime)
    IN  \E g \in {first, second, Correct(second, day, window.endTime)} :
            LocalDay(g) \div MonthLength # day \div MonthLength
ClocksChange ==
    zone.before # zone.after /\ ClockChange - instant \in -DayLength..DayLength

\* docs/notifications.md, "Deferred reminders are delivered at the next allowed time
\* (when quiet hours end)": it is quiet when the user's clock says so, and then the
\* computed end is the next time the user's clock shows the end of the window, except
\* for what makes the guesses go wrong.
QuietEndsNext ==
    /\ \/ isInQuietHours(instant) <=> Quiet(instant)
       \/ PrintsMidnightAs24 /\ LocalMinute(instant) < HourLength
    /\ isInQuietHours(instant) /\ Quiet(instant) =>
           \/ getQuietHoursEndUTC(instant) = NextEnd
           \/ PrintsMidnightAs24 /\ window.endTime < HourLength
           \/ LeavesMonth(LocalDay(instant)) \/ LeavesMonth(LocalDay(instant + DayLength))
           \/ ClocksChange
=============================================================================
