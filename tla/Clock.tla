------------------------------- MODULE Clock --------------------------------
(***************************************************************************)
(* The clock of the board (Core/Src/stdcompat.cpp): a tick since the last  *)
(* reset, and the time at which it was 0.  The GPS task sets the time of   *)
(* day with each line, keeping the day; the main task sets both with the   *)
(* answer to QueryPositionAndTime when it initialises the modem.           *)
(*                                                                         *)
(* Between a reading of the clock and the setting that rests on it another *)
(* task may run.                                                           *)
(***************************************************************************)
EXTENDS NMEA

CONSTANTS
    TicksPerSecond,  \* 1000
    TickWrap,        \* 2 ^ 32, where the tick begins again at 0
    Starts,          \* the days on which the model may begin: their dates
                     \* [y, m, d] and days since 1970-01-01
    Delay,           \* bound: ticks from a time being taken to its use, a
                     \* second at most
    MaxNow,          \* bound: ticks the model runs for
    MaxEvents        \* bound: lines, answers, faults and resets

ASSUME ClockAssumption ==
    /\ {TicksPerSecond, TickWrap} \subseteq Nat \ {0}
    /\ {Delay, MaxNow, MaxEvents} \subseteq Nat
    /\ Delay <= TicksPerSecond /\ Day >= 3

VARIABLES
    start,    \* the day on which the model has begun
    now,      \* ticks since the beginning of that day: the true time
    tick,     \* uwTick
    base,     \* timestamp_base
    gps,      \* parse_line, the clock read and not set yet: the day it has
              \* found, the time of day of the line; its age
    gsm,      \* the main task, the answer in hand: its time; its age
    events,   \* lines, answers, faults and resets so far
    \* history: the clock has been set from a receiver with a fix, or from
    \* the modem, and the tick has not begun again; its day comes of an
    \* answer of the modem; and of how many lines read around midnight since
    good, right, slips

time == <<start, now, tick, base, gps, gsm>>
history == <<good, right, slips>>
clock == <<time, history>>

Nobody == [age |-> 0]
Busy(task) == task # Nobody

ClockInit ==
    /\ start \in Starts /\ now \in 0..(TicksPerSecond - 1)
    /\ tick = 0 /\ base = 0
    /\ gps = Nobody /\ gsm = Nobody
    /\ good = FALSE /\ right = FALSE /\ slips = 0

\* RAM and the timer lose everything at a reset.
ClockReset ==
    /\ tick' = 0 /\ base' = 0
    /\ gps' = Nobody /\ gsm' = Nobody
    /\ good' = FALSE /\ right' = FALSE /\ slips' = 0
    /\ UNCHANGED <<start, now>>

Happens == events < MaxEvents /\ events' = events + 1

-----------------------------------------------------------------------------
(* The true time and calendar.                                             *)

TrueTime(ticks) == start.days * Day + ticks \div TicksPerSecond
TimeOfDay(ticks) == TrueTime(ticks) % Day

IsLeap(y) == (y % 4 = 0 /\ y % 100 # 0) \/ y % 400 = 0
DaysIn(y, m) ==
    CASE m = 2 -> (IF IsLeap(y) THEN 29 ELSE 28)
      [] m \in {4, 6, 9, 11} -> 30
      [] OTHER -> 31
NextDay(date) ==
    IF date.d < DaysIn(date.y, date.m) THEN [date EXCEPT !.d = @ + 1]
    ELSE IF date.m < 12 THEN [date EXCEPT !.m = @ + 1, !.d = 1]
    ELSE [y |-> date.y + 1, m |-> 1, d |-> 1]
IsDate(date) ==
    /\ date \in [y : Nat \ {0}, m : 1..12, d : 1..31]
    /\ date.d <= DaysIn(date.y, date.m)
\* The days from 1970-01-01 to a date.
DaysBefore == <<0, 31, 59, 90, 120, 151, 181, 212, 243, 273, 304, 334>>
Leaps(y) == y \div 4 - y \div 100 + y \div 400
DaysTo(date) ==
    LET leapDay == IF date.m > 2 /\ IsLeap(date.y) THEN 1 ELSE 0
    IN  (date.y - 1) * 365 + Leaps(date.y - 1) + DaysBefore[date.m] + leapDay
            + date.d - 719163
ASSUME StartsAssumption ==
    \A day \in Starts : /\ IsDate(day.date) /\ day.days \in Nat
                        /\ DaysTo(day.date) = day.days
DateOf(ticks) ==
    LET days == TrueTime(ticks) \div Day - start.days
        dates[n \in 0..days] ==
            IF n = 0 THEN start.date ELSE NextDay(dates[n - 1])
    IN  dates[days]

-----------------------------------------------------------------------------
(* stdcompat.cpp.                                                          *)

\* millis() / 1000: the tick is a number of 32 bits.
Uptime(t) == t \div TicksPerSecond

SetTime(timestamp) == base' = timestamp - Uptime(tick)

GetTime == base + Uptime(tick)

\* Time goes on, unless a task would then hold a time for too long.
Tick ==
    /\ now < MaxNow
    /\ \A task \in {gps, gsm} : task.age < Delay
    /\ now' = now + 1
    /\ tick' = (tick + 1) % TickWrap
    /\ gps' = IF Busy(gps) THEN [gps EXCEPT !.age = @ + 1] ELSE gps
    /\ gsm' = IF Busy(gsm) THEN [gsm EXCEPT !.age = @ + 1] ELSE gsm
    /\ good' = (good /\ tick' # 0) /\ right' = (right /\ tick' # 0)
    /\ UNCHANGED <<start, base, slips, events>>

-----------------------------------------------------------------------------
(* The GPS task.                                                           *)

\* The remainder of C, which has the sign of the dividend.
Rem(a, b) == IF a < 0 THEN -((-a) % b) ELSE a % b

\* The clock may be on the other side of midnight than the line.
NearMidnight(ticks) == TimeOfDay(ticks) \notin 2..(Day - 3)

\* Mutant: the nearest midnight.
FoundDayNearest ==
    LET noon == GetTime + Day \div 2
    IN  noon - Rem(noon, Day)

\* current_time - current_time % 86400.
FoundDay == GetTime - Rem(GetTime, Day)

\* A line is read up to where the clock is; `res` is what parse_time makes
\* of it, or the error before.
ReadLine(res, age, fix) ==
    /\ ~Busy(gps)
    /\ Happens
    /\ gps' = IF IsError(res) THEN Nobody
              ELSE [age |-> age, day |-> FoundDay, tod |-> res.time,
                    fix |-> fix, knew |-> right /\ fix,
                    slips |-> IF NearMidnight(now) THEN slips + 1 ELSE slips]
    /\ UNCHANGED <<start, now, tick, base, gsm, history>>

\* A line with a fix, as it was sent or damaged on the way.
LineWithFix(reading, age) ==
    /\ age <= now /\ reading.of = TimeOfDay(now - age)
    /\ ReadLine(reading.res, age, TRUE)

LineWithoutFix(res) == ReadLine(res, 0, FALSE)

\* The clock is set.  The fields that are looked at afterwards, and the
\* fix indicator that is not, make no difference to it.
SetFromLine ==
    /\ Busy(gps)
    /\ SetTime(gps.day + gps.tod)
    /\ good' = gps.fix /\ right' = gps.knew /\ slips' = gps.slips
    /\ gps' = Nobody
    /\ UNCHANGED <<start, now, tick, gsm, events>>

-----------------------------------------------------------------------------
(* The main task.                                                          *)

\* The days of the years before: eras of 400, the same number of days each.
DaysOfYears(y) ==
    LET yoe == y % 400
    IN  (y \div 400) * 146097 + yoe * 365 + yoe \div 4 - yoe \div 100

\* ymd_to_days, for the years after 0.
YmdToDays(date) ==
    LET y == IF date.m <= 2 THEN date.y - 1 ELSE date.y
        m == IF date.m > 2 THEN date.m - 3 ELSE date.m + 9
    IN  DaysOfYears(y) + (153 * m + 2) \div 5 + date.d - 1 - 719468

\* The answer of the modem, which says the date and the time of day.
Answer(age) ==
    /\ age <= now
    /\ ~Busy(gsm)
    /\ Happens
    /\ gsm' = [age |-> age,
               time |-> YmdToDays(DateOf(now - age)) * Day
                            + TimeOfDay(now - age)]
    /\ UNCHANGED <<start, now, tick, base, gps, history>>

SetFromAnswer ==
    /\ Busy(gsm)
    /\ SetTime(gsm.time)
    /\ good' = TRUE /\ right' = TRUE /\ slips' = 0
    /\ gsm' = Nobody
    /\ UNCHANGED <<start, now, tick, gps, events>>

-----------------------------------------------------------------------------
(* Properties.                                                             *)

\* The clock is right in the time of day after it was set from a line with
\* a fix or from an answer, whatever else was set between the reading of the
\* clock and its setting (NMEA.cpp:177), up to the tick's return to 0
\* (stdcompat.cpp:21).  When its day comes of an answer, it is away by no
\* more days than lines were read around midnight since: no other line moves
\* the day (NMEA.cpp:178).
ClockIsRight ==
    LET error == GetTime - TrueTime(now)
    IN  \E near \in -2..1, days \in -slips..slips :
           /\ right => error = near + Day * days
           /\ good => (error - near) % Day = 0

\* A line with a fix that is read, whole or with a character lost or
\* altered, tells the time of day at which it was sent: what passes is a
\* digit of the checksum in the other case (NMEA.cpp:29).
LinesTellTheTime ==
    Busy(gps) /\ gps.fix => gps.tod = TimeOfDay(now - gps.age)
=============================================================================
