-------------------------------- MODULE Times --------------------------------
(***************************************************************************)
(* The dates and times of TimeZone against a reference that knows nothing  *)
(* of their formulas: a calendar walked day by day, both ways from January *)
(* 1st 1970, by the lengths of its months and the rule of leap years; and  *)
(* the times in UTC themselves, which a zone turns into local time.        *)
(***************************************************************************)
EXTENDS TimeZone, Walk

CONSTANTS
    FirstYear, LastYear,    \* bounds: the calendar walked
    MaxDays,                \* bound: days from the epoch whose seconds are counted
    ClockTimes,             \* hours, minutes and seconds
    Offsets, ZoneFiles,     \* of the zones without and with transitions
    ZoneTimes               \* the times in UTC that are turned into local time

\* A zone file whose summer time, of an hour, and standard time take turns, and last for
\* more than an hour each.
SummerTurns(zoneFile) ==
    /\ zoneFile.localtimes \in Seq([gmtOffset : Int, isDst : BOOLEAN])
    /\ Len(zoneFile.localtimes) = 2
    /\ ~zoneFile.localtimes[1].isDst /\ zoneFile.localtimes[2].isDst
    /\ zoneFile.localtimes[2].gmtOffset = zoneFile.localtimes[1].gmtOffset + 3600
    /\ zoneFile.trans \in Seq(Int)
    /\ zoneFile.idx = [i \in DOMAIN zoneFile.trans |-> IF i % 2 = 1 THEN 2 ELSE 1]
    /\ \A i, j \in DOMAIN zoneFile.trans : i < j => zoneFile.trans[j] - zoneFile.trans[i] > 3600

ASSUME TimesAssumption ==
    /\ FirstYear \in Nat \ {0} /\ LastYear \in Nat /\ MaxDays \in Nat
    /\ ClockTimes \subseteq [hour : 0 .. 23, min : 0 .. 59, sec : 0 .. 59]
    /\ Offsets \subseteq Int /\ ZoneTimes \subseteq Int
    /\ \A zoneFile \in ZoneFiles : SummerTurns(zoneFile)

-----------------------------------------------------------------------------
(* The reference calendar *)

IsLeap(y) == y % 4 = 0 /\ (y % 100 = 0 => y % 400 = 0)

DaysIn(y, m) == CASE m = 2 -> IF IsLeap(y) THEN 29 ELSE 28
                  [] m \in {4, 6, 9, 11} -> 30
                  [] OTHER -> 31

DaysInYear(y) == IF IsLeap(y) THEN 366 ELSE 365

\* The Julian day 2440588 is a Thursday, January 1st 1970.
Epoch    == 2440588
EpochDay == [year |-> 1970, month |-> 1, day |-> 1, yday |-> 0, wday |-> 4]

DayAfter(d) ==
    LET wday == (d.wday + 1) % 7
    IN  IF d.day < DaysIn(d.year, d.month)
        THEN [d EXCEPT !.day = @ + 1, !.yday = @ + 1, !.wday = wday]
        ELSE IF d.month < 12
        THEN [d EXCEPT !.day = 1, !.month = @ + 1, !.yday = @ + 1, !.wday = wday]
        ELSE [year |-> d.year + 1, month |-> 1, day |-> 1, yday |-> 0, wday |-> wday]

DayBefore(d) ==
    LET wday == (d.wday + 6) % 7
        year == d.year - 1
    IN  IF d.day > 1
        THEN [d EXCEPT !.day = @ - 1, !.yday = @ - 1, !.wday = wday]
        ELSE IF d.month > 1
        THEN [d EXCEPT !.day = DaysIn(d.year, d.month - 1), !.month = @ - 1, !.yday = @ - 1,
                       !.wday = wday]
        ELSE [year |-> year, month |-> 12, day |-> 31, yday |-> DaysInYear(year) - 1,
              wday |-> wday]

Zones == {Fixed(east) : east \in Offsets} \cup {Data(zoneFile) : zoneFile \in ZoneFiles}

-----------------------------------------------------------------------------
TimesInit ==
    \/ walk = "calendar" /\ input = Epoch /\ original = EpochDay
    \/ walk = "zone" /\ input \in ZoneTimes /\ original \in Zones

NextDay ==
    /\ walk = "calendar" /\ original.year <= LastYear
    /\ input' = input + 1 /\ original' = DayAfter(original)
    /\ UNCHANGED walk

PreviousDay ==
    /\ walk = "calendar" /\ original.year >= FirstYear
    /\ input' = input - 1 /\ original' = DayBefore(original)
    /\ UNCHANGED walk

TimesNext == NextDay \/ PreviousDay

TimesSpec == TimesInit /\ [][TimesNext]_walkVars

-----------------------------------------------------------------------------
(* Properties *)

\* A time of a day has the fields of the day and of the second in it, and they give it back.
TimeAgrees(date, n, at) ==
    LET tm == [year |-> date.year, month |-> date.month, day |-> date.day, hour |-> at.hour,
               min |-> at.min, sec |-> at.sec, wday |-> date.wday, yday |-> date.yday]
        t  == (n - Epoch) * 86400 + at.hour * 3600 + at.min * 60 + at.sec
    IN  toUtcTime(t) = tm /\ fromUtcTime(tm) = t

\* Date.cpp:23-43, Date.h:79, TimeZone.cpp:268-304: the days of the Gregorian calendar,
\* with its leap years, are numbered one after the other, their numbers give them back,
\* and the days of the week follow each other.  A time, of before 1970 too, has the fields
\* of its day and of the second in that day, and the fields give the time back.
CalendarAgrees ==
    walk = "calendar" =>
        /\ getJulianDayNumber(original.year, original.month, original.day) = input
        /\ getYearMonthDay(input) =
             [year |-> original.year, month |-> original.month, day |-> original.day]
        /\ weekDay(input) = original.wday
        /\ input - Epoch \in -MaxDays .. MaxDays =>
             \A at \in ClockTimes : TimeAgrees(original, input, at)

\* TimeZone.cpp:187-266: in a zone with summer time of an hour, local time with its mark
\* of summer time is one to one with UTC, in the hour that comes twice and at the
\* transitions too.
LocalTimeRoundTrips ==
    walk = "zone" => fromLocalTime(original, toLocalTime(original, input)) = input
=============================================================================
