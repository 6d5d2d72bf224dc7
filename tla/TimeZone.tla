------------------------------ MODULE TimeZone ------------------------------
(***************************************************************************)
(* mengSen/base/Date and mengSen/base/TimeZone: days by their Julian       *)
(* number, times in UTC by their fields, and times in a zone by the        *)
(* transitions of a zone file.  All are pure functions.                    *)
(*                                                                         *)
(* A struct tm in UTC is a record of its fields, with the year counted     *)
(* from 0 and the month from 1.  A struct tm in local time is the seconds  *)
(* that timegm makes of its fields (gmtime_r makes them back), and its     *)
(* tm_isdst.  A definition named <x>_<variant> is x with a plausible slip. *)
(***************************************************************************)
EXTENDS TruncatedDivision, Sequences

-----------------------------------------------------------------------------
(* Date. *)

\* The variant: every fourth year is a leap year, but for the centuries.
getJulianDayNumber_no_400(year, month, day) ==
    LET a == (14 - month) \div 12
        y == year + 4800 - a
        m == month + 12 * a - 3
    IN  day + (153 * m + 2) \div 5 + y * 365 + y \div 4 - (y \div 100) - 32029

getJulianDayNumber(year, month, day) ==
    LET a == (14 - month) \div 12
        y == year + 4800 - a
        m == month + 12 * a - 3
    IN  day + (153 * m + 2) \div 5 + y * 365 + y \div 4 - (y \div 100) + y \div 400 - 32045

getYearMonthDay(julianDayNumber) ==
    LET a == julianDayNumber + 32044
        b == (4 * a + 3) \div 146097
        c == a - ((b * 146097) \div 4)
        d == (4 * c + 3) \div 1461
        e == c - ((1461 * d) \div 4)
        m == (5 * e + 2) \div 153
    IN  [day   |-> e - ((153 * m + 2) \div 5) + 1,
         month |-> m + 3 - (12 * (m \div 10)),
         year  |-> b * 100 + d - 4800 + m \div 10]

kJulianDayOf1970_01_01 == getJulianDayNumber(1970, 1, 1)

\* 0 is Sunday.
weekDay(julianDayNumber) == (julianDayNumber + 1) % 7

-----------------------------------------------------------------------------
(* Times in UTC. *)

kSecondsPerDay == 24 * 60 * 60

\* The variant: as if there were no times before 1970.
dayAndSecond_unsigned(t) ==
    [day |-> Quotient(t, kSecondsPerDay), second |-> Remainder(t, kSecondsPerDay)]

\* The day of t, counted from the epoch, and the second in it.
dayAndSecond(t) ==
    LET seconds == Remainder(t, kSecondsPerDay)
        days    == Quotient(t, kSecondsPerDay)
    IN  [day    |-> IF seconds < 0 THEN days - 1 ELSE days,
         second |-> IF seconds < 0 THEN seconds + kSecondsPerDay ELSE seconds]

fillHMS(seconds) ==
    [sec |-> seconds % 60, min |-> (seconds \div 60) % 60, hour |-> (seconds \div 60) \div 60]

toUtcTime(t) ==
    LET at   == dayAndSecond(t)
        hms  == fillHMS(at.second)
        date == at.day + kJulianDayOf1970_01_01
        ymd  == getYearMonthDay(date)
    IN  [year |-> ymd.year, month |-> ymd.month, day |-> ymd.day,
         hour |-> hms.hour, min |-> hms.min, sec |-> hms.sec,
         wday |-> weekDay(date),
         yday |-> date - getJulianDayNumber(ymd.year, 1, 1)]

fromUtcTime(tm) ==
    (getJulianDayNumber(tm.year, tm.month, tm.day) - kJulianDayOf1970_01_01) * kSecondsPerDay
        + (tm.hour * 3600 + tm.min * 60 + tm.sec)

-----------------------------------------------------------------------------
(* Times in a zone.                                                        *)

\* What readTimeZoneFile makes of the times of the transitions and the local times they
\* lead to: a transition is known by its time in UTC and by the local time it begins.
Data(file) ==
    [localtimes  |-> file.localtimes,
     transitions |-> [i \in DOMAIN file.trans |->
        [gmttime      |-> file.trans[i],
         localtime    |-> file.trans[i] + file.localtimes[file.idx[i]].gmtOffset,
         localtimeIdx |-> file.idx[i]]]]

\* The constructor of a zone without transitions.
Fixed(eastOfUtc) ==
    [localtimes |-> <<[gmtOffset |-> eastOfUtc, isDst |-> FALSE]>>, transitions |-> <<>>]

\* Comp: the time by which transitions are compared.
Key(transition, compareGmt) == IF compareGmt THEN transition.gmttime ELSE transition.localtime

\* The first transition that is not earlier, or one past the last.
LowerBound(ts, at, compareGmt) ==
    CHOOSE i \in 1 .. Len(ts) + 1 :
        /\ \A j \in 1 .. i - 1 : Key(ts[j], compareGmt) < at
        /\ i <= Len(ts) => at <= Key(ts[i], compareGmt)

findLocaltime(data, at, compareGmt) ==
    LET ts == data.transitions
        i  == LowerBound(ts, at, compareGmt)
    IN  IF ts = <<>> \/ at < Key(ts[1], compareGmt)
        THEN data.localtimes[1]
        ELSE data.localtimes[
                IF i <= Len(ts) /\ Key(ts[i], compareGmt) = at
                THEN ts[i].localtimeIdx
                ELSE ts[i - 1].localtimeIdx]

toLocalTime(data, t) ==
    LET local == findLocaltime(data, t, TRUE)
    IN  [seconds |-> t + local.gmtOffset, isDst |-> local.isDst]

\* The variant: the hour that comes twice is always the second.
fromLocalTime_second(data, tm) ==
    tm.seconds - findLocaltime(data, tm.seconds, FALSE).gmtOffset

\* The hour that comes twice when summer time ends is the first in summer time:
\* that is where going back leads to the same tm_hour and tm_min, without summer time.
fromLocalTime(data, tm) ==
    LET local == findLocaltime(data, tm.seconds, FALSE)
        try   == toLocalTime(data, tm.seconds - local.gmtOffset)
        same  == (try.seconds \div 60) % (24 * 60) = (tm.seconds \div 60) % (24 * 60)
    IN  IF tm.isDst /\ ~try.isDst /\ same
        THEN tm.seconds - 3600 - local.gmtOffset
        ELSE tm.seconds - local.gmtOffset
=============================================================================
