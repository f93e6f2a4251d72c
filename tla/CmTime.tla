------------------------------- MODULE CmTime -------------------------------
(***************************************************************************)
(* Times as text: CmDateTime and CmTimestamp (Services/Basic/CmTime.cpp).  *)
(* A time is a number of seconds since 1970; milliseconds are kept beside  *)
(* it.  The calendar is the C library's.                                   *)
(***************************************************************************)
EXTENDS CmString

CONSTANT Zone          \* seconds that local time is ahead of UTC

Daily == 86400

-----------------------------------------------------------------------------
(* The calendar: gmtime() and mktime() *)

IsLeap(year) == year % 4 = 0 /\ (year % 100 # 0 \/ year % 400 = 0)

DaysBefore(year) ==
    365 * (year - 1970) + (year - 1969) \div 4 - (year - 1901) \div 100 + (year - 1601) \div 400

MonthDays(year) == <<31, IF IsLeap(year) THEN 29 ELSE 28, 31, 30, 31, 30, 31, 31, 30, 31, 30, 31>>

DaysBeforeMonth(year, month) == FoldAlong(LAMBDA d, n : d + n, 0, SubSeq(MonthDays(year), 1, month - 1))

\* The seconds at a date and time of day.
Seconds(t) ==
    Daily * (DaysBefore(t.year) + DaysBeforeMonth(t.year, t.month) + t.day - 1)
        + 3600 * t.hour + 60 * t.minute + t.second

\* The date and time of day at a number of seconds.
GmTime(seconds) ==
    LET days  == seconds \div Daily
        year  == CHOOSE y \in 1970 .. 2038 : DaysBefore(y) <= days /\ days < DaysBefore(y + 1)
        rest  == days - DaysBefore(year)
        month == CHOOSE m \in 1 .. 12 : /\ DaysBeforeMonth(year, m) <= rest
                                        /\ m < 12 => rest < DaysBeforeMonth(year, m + 1)
    IN  [year |-> year, month |-> month, day |-> 1 + rest - DaysBeforeMonth(year, month),
         hour |-> (seconds % Daily) \div 3600, minute |-> (seconds % 3600) \div 60, second |-> seconds % 60]

\* mktime() of a local time without daylight saving
MkTime(t) == Seconds(t) - Zone

-----------------------------------------------------------------------------
(* Writing and reading *)

TwoDigits(v) == LET text == TextOf[10, v] IN IF Len(text) = 1 THEN <<"0">> \o text ELSE text

DateText(t) == TextOf[10, t.year] \o <<"-">> \o TwoDigits(t.month) \o <<"-">> \o TwoDigits(t.day)

ClockText(t, mark) == TwoDigits(t.hour) \o <<mark>> \o TwoDigits(t.minute) \o <<mark>> \o TwoDigits(t.second)

\* getTimeUTC(): dayTime < 0 keeps the time of the day.
GetTimeUTC(time, dayTime, isFilename) ==
    LET t == GmTime(IF dayTime >= 0 THEN time + dayTime - (time % Daily) ELSE time)
    IN  IF isFilename THEN DateText(t) \o <<"_">> \o ClockText(t, "-") ELSE DateText(t) \o <<" ">> \o ClockText(t, ":")

\* getTimestamp()
GetTimestamp(time, milliseconds, offset, withTime, withMilliSec) ==
    LET t  == GmTime(time + offset)
        ms == TextOf[10, milliseconds]
    IN  CASE withTime /\ ~withMilliSec -> DateText(t) \o <<"_">> \o ClockText(t, "-")
          [] withTime /\ withMilliSec ->
               ClockText(t, "-") \o <<".">> \o [i \in 1 .. 3 - Len(ms) |-> "0"] \o ms
          [] OTHER -> DateText(t)

Delimiters == {" ", "-", "_", ":", ".", "c", "d", "e", "h", "i", "l", "m", "n", "o", "s", "t", "u"}

\* The numbers between the delimiters, as many as are there.
NumbersOf(text) ==
    FoldAlong(LAMBDA r, k : LET p == NextDelimited(text, Delimiters, r.position)
                           IN  IF p.found THEN [position |-> p.position, n |-> Append(r.n, NumAsUint(p.text).num)] ELSE r,
             [position |-> 0, n |-> <<>>], [k \in 1 .. 7 |-> k]).n

DateOf(n) == [year |-> n[1], month |-> n[2], day |-> n[3], hour |-> n[4], minute |-> n[5], second |-> n[6]]

\* Fault: local time is taken for UTC.
GetNanoSecLocal(text) ==
    LET n == NumbersOf(text)
    IN  IF Len(n) < 6 THEN [found |-> FALSE]
        ELSE [found |-> TRUE, seconds |-> MkTime(DateOf(n)), milliseconds |-> IF Len(n) = 7 THEN n[7] ELSE 0]

\* getNanoSec(): six numbers, and the milliseconds if they are there.  The local
\* time of the build is taken for an hour ahead of UTC.
GetNanoSec(text) ==
    LET n == NumbersOf(text)
    IN  IF Len(n) < 6 THEN [found |-> FALSE]
        ELSE [found |-> TRUE, seconds |-> MkTime(DateOf(n)) + 3600, milliseconds |-> IF Len(n) = 7 THEN n[7] ELSE 0]

-----------------------------------------------------------------------------
(* CmTimestamp *)

\* getYear() .. getDayOfYear(): a zero timestamp stands for the current time.
Component(time, now) ==
    LET seconds == IF time = 0 THEN now ELSE time
        t == GmTime(seconds)
    IN  [date |-> t, dayOfWeek |-> 1 + ((4 + seconds \div Daily) % 7),
         dayOfYear |-> DaysBeforeMonth(t.year, t.month) + t.day]

Within(value, low, high) == IF value \in low .. high THEN value ELSE low

\* getDST(): the switch is known to the day for 2020 only.
GetDST(t) ==
    CASE t.year # 2020 -> t.month \in 4 .. 10
      [] t.year = 2020 /\ t.month = 3  -> t.day > 26 \/ (t.day = 26 /\ t.hour >= 2)
      [] t.year = 2020 /\ t.month = 10 -> t.day < 25 \/ (t.day = 25 /\ t.hour < 2)
      [] OTHER -> t.month \in 4 .. 9

\* getDateTimestamp(): components out of range are replaced; all zero is the last midnight.
GetDateTimestamp(t, now) ==
    LET date == [year |-> IF t.year < 1900 THEN 1900 ELSE t.year, month |-> Within(t.month, 1, 12),
                 day |-> Within(t.day, 1, 31), hour |-> Within(t.hour, 0, 23),
                 minute |-> Within(t.minute, 0, 59), second |-> Within(t.second, 0, 60)]
    IN  IF \A c \in DOMAIN t : t[c] = 0 THEN now - (now % Daily)
        ELSE MkTime(date) - IF GetDST(date) THEN 3600 ELSE 0
=============================================================================
