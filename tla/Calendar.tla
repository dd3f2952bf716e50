------------------------------ MODULE Calendar ------------------------------
(***************************************************************************)
(* Calendar, Duration, DateTime, TimeZone, Timestamp and Stopwatch         *)
(* (foundation/date), for dates of our era and a zone without summer time. *)
(* C's division and remainder cut towards zero.  Spans and time points     *)
(* count milliseconds; the nanoseconds of the code behave alike.           *)
(***************************************************************************)
EXTENDS Integers, FiniteSets, FiniteSetsExt

Abs(a) == IF a < 0 THEN -a ELSE a
CDiv(a, b) == IF a >= 0 THEN a \div b ELSE -((-a) \div b)
CMod(a, b) == a - b * CDiv(a, b)

IsLeapYear(year) == (year % 4 = 0 /\ year % 100 # 0) \/ year % 400 = 0

DaysInMonth(year, month) ==
    IF month = 2 THEN (IF IsLeapYear(year) THEN 29 ELSE 28)
    ELSE IF month \in {4, 6, 9, 11} THEN 30 ELSE 31

DaysBeforeMonth == <<0, 31, 59, 90, 120, 151, 181, 212, 243, 273, 304, 334>>
DayOfYear(year, month, day) ==
    DaysBeforeMonth[month] + day + (IF month > 2 /\ IsLeapYear(year) THEN 1 ELSE 0)

\* Zeller's congruence; January and February belong to the year before.
DayOfWeek(year, month, day) ==
    LET m == IF month < 3 THEN month + 12 ELSE month
        y == IF month < 3 THEN year - 1 ELSE year
        k == y % 100
        j == y \div 100
        h == CMod(day + (13 * (m + 1)) \div 5 + k + k \div 4 + j \div 4 - 2 * j, 7)
    IN (h + 6) % 7

ToJulianDay(year, month, day) ==
    LET a == (14 - month) \div 12
        y == year + 4800 - a
        m == month + 12 * a - 3
    IN day + (153 * m + 2) \div 5 + 365 * y + y \div 4 - y \div 100 + y \div 400 - 32045

FromJulianDay(jd) ==
    LET a == jd + 32044
        b == (4 * a + 3) \div 146097
        c == a - (146097 * b) \div 4
        d == (4 * c + 3) \div 1461
        e == c - (1461 * d) \div 4
        m == (5 * e + 2) \div 153
    IN [year |-> 100 * b + d - 4800 + m \div 10,
        month |-> m + 3 - 12 * (m \div 10),
        day |-> e - (153 * m + 2) \div 5 + 1]

AddDays(d, days) == FromJulianDay(ToJulianDay(d.year, d.month, d.day) + days)

\* A day the new month does not have becomes its last.
AddMonths(d, months) ==
    LET n == d.month - 1 + months
        y == d.year + n \div 12
        m == (n % 12) + 1
    IN [year |-> y, month |-> m, day |-> Min({d.day, DaysInMonth(y, m)})]

WeeksInMonth(year, month) ==
    (DayOfWeek(year, month, 1) + DaysInMonth(year, month) + 6) \div 7

\* Sunday is day 0 here and not day 7.
RECURSIVE WeekOfYear(_, _, _)
WeekOfYear(year, month, day) ==
    LET woy == CDiv(10 + DayOfYear(year, month, day) - DayOfWeek(year, month, day), 7)
    IN IF woy = 0 THEN WeekOfYear(year - 1, 12, 31)
       ELSE IF woy = 53 /\ DayOfWeek(year + 1, 1, 1) <= 4 THEN 1
       ELSE woy

IsWeekend(d) == DayOfWeek(d.year, d.month, d.day) \in {0, 6}
RECURSIVE NextWeekday(_)
NextWeekday(d) == LET n == AddDays(d, 1) IN IF IsWeekend(n) THEN NextWeekday(n) ELSE n

\* DateTime::fromComponents: mktime turns a day the month does not have into
\* one of the next month.
FromComponents(year, month, day) == FromJulianDay(ToJulianDay(year, month, 1) + day - 1)

\* DateTime::addMonths brings the month into its range year by year.
RECURSIVE InRange(_, _)
InRange(year, month) == IF month > 12 THEN InRange(year + 1, month - 12)
                        ELSE IF month < 1 THEN InRange(year - 1, month + 12)
                        ELSE <<year, month>>
DateTimeAddMonths(d, months) ==
    LET new == InRange(d.year, d.month + months) IN FromComponents(new[1], new[2], d.day)
DateTimeAddYears(d, years) == FromComponents(d.year + years, d.month, d.day)

EndOfMonth(d) ==
    LET days == IF d.month = 2 /\ IsLeapYear(d.year) THEN 29
                ELSE <<31, 28, 31, 30, 31, 30, 31, 31, 30, 31, 30, 31>>[d.month]
    IN FromComponents(d.year, d.month, days)

\* The fields that Duration prints; toString and toHHMMSS put the sign before them.
Days(secs) == Abs(secs) \div 86400
Hours(secs) == (Abs(secs) % 86400) \div 3600
Minutes(secs) == (Abs(secs) % 3600) \div 60
Seconds(secs) == Abs(secs) % 60
Sign(span) == IF span < 0 THEN -1 ELSE 1

\* The factories and the conversions of Duration; duration_cast cuts.
Unit == [milliseconds |-> 1, seconds |-> 1000, minutes |-> 60000, hours |-> 3600000]
SpanOf(n, unit) == n * Unit[unit]
In(span, unit) == CDiv(span, Unit[unit])
InDays(span) == CDiv(In(span, "hours"), 24)
InWeeks(span) == CDiv(InDays(span), 7)
Times(span, factor) == span * factor
Over(span, divisor) == CDiv(span, divisor)

\* What a reader of the three texts gets, in seconds; toISO8601 has no sign.
Fields(secs) == 86400 * Days(secs) + 3600 * Hours(secs) + 60 * Minutes(secs) + Seconds(secs)
ToString(span) == Sign(span) * Fields(In(span, "seconds"))
ToHHMMSS(span) ==
    LET secs == In(span, "seconds")
    IN Sign(span) * (3600 * (Abs(secs) \div 3600) + 60 * Minutes(secs) + Seconds(secs))
ToISO8601(span) == Fields(In(span, "seconds"))

\* Timestamp: from..., to..., and diff..., the difference first and then the cut.
TimePointOf(n, unit) == SpanOf(n, unit)
SinceEpoch(t, unit) == In(t, unit)
Diff(t, u, unit) == In(t - u, unit)
Age(t, now, unit) == Diff(now, t, unit)

\* Of DateTime: timestamp, millisecond, and the add functions but addYears and addMonths.
Timestamp(t) == In(t, "seconds")
Millisecond(t) == CMod(In(t, "milliseconds"), 1000)
Add(t, n, unit) == t + SpanOf(n, unit)

\* Stopwatch.  A second start moves the beginning, a second stop does nothing.
Stopped == [running |-> FALSE, startTime |-> 0, endTime |-> 0]
Started(w, now) == [w EXCEPT !.running = TRUE, !.startTime = now]
Restarted(w, now) == Started(Stopped, now)
Stop(w, now) == IF w.running THEN [w EXCEPT !.running = FALSE, !.endTime = now] ELSE w
Elapsed(w, now) == Diff(IF w.running THEN now ELSE w.endTime, w.startTime, "milliseconds")
ElapsedIn(w, now, unit) == CDiv(Elapsed(w, now), Unit[unit])

\* TimeZone: offsets in seconds; the sign, hours and minutes format prints.
FromOffsetHours(hours, minutes) ==
    3600 * hours + 60 * (IF hours >= 0 THEN minutes ELSE -minutes)
Format(offset) == [sign |-> IF offset >= 0 THEN 1 ELSE -1,
                   hours |-> Abs(offset) \div 3600, minutes |-> (Abs(offset) % 3600) \div 60]
FromOffset(offset) == [offsetSeconds |-> offset, name |-> Format(offset)]
FromName(name) ==
    CASE name \in {"UTC", "GMT", "Europe/London"} -> FromOffsetHours(0, 0)
      [] name \in {"Asia/Shanghai", "CST"} -> FromOffsetHours(8, 0)
      [] name \in {"America/New_York", "EST"} -> FromOffsetHours(-5, 0)
      [] name \in {"America/Los_Angeles", "PST"} -> FromOffsetHours(-8, 0)
      [] name \in {"Europe/Paris", "CET"} -> FromOffsetHours(1, 0)
      [] name \in {"Asia/Tokyo", "JST"} -> FromOffsetHours(9, 0)
ToUTC(offset, time) == time - offset
FromUTC(offset, time) == time + offset

\* Reference: the days since 1 January 1899, whose Julian day is known.
DaysSince1899(d) == 365 * (d.year - 1899)
    + Cardinality({y \in 1899..d.year - 1 : IsLeapYear(y)})
    + MapThenSumSet(LAMBDA m : DaysInMonth(d.year, m), 1..d.month - 1) + d.day - 1

\* Reference, ISO 8601: a week begins on Monday and belongs to the year of its Thursday.
IsoWeek(d) ==
    LET jd == ToJulianDay(d.year, d.month, d.day)
        thursday == FromJulianDay(jd - (jd % 7) + 3)
    IN (DayOfYear(thursday.year, thursday.month, thursday.day) + 6) \div 7

(***************************************************************************)
(* A conversion undoes the factory of its unit and otherwise loses less    *)
(* than one unit, towards zero, before 1970 too; days and weeks by way of  *)
(* the hours are those of the whole span; seconds and milliseconds make up *)
(* the time; what was added is what the difference shows; a stopwatch      *)
(* shows the time between its last start and the first stop after it; and  *)
(* the printed offset of a zone is the one it was made from (Duration,     *)
(* DateTime, Timestamp, Stopwatch and TimeZone).                           *)
(***************************************************************************)
SpansAgree(span, n, k) ==
    /\ \A u \in DOMAIN Unit :
         /\ In(SpanOf(n, u), u) = n
         /\ Abs(span - SpanOf(In(span, u), u)) < Unit[u] /\ Abs(SpanOf(In(span, u), u)) <= Abs(span)
         /\ Diff(Add(span, n, u), span, u) = n /\ Age(TimePointOf(n, u), TimePointOf(n + k, u), u) = k
         /\ Abs(SinceEpoch(Times(span, n), u)) <= Abs(Times(SinceEpoch(span, u), n)) + Abs(n)
    /\ Over(Times(span, n), n) = span /\ Abs(span - Times(Over(span, n), n)) < Abs(n)
    /\ InDays(100 * span) = CDiv(100 * span, 86400000)
    /\ InWeeks(100 * span) = CDiv(100 * span, 604800000)
    /\ 1000 * Timestamp(span) + Millisecond(span) = span
    /\ LET w == Stop(Restarted(Stop(Started(Stopped, span), span + k), span + 2 * k), span + 5 * k)
       IN /\ Elapsed(w, span + 9 * k) = 3 * k /\ Stop(w, span + 9 * k) = w
          /\ \A u \in DOMAIN Unit : ElapsedIn(w, span + 9 * k, u) = (3 * k) \div Unit[u]
    /\ \A minutes \in {0, 30, 45} :
         LET offset == FromOffsetHours(n, minutes)
             text == FromOffset(offset).name
         IN /\ text.sign * (3600 * text.hours + 60 * text.minutes) = offset
            /\ text.minutes = minutes /\ text.hours = Abs(n)
            /\ FromUTC(offset, ToUTC(offset, span)) = span
    \* Morning comes from the east.
    /\ \A east, west \in {"JST", "CST", "CET", "GMT", "EST", "PST"} :
         FromName(east) > FromName(west) => ToUTC(FromName(east), span) < ToUTC(FromName(west), span)

(***************************************************************************)
(* The Julian day is the count of days, and back; weekdays go round with   *)
(* it and 1 January 2000 was a Saturday; adding a day, a month or looking  *)
(* for the next weekday gives a date that exists; a month has as many      *)
(* weeks as it touches; DateTime goes on into the following month where    *)
(* Calendar stops at the end of the month, and they agree elsewhere; and   *)
(* the texts of a duration give its seconds with their sign, but that of   *)
(* toISO8601 without (every operation of Calendar; DateTime::addMonths and *)
(* endOfMonth, Duration::toString, toHHMMSS and toISO8601).  The weeks of  *)
(* the year are those of ISO 8601, which Calendar.h promises, from Monday  *)
(* to Saturday; a Sunday is numbered with the week after it, against ISO,  *)
(* and nothing is claimed of it.                                           *)
(***************************************************************************)
DatesAgree(d, months) ==
    LET jd == ToJulianDay(d.year, d.month, d.day)
        next == AddDays(d, 1)
        moved == AddMonths(d, months)
        beyond == AddDays(moved, d.day - moved.day)
        valid(e) == e.month \in 1..12 /\ e.day \in 1..DaysInMonth(e.year, e.month)
    IN /\ jd = DaysSince1899(d) + 2414656
       /\ FromJulianDay(jd) = d
       /\ DayOfWeek(d.year, d.month, d.day) = (jd + 1) % 7
       /\ DayOfYear(d.year, d.month, d.day) = jd - ToJulianDay(d.year, 1, 1) + 1
       /\ valid(next) /\ valid(moved) /\ ~IsWeekend(NextWeekday(d))
       /\ 12 * moved.year + moved.month = 12 * d.year + d.month + months
       /\ DateTimeAddMonths(d, months) = beyond
       /\ months % 12 = 0 => DateTimeAddYears(d, CDiv(months, 12)) = beyond
       /\ AddDays(EndOfMonth(d), 1) = [AddMonths(d, 1) EXCEPT !.day = 1]
       /\ WeeksInMonth(d.year, d.month) =
            Cardinality({(jd - d.day + n + 1) \div 7 : n \in 1..DaysInMonth(d.year, d.month)})
       /\ DayOfWeek(d.year, d.month, d.day) # 0 => WeekOfYear(d.year, d.month, d.day) = IsoWeek(d)
       /\ LET span == 791900 * d.day * months
              secs == In(span, "seconds")
          IN ToString(span) = secs /\ ToHHMMSS(span) = secs /\ ToISO8601(span) = Abs(secs)
       /\ SpansAgree(7919 * d.day * months, months, d.day)
=============================================================================
