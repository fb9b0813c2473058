---------------------------- MODULE GPS_Time_proofs ----------------------------
(***************************************************************************)
(* The operations of GPS_Time: they return times whatever they are given,  *)
(* and operator++(int) is the next second of the calendar.                 *)
(***************************************************************************)
EXTENDS GPS_Time, TLAPS

\* The cells of the sentences and of strtok are cells.
LEMMA CellFacts ==
    /\ Comma \in Cell /\ LF \in Cell /\ Nul \in Cell /\ Zero \in Cell
    /\ CheckSum \in Cell /\ Void \in Cell /\ Data \subseteq Cell
    /\ LF # Comma /\ Comma # Nul /\ Zero # Nul /\ LF # Nul
BY CellsDistinct, StatusCells DEF Cell

Texts12 == [0 .. 11 -> Seq(Cell)]

LEMMA CharType == ASSUME NEW t \in Seq(Cell) PROVE FirstChar(t) \in Cell
BY CellFacts DEF FirstChar, Empty

LEMMA NumberType == ASSUME NEW t \in Seq(Cell) PROVE NumberOf(t) \in Number
BY CellFacts DEF NumberOf, Number

\* The parser returns a time.
LEMMA RmcType ==
    ASSUME NEW t \in Time, NEW token \in Texts12
    PROVE  NmeaRmc(t, token) \in Time
<1>1. \A n \in 0 .. 11 : /\ token[n] \in Seq(Cell)
                         /\ FirstChar(token[n]) \in Cell
                         /\ NumberOf(token[n]) \in Number
  BY CharType, NumberType DEF Texts12
<1> DEFINE c == ClockOf(FirstChar(token[1]))
           d == DateOf(FirstChar(token[9]))
<1>2. c \in Clock /\ d \in Date
  BY <1>1, ConversionTypes
<1>3. /\ c.hour \in Int /\ c.minute \in Int /\ c.second \in Int
      /\ d.day \in Int /\ d.month \in Int /\ d.year \in Int
  BY <1>2 DEF Clock, Date
<1>4. /\ FirstChar(token[2]) \in Cell /\ FirstChar(token[11]) \in Cell
      /\ NumberOf(token[7]) \in Number /\ NumberOf(token[8]) \in Number
      /\ NumberOf(token[10]) \in Number
  BY <1>1
<1>5. t.tenths \in 0 .. Radix - 1 /\ t.hundreths \in 0 .. Radix - 1
  BY Zenon DEF Time
<1> HIDE DEF c, d
<1> DEFINE new ==
            [hour |-> c.hour, minute |-> c.minute, second |-> c.second,
             day |-> d.day, month |-> d.month, year |-> d.year,
             tenths |-> t.tenths, hundreths |-> t.hundreths,
             status |-> FirstChar(token[2]), velocity |-> NumberOf(token[7]),
             track |-> NumberOf(token[8]), magvar |-> NumberOf(token[10]),
             magvar_dir |-> FirstChar(token[11])]
<1>6. NmeaRmc(t, token) = t \/ NmeaRmc(t, token) = new
  BY Zenon DEF NmeaRmc, c, d
<1>7. new \in Time
  BY <1>3, <1>4, <1>5, Zenon DEF Time
<1> HIDE DEF new
<1> QED
  BY <1>6, <1>7

\* The clock stays a clock, whatever number of days the array yields.
LEMMA FractionalResetType ==
    ASSUME NEW t \in Time PROVE FractionalReset(t) \in Time
<1>1. 0 \in 0 .. Radix - 1
  BY RadixType
<1> QED
  BY <1>1, Zenon DEF FractionalReset, Time

LEMMA PlusHundredthType == ASSUME NEW t \in Time PROVE PlusHundredth(t) \in Time
<1>1. 0 \in 0 .. Radix - 1
  BY RadixType
<1>2. t.tenths \in 0 .. Radix - 1 /\ t.hundreths \in 0 .. Radix - 1
  BY Zenon DEF Time
<1>3. CASE t.hundreths + 1 # Radix
  <2>1. t.hundreths + 1 \in 0 .. Radix - 1
    BY <1>2, <1>3, RadixType
  <2> QED
    BY <1>3, <2>1, Zenon DEF PlusHundredth, Time
<1>4. CASE t.hundreths + 1 = Radix /\ t.tenths + 1 # Radix
  <2>1. t.tenths + 1 \in 0 .. Radix - 1
    BY <1>2, <1>4, RadixType
  <2> QED
    BY <1>1, <1>4, <2>1, Zenon DEF PlusHundredth, Time
<1>5. CASE t.hundreths + 1 = Radix /\ t.tenths + 1 = Radix
  BY <1>5, FractionalResetType, Zenon DEF PlusHundredth
<1> QED
  BY <1>3, <1>4, <1>5, Zenon

LEMMA NextDayType ==
    ASSUME NEW t \in Time, NEW days PROVE NextDay(t, days) \in Time
<1>1. t.day \in Int /\ t.month \in Int /\ t.year \in Int
  BY Zenon DEF Time
<1>2. t.day + 1 \in Int /\ t.month + 1 \in Int /\ t.year + 1 \in Int /\ 1 \in Int
  BY <1>1
<1>3. [t EXCEPT !.day = t.day + 1] \in Time
  BY <1>2, Zenon DEF Time
<1>4. \A y \in Int : [t EXCEPT !.day = 1, !.month = t.month + 1, !.year = y] \in Time
  BY <1>2, Zenon DEF Time
<1>5. (IF t.month + 1 = 13 THEN t.year + 1 ELSE t.year) \in Int
  BY <1>1, <1>2, Zenon
<1> QED
  BY <1>3, <1>4, <1>5, Zenon DEF NextDay

LEMMA PlusSecondType ==
    ASSUME NEW t \in Time, NEW days PROVE PlusSecond(t, days) \in Time
<1> DEFINE f == FractionalReset(t)
           m == [f EXCEPT !.second = 0]
           h == [m EXCEPT !.minute = 0]
<1>1. f \in Time
  BY FractionalResetType
<1> HIDE DEF f
<1>2. f.second + 1 \in Int /\ 0 \in Int
  <2>1. f.second \in Int
    BY <1>1, Zenon DEF Time
  <2> QED
    BY <2>1
<1>3. m \in Time /\ [f EXCEPT !.second = f.second + 1] \in Time
  BY <1>1, <1>2, Zenon DEF Time
<1> HIDE DEF m
<1>4. m.minute + 1 \in Int
  <2>1. m.minute \in Int
    BY <1>3, Zenon DEF Time
  <2> QED
    BY <2>1
<1>5. h \in Time /\ [m EXCEPT !.minute = m.minute + 1] \in Time
  BY <1>2, <1>3, <1>4, Zenon DEF Time
<1> HIDE DEF h
<1>6. h.hour + 1 \in Int
  <2>1. h.hour \in Int
    BY <1>5, Zenon DEF Time
  <2> QED
    BY <2>1
<1>7. /\ [h EXCEPT !.hour = 0] \in Time
      /\ [h EXCEPT !.hour = h.hour + 1] \in Time
  BY <1>2, <1>5, <1>6, Zenon DEF Time
<1>8. NextDay([h EXCEPT !.hour = 0], days) \in Time
  BY <1>7, NextDayType, Zenon
<1> QED
  BY <1>3, <1>5, <1>7, <1>8, Zenon DEF PlusSecond, f, m, h

-----------------------------------------------------------------------------
(* The calendar *)

\* Days of the year before a month, in a year of 365 days.
DaysBefore == <<0, 31, 59, 90, 120, 151, 181, 212, 243, 273, 304, 334>>

LEMMA MonthStarts ==
    \A m \in 1 .. 12 :
        (367 * m - 362) \div 12 - (IF m <= 2 THEN 0 ELSE 2)
            = DaysBefore[m]
BY DEF DaysBefore

\* The fraction is no part of what to_C_tm() returns.
LEMMA FractionApart ==
    ASSUME NEW t \in Time
    PROVE  /\ CTime(FractionalReset(t)) = CTime(t) /\ FractionalReset(t).status = t.status
           /\ CTime(PlusHundredth(t)) = CTime(t) /\ PlusHundredth(t).status = t.status
<1>1. CTime(FractionalReset(t)) = CTime(t) /\ FractionalReset(t).status = t.status
  BY Zenon DEF Time, FractionalReset, CTime
<1>2. CASE t.hundreths + 1 # Radix
  <2> DEFINE u == [t EXCEPT !.hundreths = t.hundreths + 1]
  <2>1. CTime(u) = CTime(t) /\ u.status = t.status
    BY Zenon DEF Time, CTime
  <2>2. PlusHundredth(t) = u
    BY <1>2 DEF PlusHundredth
  <2> HIDE DEF u
  <2> QED
    BY <1>1, <2>1, <2>2
<1>3. CASE t.hundreths + 1 = Radix /\ t.tenths + 1 # Radix
  <2> DEFINE u == [t EXCEPT !.hundreths = 0, !.tenths = t.tenths + 1]
  <2>1. CTime(u) = CTime(t) /\ u.status = t.status
    BY Zenon DEF Time, CTime
  <2>2. PlusHundredth(t) = u
    BY <1>3 DEF PlusHundredth
  <2> HIDE DEF u
  <2> QED
    BY <1>1, <2>1, <2>2
<1>4. CASE t.hundreths + 1 = Radix /\ t.tenths + 1 = Radix
  BY <1>1, <1>4, Zenon DEF PlusHundredth
<1> QED
  BY <1>2, <1>3, <1>4, Zenon

\* The date and the time of day.
Shows(u, y, mo, d, h, mi, s) ==
    /\ u.year = y /\ u.month = mo /\ u.day = d
    /\ u.hour = h /\ u.minute = mi /\ u.second = s

\* One field of the clock, or the date, is set.
LEMMA SecondSet ==
    ASSUME NEW t \in Time, NEW v \in Int
    PROVE  LET u == [t EXCEPT !.second = v]
           IN  u \in Time /\ u.status = t.status
                 /\ Shows(u, t.year, t.month, t.day, t.hour, t.minute, v)
<1> DEFINE u == [t EXCEPT !.second = v]
<1>1. u \in Time
  BY Zenon DEF Time
<1>2. u.status = t.status
  BY DEF Time
<1>3. u.year = t.year /\ u.month = t.month /\ u.day = t.day
  BY DEF Time
<1>4. Shows(u, t.year, t.month, t.day, t.hour, t.minute, v)
  BY <1>3 DEF Time, Shows
<1> QED
  BY <1>1, <1>2, <1>4

LEMMA MinuteSet ==
    ASSUME NEW t \in Time, NEW v \in Int
    PROVE  LET u == [t EXCEPT !.minute = v]
           IN  u \in Time /\ u.status = t.status
                 /\ Shows(u, t.year, t.month, t.day, t.hour, v, t.second)
<1> DEFINE u == [t EXCEPT !.minute = v]
<1>1. u \in Time
  BY Zenon DEF Time
<1>2. u.status = t.status
  BY DEF Time
<1>3. u.year = t.year /\ u.month = t.month /\ u.day = t.day
  BY DEF Time
<1>4. Shows(u, t.year, t.month, t.day, t.hour, v, t.second)
  BY <1>3 DEF Time, Shows
<1> QED
  BY <1>1, <1>2, <1>4

LEMMA HourSet ==
    ASSUME NEW t \in Time, NEW v \in Int
    PROVE  LET u == [t EXCEPT !.hour = v]
           IN  u \in Time /\ u.status = t.status
                 /\ Shows(u, t.year, t.month, t.day, v, t.minute, t.second)
<1> DEFINE u == [t EXCEPT !.hour = v]
<1>1. u \in Time
  BY Zenon DEF Time
<1>2. u.status = t.status
  BY DEF Time
<1>3. u.year = t.year /\ u.month = t.month /\ u.day = t.day
  BY DEF Time
<1>4. Shows(u, t.year, t.month, t.day, v, t.minute, t.second)
  BY <1>3 DEF Time, Shows
<1> QED
  BY <1>1, <1>2, <1>4

LEMMA DaySet ==
    ASSUME NEW t \in Time, NEW d \in Int
    PROVE  LET u == [t EXCEPT !.day = d]
           IN  u.status = t.status /\ Shows(u, t.year, t.month, d, t.hour, t.minute, t.second)
<1> DEFINE u == [t EXCEPT !.day = d]
<1>1. u.status = t.status
  BY DEF Time
<1>2. u.year = t.year /\ u.hour = t.hour /\ u.minute = t.minute /\ u.second = t.second
  BY DEF Time
<1>3. Shows(u, t.year, t.month, d, t.hour, t.minute, t.second)
  BY <1>2 DEF Time, Shows
<1> QED
  BY <1>1, <1>3

LEMMA MonthSet ==
    ASSUME NEW t \in Time, NEW d \in Int, NEW y \in Int
    PROVE  LET u == [t EXCEPT !.day = 1, !.month = d, !.year = y]
           IN  u.status = t.status /\ Shows(u, y, d, 1, t.hour, t.minute, t.second)
<1> DEFINE u == [t EXCEPT !.day = 1, !.month = d, !.year = y]
<1>1. u.status = t.status
  BY DEF Time
<1>2. u.hour = t.hour /\ u.minute = t.minute /\ u.second = t.second
  BY DEF Time
<1>3. Shows(u, y, d, 1, t.hour, t.minute, t.second)
  BY <1>2 DEF Time, Shows
<1> QED
  BY <1>1, <1>3

\* The operators of the calendar look at the date and the time of day alone.
LEMMA SameCTime ==
    ASSUME NEW t, NEW u, CTime(t) = CTime(u)
    PROVE  /\ InCalendar(t) <=> InCalendar(u)
           /\ Ordinal(t) = Ordinal(u) /\ t.year = u.year
<1>1. /\ t.year = u.year /\ t.month = u.month /\ t.day = u.day
      /\ t.hour = u.hour /\ t.minute = u.minute /\ t.second = u.second
  BY DEF CTime
<1>2. InCalendar(t) <=> InCalendar(u)
  BY <1>1, Zenon DEF InCalendar, MonthLength
<1>3. DayOfYear(t) = DayOfYear(u)
  BY <1>1 DEF DayOfYear
<1>4. Ordinal(t) = Ordinal(u)
  BY <1>1, <1>3 DEF Ordinal
<1> QED
  BY <1>1, <1>2, <1>4

\* What an increment of the second does to the clock and the date; at the end
\* of a year the month becomes 13.
LEMMA PlusSecondIs ==
    ASSUME NEW t \in Time, NEW days
    PROVE  LET u == PlusSecond(t, days)
               length == IF t.month = 2 /\ LeapYear(t.year) THEN days + 1 ELSE days
               midnight == t.second + 1 = 60 /\ t.minute + 1 = 60 /\ t.hour + 1 = 24
               year == IF t.month + 1 = 13 THEN t.year + 1 ELSE t.year
           IN  /\ u.status = t.status
               /\ t.second + 1 # 60 =>
                    Shows(u, t.year, t.month, t.day, t.hour, t.minute, t.second + 1)
               /\ t.second + 1 = 60 /\ t.minute + 1 # 60 =>
                    Shows(u, t.year, t.month, t.day, t.hour, t.minute + 1, 0)
               /\ t.second + 1 = 60 /\ t.minute + 1 = 60 /\ t.hour + 1 # 24 =>
                    Shows(u, t.year, t.month, t.day, t.hour + 1, 0, 0)
               /\ midnight /\ t.day + 1 <= length =>
                    Shows(u, t.year, t.month, t.day + 1, 0, 0, 0)
               /\ midnight /\ ~(t.day + 1 <= length) =>
                    Shows(u, year, t.month + 1, 1, 0, 0, 0)
<1> DEFINE u == PlusSecond(t, days)
           f == FractionalReset(t)
           m == [f EXCEPT !.second = 0]
           h == [m EXCEPT !.minute = 0]
           n == [h EXCEPT !.hour = 0]
<1>1. f \in Time /\ f.status = t.status
      /\ Shows(f, t.year, t.month, t.day, t.hour, t.minute, t.second)
  BY FractionalResetType, FractionApart DEF CTime, Shows
<1>2. \A r \in Time : /\ r.year \in Int /\ r.month \in Int /\ r.day \in Int
                      /\ r.hour \in Int /\ r.minute \in Int /\ r.second \in Int
  BY Zenon DEF Time
<1>3. u = IF t.second + 1 # 60 THEN [f EXCEPT !.second = f.second + 1]
          ELSE IF t.minute + 1 # 60 THEN [m EXCEPT !.minute = m.minute + 1]
          ELSE IF t.hour + 1 # 24 THEN [h EXCEPT !.hour = h.hour + 1]
          ELSE NextDay(n, days)
  BY DEF PlusSecond
<1> HIDE DEF u, f
<1>4. m \in Time /\ m.status = t.status
      /\ Shows(m, t.year, t.month, t.day, t.hour, t.minute, 0)
  BY <1>1, SecondSet DEF Shows
<1> HIDE DEF m
<1>5. h \in Time /\ h.status = t.status
      /\ Shows(h, t.year, t.month, t.day, t.hour, 0, 0)
  BY <1>4, MinuteSet DEF Shows
<1> HIDE DEF h
<1>6. n \in Time /\ n.status = t.status
      /\ Shows(n, t.year, t.month, t.day, 0, 0, 0)
  BY <1>5, HourSet DEF Shows
<1> HIDE DEF n
<1>7. CASE t.second + 1 # 60
  <2>1. t.second + 1 \in Int
    BY <1>2
  <2>2. u = [f EXCEPT !.second = t.second + 1]
    BY <1>1, <1>3, <1>7 DEF Shows
  <2>3. u.status = t.status /\ Shows(u, t.year, t.month, t.day, t.hour, t.minute, t.second + 1)
    BY <1>1, <2>1, <2>2, SecondSet DEF Shows
  <2> QED
    BY <1>7, <2>3 DEF u
<1>8. CASE t.second + 1 = 60 /\ t.minute + 1 # 60
  <2>1. t.minute + 1 \in Int
    BY <1>2
  <2>2. u = [m EXCEPT !.minute = t.minute + 1]
    BY <1>3, <1>4, <1>8 DEF Shows
  <2>3. u.status = t.status /\ Shows(u, t.year, t.month, t.day, t.hour, t.minute + 1, 0)
    BY <1>4, <2>1, <2>2, MinuteSet DEF Shows
  <2> QED
    BY <1>8, <2>3 DEF u
<1>9. CASE t.second + 1 = 60 /\ t.minute + 1 = 60 /\ t.hour + 1 # 24
  <2>1. t.hour + 1 \in Int
    BY <1>2
  <2>2. u = [h EXCEPT !.hour = t.hour + 1]
    BY <1>3, <1>5, <1>9 DEF Shows
  <2>3. u.status = t.status /\ Shows(u, t.year, t.month, t.day, t.hour + 1, 0, 0)
    BY <1>5, <2>1, <2>2, HourSet DEF Shows
  <2> QED
    BY <1>9, <2>3 DEF u
<1>10. CASE t.second + 1 = 60 /\ t.minute + 1 = 60 /\ t.hour + 1 = 24
  <2> DEFINE length == IF t.month = 2 /\ LeapYear(t.year) THEN days + 1 ELSE days
  <2>1. u = NextDay(n, days)
    BY <1>3, <1>10
  <2>2. t.day + 1 \in Int /\ t.month + 1 \in Int
    BY <1>2
  <2>3. n.day = t.day /\ n.month = t.month /\ n.year = t.year
    BY <1>6 DEF Shows
  <2>4. CASE t.day + 1 <= length
    <3>1. u = [n EXCEPT !.day = t.day + 1]
      BY <2>1, <2>3, <2>4 DEF NextDay
    <3>2. u.status = t.status /\ Shows(u, t.year, t.month, t.day + 1, 0, 0, 0)
      BY <1>6, <2>2, <3>1, DaySet DEF Shows
    <3> QED
      BY <1>10, <2>4, <3>2 DEF u
  <2>5. CASE ~(t.day + 1 <= length)
    <3> DEFINE year == IF t.month + 1 = 13 THEN t.year + 1 ELSE t.year
    <3>1. u = [n EXCEPT !.day = 1, !.month = t.month + 1, !.year = year]
      BY <2>1, <2>3, <2>5 DEF NextDay
    <3>2. year \in Int
      BY <1>2
    <3> HIDE DEF year
    <3>3. u.status = t.status /\ Shows(u, year, t.month + 1, 1, 0, 0, 0)
      BY <1>6, <2>2, <3>1, <3>2, MonthSet DEF Shows
    <3> QED
      BY <1>10, <2>5, <3>3 DEF u, year
  <2> QED
    BY <1>10, <2>4, <2>5
<1> QED
  BY <1>7, <1>8, <1>9, <1>10

LEMMA DayOfYearIs ==
    ASSUME NEW t, t.month \in 1 .. 12, t.day \in Int
    PROVE  DayOfYear(t) = DaysBefore[t.month]
                            + (IF t.month > 2 /\ LeapYear(t.year) THEN 1 ELSE 0) + t.day
BY MonthStarts DEF DayOfYear

Seconds(b, d, h, m, n) == (((b + d) * 24 + h) * 60 + m) * 60 + n

LEMMA OrdinalIs ==
    ASSUME NEW t, NEW b, b = Before(t.year - 1) - Before(1999)
    PROVE  Ordinal(t) = Seconds(b, DayOfYear(t), t.hour, t.minute, t.second)
BY DEF Ordinal, Seconds

\* A day is followed by the next one of its month or the first of the next one.
LEMMA NextDayOfYear ==
    ASSUME NEW t, NEW u, u.year = t.year, t.month \in 1 .. 12, t.day \in 1 .. MonthLength(t),
           \/ u.month = t.month /\ u.day = t.day + 1 /\ t.day + 1 <= MonthLength(t)
           \/ u.month = t.month + 1 /\ u.day = 1 /\ t.day + 1 > MonthLength(t) /\ t.month < 12
    PROVE  /\ u.month \in 1 .. 12 /\ u.day \in 1 .. MonthLength(u)
           /\ DayOfYear(t) \in Int /\ DayOfYear(u) = DayOfYear(t) + 1
<1> DEFINE leap == LeapYear(t.year)
<1>1. LeapYear(u.year) = leap
  OBVIOUS
<1> HIDE DEF leap
<1>2. /\ MonthLength(t) = IF t.month = 2 /\ leap THEN 29 ELSE Days[t.month]
      /\ MonthLength(u) = IF u.month = 2 /\ leap THEN 29 ELSE Days[u.month]
  BY <1>1 DEF MonthLength, leap
<1>3. t.day \in Int /\ u.day \in Int /\ u.month \in 1 .. 12
  BY <1>2
<1>4. u.day \in 1 .. MonthLength(u)
  BY <1>2, <1>3 DEF Days
<1>5. /\ DayOfYear(t) = DaysBefore[t.month] + (IF t.month > 2 /\ leap THEN 1 ELSE 0) + t.day
      /\ DayOfYear(u) = DaysBefore[u.month] + (IF u.month > 2 /\ leap THEN 1 ELSE 0) + u.day
  BY <1>1, <1>3, DayOfYearIs DEF leap
<1>6. DayOfYear(t) \in Int
  BY <1>3, <1>5 DEF DaysBefore
<1>7. DayOfYear(u) = DayOfYear(t) + 1
  BY <1>2, <1>3, <1>5 DEF DaysBefore, Days
<1> QED
  BY <1>3, <1>4, <1>6, <1>7

LastOfYear(t) ==
    t.month = 12 /\ t.day = 31 /\ t.hour = 23 /\ t.minute = 59 /\ t.second = 59

\* "Increment the time/date by one second" (GPS.cpp:194): the time of every
\* second but the last of a year is followed by that of the next one, also at
\* the end of February; the year, and whether the time is valid, are kept.
THEOREM NextSecond ==
    ASSUME NEW t \in Time, InCalendar(t), ~LastOfYear(t), NEW days \in DaysRead(t)
    PROVE  LET u == PlusSecond(t, days)
           IN  /\ InCalendar(u) /\ Ordinal(u) = Ordinal(t) + 1
               /\ u.year = t.year /\ u.status = t.status
<1> DEFINE u == PlusSecond(t, days)
           before == Before(t.year - 1) - Before(1999)
           day == DayOfYear(t)
           midnight == t.second + 1 = 60 /\ t.minute + 1 = 60 /\ t.hour + 1 = 24
<1>1. /\ t.year \in Int /\ t.month \in 1 .. 12 /\ t.day \in 1 .. MonthLength(t)
      /\ t.hour \in 0 .. 23 /\ t.minute \in 0 .. 59 /\ t.second \in 0 .. 59
  BY DEF InCalendar, Time
<1>2. days = Days[t.month]
  BY <1>1 DEF DaysRead
<1>3. (IF t.month = 2 /\ LeapYear(t.year) THEN days + 1 ELSE days) = MonthLength(t)
  BY <1>1, <1>2 DEF Days, MonthLength
<1>4. MonthLength(t) \in 28 .. 31 /\ (t.month = 12 => MonthLength(t) = 31)
  BY <1>1 DEF Days, MonthLength
<1>5. before \in Int /\ day \in Int
  <2>1. before \in Int
    BY <1>1 DEF Before
  <2>2. day \in Int
    BY <1>1, <1>4, DayOfYearIs DEF DaysBefore
  <2> QED
    BY <2>1, <2>2
<1>6. Ordinal(t) = Seconds(before, day, t.hour, t.minute, t.second)
  BY OrdinalIs
<1>7. u.year = t.year => Ordinal(u) = Seconds(before, DayOfYear(u), u.hour, u.minute, u.second)
  BY OrdinalIs
<1> HIDE DEF u, before, day
<1>8. /\ u.status = t.status
      /\ t.second + 1 # 60 =>
            Shows(u, t.year, t.month, t.day, t.hour, t.minute, t.second + 1)
      /\ t.second + 1 = 60 /\ t.minute + 1 # 60 =>
            Shows(u, t.year, t.month, t.day, t.hour, t.minute + 1, 0)
      /\ t.second + 1 = 60 /\ t.minute + 1 = 60 /\ t.hour + 1 # 24 =>
            Shows(u, t.year, t.month, t.day, t.hour + 1, 0, 0)
      /\ midnight /\ t.day + 1 <= MonthLength(t) =>
            Shows(u, t.year, t.month, t.day + 1, 0, 0, 0)
      /\ midnight /\ ~(t.day + 1 <= MonthLength(t)) /\ t.month + 1 # 13 =>
            Shows(u, t.year, t.month + 1, 1, 0, 0, 0)
  BY <1>1, <1>3, PlusSecondIs DEF u
<1>9. midnight /\ ~(t.day + 1 <= MonthLength(t)) => t.month < 12
  BY <1>1, <1>4 DEF LastOfYear
<1>10. u.status = t.status
  BY <1>8
<1>11. ASSUME u.year = t.year, u.month = t.month, u.day = t.day
       PROVE  u.day \in 1 .. MonthLength(u) /\ DayOfYear(u) = day
  BY <1>1, <1>11 DEF MonthLength, DayOfYear, day
<1>12. t.hour \in Int /\ t.minute \in Int /\ t.second \in Int
  BY <1>1
<1>13. CASE t.second + 1 # 60
  <2>1. /\ u.year = t.year /\ u.month = t.month /\ u.day = t.day
        /\ u.hour = t.hour /\ u.minute = t.minute /\ u.second = t.second + 1
    BY <1>8, <1>13 DEF Shows
  <2>2. InCalendar(u)
    BY <1>1, <1>11, <1>13, <2>1 DEF InCalendar
  <2>3. Ordinal(u) = Ordinal(t) + 1
    <3>1. Ordinal(u) = Seconds(before, day, t.hour, t.minute, t.second + 1)
      BY <1>7, <1>11, <2>1
    <3>2. Seconds(before, day, t.hour, t.minute, t.second + 1)
            = Seconds(before, day, t.hour, t.minute, t.second) + 1
      BY <1>5, <1>13, <1>12 DEF Seconds
    <3> QED
      BY <1>6, <3>1, <3>2
  <2> QED
    BY <1>10, <2>1, <2>2, <2>3 DEF u
<1>14. CASE t.second + 1 = 60 /\ t.minute + 1 # 60
  <2>1. /\ u.year = t.year /\ u.month = t.month /\ u.day = t.day
        /\ u.hour = t.hour /\ u.minute = t.minute + 1 /\ u.second = 0
    BY <1>8, <1>14 DEF Shows
  <2>2. InCalendar(u)
    BY <1>1, <1>11, <1>14, <2>1 DEF InCalendar
  <2>3. Ordinal(u) = Ordinal(t) + 1
    <3>1. Ordinal(u) = Seconds(before, day, t.hour, t.minute + 1, 0)
      BY <1>7, <1>11, <2>1
    <3>2. Seconds(before, day, t.hour, t.minute + 1, 0)
            = Seconds(before, day, t.hour, t.minute, t.second) + 1
      BY <1>5, <1>14, <1>12 DEF Seconds
    <3> QED
      BY <1>6, <3>1, <3>2
  <2> QED
    BY <1>10, <2>1, <2>2, <2>3 DEF u
<1>15. CASE t.second + 1 = 60 /\ t.minute + 1 = 60 /\ t.hour + 1 # 24
  <2>1. /\ u.year = t.year /\ u.month = t.month /\ u.day = t.day
        /\ u.hour = t.hour + 1 /\ u.minute = 0 /\ u.second = 0
    BY <1>8, <1>15 DEF Shows
  <2>2. InCalendar(u)
    BY <1>1, <1>11, <1>15, <2>1 DEF InCalendar
  <2>3. Ordinal(u) = Ordinal(t) + 1
    <3>1. Ordinal(u) = Seconds(before, day, t.hour + 1, 0, 0)
      BY <1>7, <1>11, <2>1
    <3>2. Seconds(before, day, t.hour + 1, 0, 0)
            = Seconds(before, day, t.hour, t.minute, t.second) + 1
      BY <1>5, <1>15, <1>12 DEF Seconds
    <3> QED
      BY <1>6, <3>1, <3>2
  <2> QED
    BY <1>10, <2>1, <2>2, <2>3 DEF u
<1>16. CASE midnight
  <2>1. /\ u.year = t.year /\ u.hour = 0 /\ u.minute = 0 /\ u.second = 0
        /\ \/ u.month = t.month /\ u.day = t.day + 1 /\ t.day + 1 <= MonthLength(t)
           \/ /\ u.month = t.month + 1 /\ u.day = 1
              /\ t.day + 1 > MonthLength(t) /\ t.month < 12
    BY <1>1, <1>4, <1>8, <1>9, <1>16 DEF Shows
  <2>2. u.month \in 1 .. 12 /\ u.day \in 1 .. MonthLength(u) /\ DayOfYear(u) = day + 1
    BY <1>1, <2>1, NextDayOfYear DEF day
  <2>3. InCalendar(u)
    BY <2>1, <2>2 DEF InCalendar
  <2>4. Ordinal(u) = Ordinal(t) + 1
    <3>1. Ordinal(u) = Seconds(before, day + 1, 0, 0, 0)
      BY <1>7, <2>2, <2>1
    <3>2. Seconds(before, day + 1, 0, 0, 0)
            = Seconds(before, day, t.hour, t.minute, t.second) + 1
      BY <1>5, <1>16, <1>12 DEF Seconds
    <3> QED
      BY <1>6, <3>1, <3>2
  <2> QED
    BY <1>10, <2>1, <2>3, <2>4 DEF u
<1> QED
  BY <1>13, <1>14, <1>15, <1>16

\* In one year the days of two months do not meet.
LEMMA OneDay ==
    ASSUME NEW t, NEW u, u.year = t.year,
           t.month \in 1 .. 12, t.day \in 1 .. MonthLength(t),
           u.month \in 1 .. 12, u.day \in 1 .. MonthLength(u)
    PROVE  /\ DayOfYear(t) \in Int /\ DayOfYear(u) \in Int
           /\ DayOfYear(t) = DayOfYear(u) => t.month = u.month /\ t.day = u.day
           /\ t.month = 12 /\ t.day = 31 => DayOfYear(u) <= DayOfYear(t)
<1> DEFINE leap == LeapYear(t.year)
           add(m) == IF m > 2 /\ leap THEN 1 ELSE 0
           length(m) == IF m = 2 /\ leap THEN 29 ELSE Days[m]
<1>1. LeapYear(u.year) = leap
  OBVIOUS
<1> HIDE DEF leap
<1>2. MonthLength(t) = length(t.month) /\ MonthLength(u) = length(u.month)
  BY <1>1 DEF MonthLength, leap
<1>3. \A m \in 1 .. 12 : DaysBefore[m] \in Int /\ add(m) \in 0 .. 1 /\ length(m) \in 28 .. 31
  BY DEF DaysBefore, Days
<1>4. t.day \in Int /\ u.day \in Int
  BY <1>2, <1>3
<1>5. /\ DayOfYear(t) = DaysBefore[t.month] + add(t.month) + t.day
      /\ DayOfYear(u) = DaysBefore[u.month] + add(u.month) + u.day
  BY <1>1, <1>4, DayOfYearIs DEF leap
<1>6. \A m, n \in 1 .. 12 : m < n =>
        DaysBefore[m] + add(m) + length(m) <= DaysBefore[n] + add(n)
  BY DEF DaysBefore, Days
<1> HIDE DEF add, length
<1>7. DayOfYear(t) \in Int /\ DayOfYear(u) \in Int
  BY <1>3, <1>4, <1>5
<1>8. CASE t.month = u.month
  <2>1. DayOfYear(t) = DayOfYear(u) => t.day = u.day
    BY <1>3, <1>4, <1>5, <1>8
  <2>2. t.month = 12 => length(12) = 31
    BY DEF length, Days
  <2>3. t.month = 12 /\ t.day = 31 => DayOfYear(u) <= DayOfYear(t)
    BY <1>2, <1>3, <1>4, <1>5, <1>8, <2>2
  <2> QED
    BY <1>7, <1>8, <2>1, <2>3
<1>9. CASE t.month < u.month
  <2>1. DayOfYear(t) < DayOfYear(u)
    BY <1>2, <1>3, <1>4, <1>5, <1>6, <1>9
  <2> QED
    BY <1>7, <1>9, <2>1
<1>10. CASE u.month < t.month
  <2>1. DayOfYear(u) < DayOfYear(t)
    BY <1>2, <1>3, <1>4, <1>5, <1>6, <1>10
  <2> QED
    BY <1>7, <1>10, <2>1
<1> QED
  BY <1>8, <1>9, <1>10

LEMMA Digits ==
    ASSUME NEW b, NEW d, NEW e, NEW h, NEW m, NEW n, NEW f, NEW g, NEW i,
           b \in Int, d \in Int, e \in Int, h \in 0 .. 23, m \in 0 .. 59,
           n \in 0 .. 59, f \in 0 .. 23, g \in 0 .. 59, i \in 0 .. 59
    PROVE  /\ Seconds(b, d, h, m, n) = Seconds(b, e, f, g, i) =>
                d = e /\ h = f /\ m = g /\ n = i
           /\ e <= d => Seconds(b, e, f, g, i) # Seconds(b, d, 23, 59, 59) + 1
<1>1. ASSUME Seconds(b, d, h, m, n) = Seconds(b, e, f, g, i)
      PROVE  d = e /\ h = f /\ m = g /\ n = i
  <2>1. (d - e) * 86400 + (h - f) * 3600 + (m - g) * 60 + (n - i) = 0
    BY <1>1 DEF Seconds
  <2>2. d = e
    BY <2>1
  <2>3. h = f
    BY <2>1, <2>2
  <2>4. m = g
    BY <2>1, <2>2, <2>3
  <2> QED
    BY <2>1, <2>2, <2>3, <2>4
<1>2. e <= d => Seconds(b, e, f, g, i) # Seconds(b, d, 23, 59, 59) + 1
  BY DEF Seconds
<1> QED
  BY <1>1, <1>2

\* Within a year the ordinal number of a second tells all its fields.
LEMMA OrdinalTells ==
    ASSUME NEW t, NEW u, t.year \in Int, u.year = t.year, InCalendar(t), InCalendar(u)
    PROVE  /\ Ordinal(u) = Ordinal(t) => CTime(u) = CTime(t)
           /\ Ordinal(u) = Ordinal(t) + 1 => ~LastOfYear(t)
<1> DEFINE b == Before(t.year - 1) - Before(1999)
<1>1. /\ Ordinal(t) = Seconds(b, DayOfYear(t), t.hour, t.minute, t.second)
      /\ Ordinal(u) = Seconds(b, DayOfYear(u), u.hour, u.minute, u.second)
  BY OrdinalIs
<1>2. b \in Int
  BY DEF Before
<1> HIDE DEF b
<1>3. /\ t.hour \in 0 .. 23 /\ t.minute \in 0 .. 59 /\ t.second \in 0 .. 59
      /\ u.hour \in 0 .. 23 /\ u.minute \in 0 .. 59 /\ u.second \in 0 .. 59
  BY DEF InCalendar
<1>4. /\ DayOfYear(t) \in Int /\ DayOfYear(u) \in Int
      /\ DayOfYear(t) = DayOfYear(u) => t.month = u.month /\ t.day = u.day
      /\ t.month = 12 /\ t.day = 31 => DayOfYear(u) <= DayOfYear(t)
  BY OneDay DEF InCalendar
<1>5. ASSUME Ordinal(u) = Ordinal(t) PROVE CTime(u) = CTime(t)
  <2>1. /\ DayOfYear(u) = DayOfYear(t)
        /\ u.hour = t.hour /\ u.minute = t.minute /\ u.second = t.second
    <3>1. Seconds(b, DayOfYear(t), t.hour, t.minute, t.second)
            = Seconds(b, DayOfYear(u), u.hour, u.minute, u.second)
      BY <1>1, <1>5, Zenon
    <3> QED
      BY <1>2, <1>3, <1>4, <3>1, Digits
  <2> QED
    BY <1>4, <2>1 DEF CTime
<1>6. ASSUME Ordinal(u) = Ordinal(t) + 1, LastOfYear(t) PROVE FALSE
  <2>1. DayOfYear(u) <= DayOfYear(t) /\ t.hour = 23 /\ t.minute = 59 /\ t.second = 59
    BY <1>4, <1>6 DEF LastOfYear
  <2>2. Seconds(b, DayOfYear(u), u.hour, u.minute, u.second)
          = Seconds(b, DayOfYear(t), 23, 59, 59) + 1
    BY <1>1, <1>6, <2>1, Zenon
  <2> QED
    BY <1>2, <1>3, <1>4, <2>1, <2>2, Digits
<1> QED
  BY <1>5, <1>6

\* The increment makes of a second the one that follows it in the same year.
LEMMA PlusSecondFollows ==
    ASSUME NEW t \in Time, NEW v, NEW days \in DaysRead(t),
           InCalendar(t), InCalendar(v), v.year = t.year, Ordinal(v) = Ordinal(t) + 1
    PROVE  CTime(PlusSecond(t, days)) = CTime(v)
<1>1. t.year \in Int
  BY Zenon DEF Time
<1>2. ~LastOfYear(t)
  BY <1>1, OrdinalTells
<1> DEFINE u == PlusSecond(t, days)
<1>3. InCalendar(u) /\ Ordinal(u) = Ordinal(t) + 1 /\ u.year = t.year
  BY <1>2, NextSecond
<1> HIDE DEF u
<1>4. CTime(u) = CTime(v)
  BY <1>1, <1>3, OrdinalTells
<1> QED
  BY <1>4 DEF u
=============================================================================
