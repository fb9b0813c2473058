------------------------------ MODULE GPS_Time ------------------------------
(***************************************************************************)
(* The operations of class GPS_Time: the two increments and the reading of *)
(* a $GPRMC sentence.  A time is a record with the fields of the class.    *)
(***************************************************************************)
EXTENDS Nmea

CONSTANTS
    Radix,      \* hundreths in a tenth and tenths in a second: 10
    ClockOf(_), \* what six characters, from the first of a text on, read as
    DateOf(_),  \* the same for ddmmyy
    Valid, Void \* the status characters 'A' and 'V'

Clock == [hour : Int, minute : Int, second : Int]
Date  == [day : Int, month : Int, year : Int]

ASSUME RadixType == Radix \in Nat \ {0}

ASSUME ConversionTypes ==
    \A c \in Cell : ClockOf(c) \in Clock /\ DateOf(c) \in Date

ASSUME StatusCells == Valid # Void /\ Valid \in Data /\ Void \in Data

Number == Seq(Cell)     \* the text a number was read from

Time == [year : Int, month : Int, day : Int,
         hour : Int, minute : Int, second : Int,
         tenths : 0 .. Radix - 1, hundreths : 0 .. Radix - 1,
         status : Cell, velocity : Number, track : Number,
         magvar : Number, magvar_dir : Cell]

\* GPS_Time::GPS_Time() of the global object; the 'W' it sets reads as Zero.
InitTime ==
    [year |-> 2000, month |-> 1, day |-> 1,
     hour |-> 0, minute |-> 0, second |-> 0, tenths |-> 0, hundreths |-> 0,
     status |-> Void, velocity |-> <<Zero>>, track |-> <<Zero>>,
     magvar |-> <<Zero>>, magvar_dir |-> Zero]

FractionalReset(t) == [t EXCEPT !.tenths = 0, !.hundreths = 0]

\* Mutant: the counter is compared before it is incremented.
PlusHundredthLate(t) ==
    IF t.hundreths # Radix THEN [t EXCEPT !.hundreths = @ + 1]
    ELSE IF t.tenths + 1 # Radix
         THEN [t EXCEPT !.hundreths = 0, !.tenths = @ + 1]
         ELSE FractionalReset(t)

\* operator++(): 1/100 s.  The carry out of the tenths is dropped.
PlusHundredth(t) ==
    IF t.hundreths + 1 # Radix THEN [t EXCEPT !.hundreths = @ + 1]
    ELSE IF t.tenths + 1 # Radix
         THEN [t EXCEPT !.hundreths = 0, !.tenths = @ + 1]
         ELSE FractionalReset(t)

-----------------------------------------------------------------------------
Days == <<31, 28, 31, 30, 31, 30, 31, 31, 30, 31, 30, 31>>

LeapYear(y) == (y % 4 = 0 /\ y % 100 # 0) \/ y % 400 = 0

\* What days[month - 1] may read: outside the array it is the memory next to
\* it, of which only matters whether the day exceeds it.
DaysRead(t) ==
    IF t.month \in 1 .. 12 THEN {Days[t.month]} ELSE {t.day, t.day + 1}

\* Mutant: no leap years.
NextDayNoLeap(t, days) ==
    IF t.day + 1 <= days
    THEN [t EXCEPT !.day = @ + 1]
    ELSE [t EXCEPT !.day = 1, !.month = @ + 1,
                   !.year = IF t.month + 1 = 13 THEN @ + 1 ELSE @]

\* The date after midnight.  month++ is not followed by month = 1.
NextDay(t, days) ==
    LET length == IF t.month = 2 /\ LeapYear(t.year) THEN days + 1 ELSE days
    IN  IF t.day + 1 <= length
        THEN [t EXCEPT !.day = @ + 1]
        ELSE [t EXCEPT !.day = 1, !.month = @ + 1,
                       !.year = IF t.month + 1 = 13 THEN @ + 1 ELSE @]

\* operator++(int): one second, for the value days of the array.
PlusSecond(t, days) ==
    LET f == FractionalReset(t)
    IN  IF t.second + 1 # 60 THEN [f EXCEPT !.second = @ + 1]
        ELSE LET m == [f EXCEPT !.second = 0]
             IN  IF t.minute + 1 # 60 THEN [m EXCEPT !.minute = @ + 1]
                 ELSE LET h == [m EXCEPT !.minute = 0]
                      IN  IF t.hour + 1 # 24 THEN [h EXCEPT !.hour = @ + 1]
                          ELSE NextDay([h EXCEPT !.hour = 0], days)

-----------------------------------------------------------------------------
\* Reading through a NULL pointer reads the NUL at address 0 of the flash.
FirstChar(token) == IF token = Empty THEN Nul ELSE token[1]
NumberOf(token)  == IF token = Empty THEN <<Zero>> ELSE token

\* Mutant: a void status does not revoke a valid one.
RmcKeepsValid(t, token) ==
    LET c == ClockOf(FirstChar(token[1]))
        d == DateOf(FirstChar(token[9]))
    IN  IF token[2] = Empty \/ token[9] = Empty \/ token[1] = Empty THEN t
        ELSE [t EXCEPT !.hour = c.hour, !.minute = c.minute, !.second = c.second,
                       !.day = d.day, !.month = d.month, !.year = d.year,
                       !.status = IF FirstChar(token[2]) = Valid THEN Valid ELSE @]

\* nmea_rmc(s), where token[n] is the n-th token of s.
NmeaRmc(t, token) ==
    LET time == token[1]
        stat == token[2]
        date == token[9]
        c    == ClockOf(FirstChar(time))
        d    == DateOf(FirstChar(date))
    IN  IF stat = Empty \/ date = Empty \/ time = Empty THEN t
        ELSE [hour |-> c.hour, minute |-> c.minute, second |-> c.second,
              day |-> d.day, month |-> d.month, year |-> d.year,
              tenths |-> t.tenths, hundreths |-> t.hundreths,
              status     |-> FirstChar(stat),
              velocity   |-> NumberOf(token[7]),
              track      |-> NumberOf(token[8]),
              magvar     |-> NumberOf(token[10]),
              magvar_dir |-> FirstChar(token[11])]

-----------------------------------------------------------------------------
(* What ticktock does with the time *)

\* The sentence is not looked at again: the fraction is reset also when
\* nmea_rmc() has returned early.
AfterRmc(t, token, pps) ==
    IF pps THEN NmeaRmc(t, token) ELSE FractionalReset(NmeaRmc(t, token))

\* Mutant: the clock is set from a time that is not valid.
SetsRtcAlways(t) == t.second = 0 /\ t.tenths = 0 /\ t.hundreths = 0

SetsRtc(t) ==
    t.status = Valid /\ t.second = 0 /\ t.tenths = 0 /\ t.hundreths = 0

\* to_C_tm()
CTime(t) == [year |-> t.year, month |-> t.month, day |-> t.day,
             hour |-> t.hour, minute |-> t.minute, second |-> t.second]

-----------------------------------------------------------------------------
(* The calendar *)

MonthLength(t) == IF t.month = 2 /\ LeapYear(t.year) THEN 29 ELSE Days[t.month]

InCalendar(t) ==
    /\ t.hour \in 0 .. 23 /\ t.minute \in 0 .. 59 /\ t.second \in 0 .. 59
    /\ t.month \in 1 .. 12 /\ t.day \in 1 .. MonthLength(t)

\* Seconds since the last day of 1999, for a time of the calendar.
Before(y) == 365 * y + y \div 4 - y \div 100 + y \div 400
DayOfYear(t) ==
    LET m == t.month
        shift == IF m <= 2 THEN 0 ELSE IF LeapYear(t.year) THEN 1 ELSE 2
    IN  (367 * m - 362) \div 12 - shift + t.day
Ordinal(t) ==
    (((Before(t.year - 1) - Before(1999) + DayOfYear(t)) * 24 + t.hour)
        * 60 + t.minute) * 60 + t.second
=============================================================================
