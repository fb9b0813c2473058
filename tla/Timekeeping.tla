----------------------------- MODULE Timekeeping -----------------------------
(***************************************************************************)
(* Seconds of the world and those of the program.  The ticker of 10 ms     *)
(* (ticktock), the $GPRMC sentence of each second, which may be late, void *)
(* or cut short, and the edge of the PPS input (pps_irq) keep theTime;     *)
(* ticktock sets the real-time clock from it; the main program copies it   *)
(* (timeNow), or the position, at any moment.  A second is Tps ticks long  *)
(* and begins just before or just after one of them.                       *)
(***************************************************************************)
EXTENDS GPS_Time, Snapshot

CONSTANTS
    Calendars,      \* successive seconds: sequences of <<hhmmss, ddmmyy>>
    Late,           \* ticks after which the sentence of a second is parsed
    MaxMissed,      \* bound: sentences that do not tell the time
    MaxCalls,       \* bound: copies taken
    None

Tps == Radix * Radix

ASSUME TimekeepingConstants ==
    /\ \A s \in Calendars : s # <<>> /\ s \in Seq(Data \X Data)
    /\ Late \in 1 .. Tps - 1 /\ MaxMissed \in Nat /\ MaxCalls \in Nat

\* What the receiver sends for a second, as a time.
Reading(texts) ==
    LET c == ClockOf(texts[1])
        d == DateOf(texts[2])
    IN  [year |-> d.year, month |-> d.month, day |-> d.day,
         hour |-> c.hour, minute |-> c.minute, second |-> c.second]

\* The receiver's seconds follow one another.  They are of one year: at its
\* end the code goes wrong (run gps_year_end).
ASSUME SuccessiveSeconds ==
    \A s \in Calendars :
        /\ \A i \in 1 .. Len(s) : InCalendar(Reading(s[i]))
        /\ \A i \in 1 .. Len(s) - 1 :
              LET t == Reading(s[i])
                  u == Reading(s[i + 1])
              IN  u.year = t.year /\ Ordinal(u) = Ordinal(t) + 1

VARIABLES
    ppsInUse,       \* has ppsAttach been called?
    calendar,       \* the seconds that are passing
    now,            \* ticks since the first of them began
    second,         \* the current one
    heard,          \* the last one whose sentence has come in, or was lost
    missed, calls,  \* counted for the bounds
    theTime,
    place,          \* thePlace: which of two positions
    rtc             \* what set_time() was given last, and the tick it was given at

world == <<ppsInUse, calendar, now, second, heard, missed>>
timeVars == <<world, calls, theTime, place, rtc>>

-----------------------------------------------------------------------------
(* Objects as main copies them: in words *)

DateWord(t)  == (t.year * 100 + t.month) * 100 + t.day
ClockWord(t) == (t.hour * 100 + t.minute) * 100 + t.second

\* The third holds the fraction and whether the time is valid.
TimeWords(t) ==
    <<DateWord(t), ClockWord(t),
      (t.tenths * Radix + t.hundreths) * 2 + (IF t.status = Valid THEN 1 ELSE 0)>>

PlaceWords(p) == <<p, p, p>>

ASSUME TimeIsObject == TimeWords(InitTime) \in Object

WordsFor(c, t, p) == IF c = "timeNow" THEN TimeWords(t) ELSE PlaceWords(p)

\* A handler has changed the objects; main may be copying one of them.
Handler(t, p) ==
    /\ theTime' = t /\ place' = p
    /\ live' = WordsFor(call, t, p)
    /\ IF live' = live THEN UNCHANGED vars ELSE Irq

MainCalls(c) ==
    /\ calls < MaxCalls /\ calls' = calls + 1
    /\ live' = WordsFor(c, theTime, place) /\ Call(c)
    /\ UNCHANGED <<world, theTime, place, rtc>>

MainCopies ==
    /\ CopyA \/ CopyQ \/ Equal \/ Differ
    /\ UNCHANGED timeVars

-----------------------------------------------------------------------------
(* The receiver and the handlers *)

Truth(s) == Reading(calendar[s])

Rmc(time, status, date) ==
    [n \in 0 .. 11 |-> CASE n = 1 -> time [] n = 2 -> status [] n = 9 -> date
                         [] OTHER -> <<Zero>>]

\* What may come in for a second: the time; empty fields, filled with zeros,
\* when there is no fix; a line that has lost its end.
Told == Rmc(<<calendar[second][1]>>, <<Valid>>, <<calendar[second][2]>>)
NotTold == {Rmc(<<Zero>>, <<Void>>, <<Zero>>),
            Rmc(<<calendar[second][1]>>, <<Valid>>, Empty)}

Miss ==
    /\ heard < second /\ heard' = second
    /\ missed < MaxMissed /\ missed' = missed + 1

\* The line is lost or its address unreadable.
Lost ==
    /\ Miss
    /\ UNCHANGED <<ppsInUse, calendar, now, second, calls, theTime, place, rtc, vars>>

\* A second begins and, when PPS is attached, pps_irq runs.
SecondBegins ==
    /\ second < Len(calendar) /\ now \in {Tps * second - 1, Tps * second}
    /\ heard = second /\ second' = second + 1
    /\ IF ppsInUse
       THEN \E days \in DaysRead(theTime) : Handler(PlusSecond(theTime, days), place)
       ELSE UNCHANGED <<theTime, place, vars>>
    /\ UNCHANGED <<ppsInUse, calendar, now, heard, missed, calls, rtc>>

\* Mutant: the test comes before the line is parsed.
SetFromOld(t) ==
    rtc' = IF SetsRtc(theTime) THEN [time |-> CTime(t), at |-> now'] ELSE rtc

SetFrom(t) ==
    rtc' = IF SetsRtc(t) THEN [time |-> CTime(t), at |-> now'] ELSE rtc

\* ticktock has made t of theTime and p of thePlace.
Ticktock(t, p) ==
    /\ now < Tps * second /\ now' = now + 1
    /\ Handler(t, p) /\ SetFrom(t)
    /\ UNCHANGED <<ppsInUse, calendar, second, calls>>

\* No line, or one with a position.
TickOnly ==
    /\ heard = second \/ now + 1 < Tps * (second - 1) + Late
    /\ \E p \in {0, 1} : Ticktock(PlusHundredth(theTime), p)
    /\ UNCHANGED <<heard, missed>>

TickTold ==
    /\ heard < second /\ heard' = second /\ UNCHANGED missed
    /\ Ticktock(AfterRmc(PlusHundredth(theTime), Told, ppsInUse), place)

TickNotTold ==
    /\ Miss
    /\ \E r \in NotTold :
          Ticktock(AfterRmc(PlusHundredth(theTime), r, ppsInUse), place)

-----------------------------------------------------------------------------
TimeInit ==
    /\ ppsInUse \in BOOLEAN /\ calendar \in Calendars
    /\ now = 0 /\ second = 1 /\ heard = 0 /\ missed = 0 /\ calls = 0
    /\ theTime = InitTime /\ place = 0 /\ rtc = None
    /\ call = "timeNow" /\ live = TimeWords(InitTime)
    /\ a = live /\ q = live /\ seen = {live}
    /\ pc = "return" /\ k = 1 /\ irqs = 0

TimeNext ==
    \/ (\E c \in Calls : MainCalls(c)) \/ MainCopies
    \/ Lost \/ SecondBegins \/ TickOnly \/ TickTold \/ TickNotTold

TimeSpec == TimeInit /\ [][TimeNext]_<<timeVars, vars>>

-----------------------------------------------------------------------------
(* Properties *)

\* With PPS attached a time marked valid is that of the second that has begun
\* last, across midnight, the end of a month and a leap day, whichever of the
\* sentences are missing (pps_irq, GPS.cpp:191-196).
ShowsTrueTime ==
    ppsInUse /\ theTime.status = Valid => CTime(theTime) = Truth(second)

\* Tick at lies less than m + 1 seconds and the delay of a sentence behind the
\* beginning of second s.
SoonAfter(at, s, m) == at - Tps * (s - 1) \in 0 .. Late + Tps * (1 + m) - 1

\* Whatever the real-time clock is set to was the time less than one second and
\* the delay of a sentence ago, one second more for each sentence that was
\* missed: although it is set again each time the hundredths wrap around
\* while the second stays 0, and a PPS resets them (GPS.cpp:182-185).
RtcIsRecent ==
    rtc # None =>
        \E s \in 1 .. second :
            rtc.time = Truth(s) /\ SoonAfter(rtc.at, s, missed)

\* With PPS attached a valid time that timeNow returns is that of the current
\* second or, when the next began meanwhile, of the one before: date and time
\* belong together also at midnight (GPS_Time.cpp:65-75, main.cpp:123).
ShownTimeIsTrue ==
    [][ pc = "compare" /\ pc' = "return" /\ call = "timeNow"
          /\ ppsInUse /\ q[3] % 2 = 1
        => \E s \in {second - 1, second} \ {0} :
              q[1] = DateWord(Truth(s)) /\ q[2] = ClockWord(Truth(s))
      ]_<<timeVars, vars>>
=============================================================================
