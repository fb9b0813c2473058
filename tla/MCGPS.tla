-------------------------------- MODULE MCGPS --------------------------------
(* Sentences and texts for the runs of GPS. *)
EXTENDS GPS, TLC

MCComma == ","
MCLF == "LF"
MCNul == "NUL"
MCZero == "0"
MCCheckSum == "*hh"

DateText ==
    ("010115" :> <<1, 1, 2015>>) @@ ("311214" :> <<31, 12, 2014>>)

MCData ==
    {"$GPRMC", "$GPGGA", "$GPVTG", "$GPGSV", "A", "V", "N", "W"}
        \cup {"1", "g2", "g4", "g8", "g9", "r3", "r5", "r7", "r8", "235959", "000000"}
        \cup DOMAIN DateText
        \cup {"v1", "v3", "v5", "v7"}
        \cup {"s1", "s2", "s3", "s4", "s5", "s6", "s7", "s8"}

Sentence(a, f) ==
    [address |-> a,
     fields |-> [i \in DOMAIN f |-> IF f[i] = "" THEN <<>> ELSE <<f[i]>>]]

\* What the receiver sends before it has a position.
GgaNoFix == Sentence("$GPGGA", <<"", "", "", "", "", "0", "0", "g8", "", "">>)

\* A position without the time; the sixth field is the quality, the ninth the altitude.
GgaFix == Sentence("$GPGGA",
    <<"", "g2", "N", "g4", "W", "1", "0", "g8", "g9", "">>)

\* The time; the receiver sends empty fields before it has one.
RmcAt(time, date) == Sentence("$GPRMC",
    <<time, "A", "r3", "N", "r5", "W", "r7", "r8", date, "", "", "A">>)
RmcMidnight == RmcAt("000000", "010115")
RmcNewYear  == RmcAt("235959", "311214")
RmcVoid == Sentence("$GPRMC", <<"", "V", "", "", "", "", "", "", "", "", "", "N">>)

VtgMoving == Sentence("$GPVTG", <<"v1", "N", "", "N", "v5", "N", "v7", "N">>)

\* A sentence the program does not know; its text stays in the buffer.
Gsv == Sentence("$GPGSV", <<"s1", "s2", "s3", "s4", "s5", "s6", "s7", "s8">>)

\* "0" is followed by the NUL of strtok, then by the next token: '0' - '0',
\* NUL - '0' and so on, as in GPS_Time.cpp:158-163 for "0\0V\0" "0\0".
MCClockOf(c) ==
    IF c = "235959" THEN [hour |-> 23, minute |-> 59, second |-> 59]
    ELSE IF c = "000000" THEN [hour |-> 0, minute |-> 0, second |-> 0]
    ELSE [hour |-> -48, minute |-> 76, second |-> -48]

MCDateOf(c) ==
    IF c \in DOMAIN DateText
    THEN LET d == DateText[c] IN [day |-> d[1], month |-> d[2], year |-> d[3]]
    ELSE [day |-> -48, month |-> -48, year |-> 1952]

SerialSentences  == {GgaNoFix, GgaFix, RmcMidnight, RmcVoid}
OverrunSentences == {VtgMoving, Gsv}
YearEnd   == {RmcNewYear}
Midnight  == {RmcMidnight}
=============================================================================
