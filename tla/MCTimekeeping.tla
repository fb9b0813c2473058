---------------------------- MODULE MCTimekeeping ----------------------------
(* Seconds and texts for the run of Timekeeping. *)
EXTENDS Timekeeping, TLC

MCComma == ","
MCLF == "LF"
MCNul == "NUL"
MCZero == "0"
MCCheckSum == "*hh"

ClockText ==
    ("235959" :> <<23, 59, 59>>) @@ ("000000" :> <<0, 0, 0>>) @@
    ("000001" :> <<0, 0, 1>>) @@ ("000002" :> <<0, 0, 2>>) @@
    ("115959" :> <<11, 59, 59>>) @@ ("120000" :> <<12, 0, 0>>) @@
    ("120001" :> <<12, 0, 1>>) @@ ("120002" :> <<12, 0, 2>>)

DateText ==
    ("280215" :> <<28, 2, 2015>>) @@ ("010315" :> <<1, 3, 2015>>) @@
    ("280216" :> <<28, 2, 2016>>) @@ ("290216" :> <<29, 2, 2016>>) @@
    ("300914" :> <<30, 9, 2014>>) @@ ("011014" :> <<1, 10, 2014>>)

MCData == {"A", "V"} \cup DOMAIN ClockText \cup DOMAIN DateText

\* As in MCGPS: what "0" reads as.
MCClockOf(c) ==
    IF c \in DOMAIN ClockText
    THEN LET t == ClockText[c] IN [hour |-> t[1], minute |-> t[2], second |-> t[3]]
    ELSE [hour |-> -48, minute |-> 76, second |-> -48]

MCDateOf(c) ==
    IF c \in DOMAIN DateText
    THEN LET d == DateText[c] IN [day |-> d[1], month |-> d[2], year |-> d[3]]
    ELSE [day |-> -48, month |-> -48, year |-> 1952]

Midnight(before, after) ==
    <<<<"235959", before>>, <<"000000", after>>, <<"000001", after>>, <<"000002", after>>>>

Noon(date) ==
    <<<<"115959", date>>, <<"120000", date>>, <<"120001", date>>, <<"120002", date>>>>

MCCalendars ==
    {Midnight("280215", "010315"), Midnight("280216", "290216"),
     Midnight("300914", "011014"), Noon("280215")}

MCValue == Int
=============================================================================
