------------------------------- MODULE GpsFeed -------------------------------
(***************************************************************************)
(* What the GPS component promises, without buffers, commas or strtok: a   *)
(* mailbox that holds the latest complete line.  Each line is parsed at    *)
(* most once; a parsed sentence sets the fields of its kind to the texts   *)
(* at their places in that one sentence, an empty field being a zero, and  *)
(* leaves everything else alone.  Nothing is promised of a line that is    *)
(* not exactly a sentence.                                                 *)
(***************************************************************************)
EXTENDS Naturals, Sequences

CONSTANTS Sentences, Bytes, Rmc, Gga, Vtg, Zero, Empty,
          ClockOf(_), DateOf(_), LF, PpsInUse

VARIABLES line,     \* bytes of the line that is coming in
          mail,     \* the last complete line
          full,     \* it has not been parsed yet
          time,     \* without the fractions of a second
          place, track

vars == <<line, mail, full, time, place, track>>

Is(s) == mail = Bytes[s]
Known == \E s \in Sentences : Is(s)

TextOf(s, i) == IF s.fields[i] = Empty THEN Zero ELSE s.fields[i][1]
Angle(s, i)  == [text |-> TextOf(s, i), dir |-> TextOf(s, i + 1)]

PlaceOf(s) ==
    [lat |-> Angle(s, 2), lon |-> Angle(s, 4), alt |-> <<TextOf(s, 9)>>,
     sats |-> <<TextOf(s, 7)>>, quality |-> <<TextOf(s, 6)>>]

TrackOf(s) ==
    [true |-> <<TextOf(s, 1)>>, mag |-> <<TextOf(s, 3)>>,
     knots |-> <<TextOf(s, 5)>>, kph |-> <<TextOf(s, 7)>>]

TimeOf(s) ==
    LET c == ClockOf(TextOf(s, 1))
        d == DateOf(TextOf(s, 9))
    IN  [year |-> d.year, month |-> d.month, day |-> d.day,
         hour |-> c.hour, minute |-> c.minute, second |-> c.second,
         tenths |-> 0, hundreths |-> 0, status |-> TextOf(s, 2),
         velocity |-> <<TextOf(s, 7)>>, track |-> <<TextOf(s, 8)>>,
         magvar |-> <<TextOf(s, 10)>>, magvar_dir |-> TextOf(s, 11)]

Init == line = <<>> /\ mail = <<>> /\ full = FALSE

\* One byte comes in.
Arrive ==
    /\ \/ /\ Len(line') = Len(line) + 1
          /\ SubSeq(line', 1, Len(line)) = line /\ line'[Len(line')] # LF
          /\ UNCHANGED <<mail, full>>
       \/ line' = <<>> /\ mail' = Append(line, LF) /\ full' = TRUE
    /\ UNCHANGED <<time, place, track>>

Parse(s) ==
    /\ full /\ Is(s) /\ full' = FALSE
    /\ time'  = IF s.address = Rmc THEN TimeOf(s) ELSE time
    /\ place' = IF s.address = Gga THEN PlaceOf(s) ELSE place
    /\ track' = IF s.address = Vtg THEN TrackOf(s) ELSE track
    /\ UNCHANGED <<line, mail>>

ParseGarbage == full /\ ~Known /\ full' = FALSE /\ UNCHANGED <<line, mail>>

\* One second passes; the reception is not concerned.
Pulse ==
    /\ PpsInUse
    /\ time' = [time EXCEPT !.year = time'.year, !.month = time'.month,
                            !.day = time'.day, !.hour = time'.hour,
                            !.minute = time'.minute, !.second = time'.second]
    /\ UNCHANGED <<line, mail, full, place, track>>

Next == Arrive \/ (\E s \in Sentences : Parse(s)) \/ ParseGarbage \/ Pulse

Spec == Init /\ [][Next]_vars
=============================================================================
