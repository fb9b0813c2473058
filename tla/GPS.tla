--------------------------------- MODULE GPS ---------------------------------
(***************************************************************************)
(* Class GPS: bytes of the receiver come in through the UART, rx_irq puts  *)
(* them into the active one of two line buffers, and the 10 ms ticker      *)
(* (ticktock) parses the passive one and keeps the time.                   *)
(*                                                                         *)
(* All interrupts of the program have the same priority, so that a handler *)
(* is never interrupted by another: each is one action.  rx_irq loops over *)
(* the bytes of the FIFO; an action is one turn of that loop, since every  *)
(* byte also raises an interrupt of its own and nothing tells two turns of *)
(* one call from two calls.  While the handler of the keypad waits for the *)
(* contacts to settle (30 ms) no other handler runs and the FIFO fills.    *)
(***************************************************************************)
EXTENDS GPS_Time

CONSTANTS
    Sentences,          \* what the receiver may send
    Rmc, Gga, Vtg,      \* the addresses the program knows
    BufLen,             \* GPS_BUFFER_LEN
    FifoLen,            \* depth of the FIFO of the UART
    HoldLen,            \* how many bytes may come in while the keypad waits
    PpsInUse,           \* has ppsAttach been called?
    MaxPresses,         \* bound: how often the keypad holds the processor
    MaxPulses,          \* bound: how many PPS edges arrive
    None

ASSUME GpsConstants ==
    /\ BufLen \in Nat \ {0} /\ FifoLen \in Nat \ {0} /\ HoldLen \in Nat
    /\ PpsInUse \in BOOLEAN /\ MaxPresses \in Nat /\ MaxPulses \in Nat
    /\ Cardinality({Rmc, Gga, Vtg}) = 3 /\ {Rmc, Gga, Vtg} \subseteq Data
    /\ \A s \in Sentences : s.address \in Data /\ s.fields \in Seq(Field)

VARIABLES
    wire,               \* bytes of the current sentence still to be sent
    fifo,               \* receive FIFO of the UART
    blocked,            \* is the handler of the keypad waiting?
    held,               \* how many bytes came in since it began to
    presses, pulses,    \* counted for the two bounds
    buffer, active_buffer, rx_buffer_in, lastByte, process_required,
    theTime, thePlace, theVTG,
    rtc,                \* what the last set_time() was given
    wrapped,            \* history: has a line ever filled its buffer?
    raw,                \* history: bytes read since the last line feed
    lastLine            \* history: the last complete line as it was read

rxVars  == <<buffer, active_buffer, rx_buffer_in, lastByte, wrapped, raw, lastLine>>
envVars == <<wire, fifo, blocked, held, presses, pulses>>
appVars == <<theTime, thePlace, theVTG, rtc>>

vars    == <<wire, fifo, blocked, held, presses, pulses,
             buffer, active_buffer, rx_buffer_in, lastByte, process_required,
             theTime, thePlace, theVTG, rtc, wrapped, raw, lastLine>>

-----------------------------------------------------------------------------
(* GPS_Geodetic and GPS_VTG *)

Angle == [text : Cell, dir : Cell]
Place == [lat : Angle, lon : Angle, alt : Number, sats : Number,
          quality : Number]
Track == [true : Number, mag : Number, knots : Number, kph : Number]

InitPlace ==
    [lat |-> [text |-> Zero, dir |-> Zero], lon |-> [text |-> Zero, dir |-> Zero],
     alt |-> <<Zero>>, sats |-> <<Zero>>, quality |-> <<Zero>>]

InitTrack ==
    [true |-> <<Zero>>, mag |-> <<Zero>>, knots |-> <<Zero>>, kph |-> <<Zero>>]

AngleOf(text, dir) == [text |-> FirstChar(text), dir |-> FirstChar(dir)]

\* Mutant: the satellites are taken from the next token.
GgaOffByOne(place, token) ==
    IF \A n \in {2, 4, 7, 9} : token[n] # Empty
    THEN [lat |-> AngleOf(token[2], token[3]),
          lon |-> AngleOf(token[4], token[5]),
          alt |-> token[9], sats |-> token[8], quality |-> NumberOf(token[6])]
    ELSE [place EXCEPT !.quality = <<Zero>>]

NmeaGga(place, token) ==
    IF \A n \in {2, 4, 7, 9} : token[n] # Empty
    THEN [lat |-> AngleOf(token[2], token[3]),
          lon |-> AngleOf(token[4], token[5]),
          alt |-> token[9], sats |-> token[7], quality |-> NumberOf(token[6])]
    ELSE [place EXCEPT !.quality = <<Zero>>]

\* Mutant: the speed in km/h is taken from the token with its unit.
VtgOffByOne(track, token) ==
    LET new(n, old) == IF token[n] = Empty THEN old ELSE token[n]
    IN  [true |-> new(1, track.true), mag |-> new(3, track.mag),
         knots |-> new(5, track.knots), kph |-> new(8, track.kph)]

NmeaVtg(track, token) ==
    LET new(n, old) == IF token[n] = Empty THEN old ELSE token[n]
    IN  [true |-> new(1, track.true), mag |-> new(3, track.mag),
         knots |-> new(5, track.knots), kph |-> new(7, track.kph)]

-----------------------------------------------------------------------------
(* The receiver, the wire and the UART (not code of the repository) *)

Bytes == [s \in Sentences |-> Line(s.address, s.fields)]

Transmit(s) ==
    /\ wire = <<>>
    /\ wire' = Bytes[s]
    /\ UNCHANGED <<fifo, blocked, held, presses, pulses, rxVars, process_required, appVars>>

\* A byte takes about 1 ms; unless the processor is held, rx_irq has taken
\* the previous one by then.
Arrives ==
    /\ wire # <<>> /\ (IF blocked THEN held < HoldLen ELSE fifo = <<>>)
    /\ wire' = Tail(wire)
    /\ held' = IF blocked THEN held + 1 ELSE held
    /\ UNCHANGED <<blocked, presses, pulses, rxVars, process_required, appVars>>

UartIn ==
    /\ Len(fifo) < FifoLen /\ Arrives
    /\ fifo' = Append(fifo, Head(wire))

UartOverrun ==
    /\ Len(fifo) >= FifoLen /\ Arrives
    /\ UNCHANGED fifo

\* Keypad::_checkIndex begins and ends; it touches nothing of GPS.
KeypadEnter ==
    /\ ~blocked /\ presses < MaxPresses
    /\ blocked' = TRUE /\ presses' = presses + 1
    /\ UNCHANGED <<wire, fifo, held, pulses, rxVars, process_required, appVars>>

KeypadLeave ==
    /\ blocked /\ blocked' = FALSE /\ held' = 0
    /\ UNCHANGED <<wire, fifo, presses, pulses, rxVars, process_required, appVars>>

-----------------------------------------------------------------------------
(* The handlers *)

Wrap(i) == IF i + 1 >= BufLen THEN 0 ELSE i + 1

\* Mutant: no zero is put into an empty field.
NeverRepeated(c) == FALSE

Repeated(c) == c = Comma /\ lastByte = Comma

\* Mutant: the comma overwrites the zero pushed in before it.
AtZero(c) == rx_buffer_in

\* Where the byte c goes, behind the '0' pushed in when it repeats a comma.
At(c) == IF Repeated(c) THEN Wrap(rx_buffer_in) ELSE rx_buffer_in

Written(c) == {At(c)} \cup (IF Repeated(c) THEN {rx_buffer_in} ELSE {})

\* Mutant: the line feed is replaced by the NUL of a C string.
StoredNul(line, c) ==
    IF Repeated(c)
    THEN [line EXCEPT ![rx_buffer_in] = Zero, ![At(c)] = c]
    ELSE [line EXCEPT ![rx_buffer_in] = IF c = LF THEN Nul ELSE c]

Stored(line, c) ==
    IF Repeated(c)
    THEN [line EXCEPT ![rx_buffer_in] = Zero, ![At(c)] = c]
    ELSE [line EXCEPT ![rx_buffer_in] = c]

RxIrq ==
    /\ ~blocked /\ fifo # <<>>
    /\ LET c == Head(fifo)
       IN  /\ fifo' = Tail(fifo)
           /\ buffer' = [buffer EXCEPT ![active_buffer] = Stored(@, c)]
           /\ lastByte' = c
           /\ wrapped' = (wrapped \/ BufLen - 1 \in Written(c))
           /\ IF c = LF
              THEN /\ active_buffer' = 1 - active_buffer
                   /\ process_required' = TRUE
                   /\ rx_buffer_in' = 0
                   /\ raw' = <<>> /\ lastLine' = Append(raw, c)
              ELSE /\ rx_buffer_in' = Wrap(At(c))
                   /\ raw' = Append(raw, c)
                   /\ UNCHANGED <<active_buffer, process_required, lastLine>>
    /\ UNCHANGED <<wire, blocked, held, presses, pulses, appVars>>

\* buffer[0] and buffer[1] are adjacent, and a string in the first that has
\* no NUL runs on into the second.
Memory ==
    [i \in 0 .. 2 * BufLen - 1 |->
        IF i < BufLen THEN buffer[0][i] ELSE buffer[1][i - BufLen]]
Lines(mem) ==
    [b \in {0, 1} |-> [i \in 0 .. BufLen - 1 |->
        IF b = 0 THEN mem[i] ELSE mem[BufLen + i]]]

Passive == 1 - active_buffer
\* Mutant: the two buffers are taken for each other.
StartOfActive == IF Passive = 0 THEN BufLen ELSE 0
Start   == IF Passive = 0 THEN 0 ELSE BufLen

\* Mutant: the address is looked for in the buffer that is being filled.
ParsesActive(a) == process_required /\ buffer[active_buffer][0] = a

\* strncmp() finds the address a in front of the passive line.
Parses(a) == process_required /\ buffer[Passive][0] = a

Parsed == {a \in {Rmc, Gga, Vtg} : Parses(a)}

TokenOfLine ==
    LET mem    == Memory
        text   == Text(mem, Start)
        starts == Starts(mem, text, Start)
        ends   == Ends(mem, text)
    IN  [n \in 0 .. 11 |-> Token(mem, starts, ends, n)]

TimeAfterTick ==
    LET t == PlusHundredth(theTime)
    IN  IF Parses(Rmc) THEN AfterRmc(t, TokenOfLine, PpsInUse) ELSE t

\* The program calls none of setRmc, setGga, setVtg, setUkn and attaches no
\* callback: the branches for them are never taken.
Ticktock ==
    /\ ~blocked
    /\ theTime' = TimeAfterTick
    /\ thePlace' = IF Parses(Gga)
                   THEN NmeaGga(thePlace, TokenOfLine) ELSE thePlace
    /\ theVTG' = IF Parses(Vtg)
                 THEN NmeaVtg(theVTG, TokenOfLine) ELSE theVTG
    /\ buffer' = IF Parsed = {} THEN buffer ELSE Lines(Strtoked(Memory, Start))
    /\ process_required' = FALSE
    /\ rtc' = IF SetsRtc(TimeAfterTick) THEN CTime(TimeAfterTick) ELSE rtc
    /\ UNCHANGED <<envVars, active_buffer, rx_buffer_in, lastByte,
                   wrapped, raw, lastLine>>

PpsIrq ==
    /\ PpsInUse /\ ~blocked /\ pulses < MaxPulses
    /\ \E days \in DaysRead(theTime) : theTime' = PlusSecond(theTime, days)
    /\ pulses' = pulses + 1
    /\ UNCHANGED <<wire, fifo, blocked, held, presses, rxVars, process_required,
                   thePlace, theVTG, rtc>>

-----------------------------------------------------------------------------
Init ==
    /\ wire = <<>> /\ fifo = <<>> /\ blocked = FALSE
    /\ held = 0 /\ presses = 0 /\ pulses = 0
    /\ buffer = [b \in {0, 1} |-> [i \in 0 .. BufLen - 1 |-> Nul]]
    /\ active_buffer = 0 /\ rx_buffer_in = 0
    /\ lastByte = Nul /\ process_required = FALSE
    /\ theTime = InitTime /\ thePlace = InitPlace /\ theVTG = InitTrack
    /\ rtc = None
    /\ wrapped = FALSE /\ raw = <<>> /\ lastLine = <<>>

Next ==
    \/ \E s \in Sentences : Transmit(s)
    \/ UartIn \/ UartOverrun
    \/ KeypadEnter \/ KeypadLeave
    \/ RxIrq \/ Ticktock \/ PpsIrq

Spec == Init /\ [][Next]_vars

(***************************************************************************)
(* The handler of the keypad ends by itself.  The interrupt of the ticker  *)
(* stays pending while it runs and has the lower exception number, so that *)
(* it is taken before another one of the keypad: SF.  TickParses describes *)
(* the steps of Ticktock that have a line to parse, no other action resets *)
(* process_required.                                                       *)
(***************************************************************************)
TickParses == ~blocked /\ process_required /\ process_required' = FALSE

Fairness == WF_vars(KeypadLeave) /\ SF_process_required(TickParses)

FairSpec == Spec /\ Fairness

-----------------------------------------------------------------------------
(* Properties *)

TypeOK ==
    /\ wire \in Seq(Cell) /\ fifo \in Seq(Cell) /\ blocked \in BOOLEAN
    /\ held \in Nat /\ presses \in Nat /\ pulses \in Nat
    /\ buffer \in [{0, 1} -> [0 .. BufLen - 1 -> Cell]]
    /\ active_buffer \in {0, 1} /\ rx_buffer_in \in 0 .. BufLen - 1
    /\ lastByte \in Cell /\ process_required \in BOOLEAN
    /\ theTime \in Time /\ thePlace \in Place /\ theVTG \in Track
    /\ wrapped \in BOOLEAN /\ raw \in Seq(Cell) /\ lastLine \in Seq(Cell)

ZeroFilled == [s \in Sentences |-> Line(s.address, Filled(s.fields))]

\* From the interrupt that completes a line until ticktock parses it, the
\* passive buffer begins with that line, a zero in each empty field, whatever
\* comes in meanwhile and whatever older lines left behind in the buffer
\* (rx_irq, GPS.cpp:214-234).
PassiveHoldsLine ==
    process_required =>
        \A s \in Sentences : lastLine = Bytes[s] =>
            LET z == ZeroFilled[s]
            IN  /\ Len(z) <= BufLen
                /\ \A i \in DOMAIN z : buffer[Passive][i - 1] = z[i]

\* A line that waits to be parsed contains a line feed: the loops
\* "for(i = 0; s[i] != '\n'; i++)" of ticktock (GPS.cpp:140) stay inside the
\* buffer, even after bytes were lost or the line wrapped around.
LineTerminated ==
    process_required => \E i \in 0 .. BufLen - 1 : buffer[Passive][i] = LF

\* Parsing one buffer never writes into the one that is being filled
\* (strtok in ticktock against rx_irq, GPS.cpp:137, 215, 223), as long as no
\* line has been so long that it filled its buffer.
ParseStaysPassive ==
    [][process_required /\ ~process_required' /\ ~wrapped
         => buffer'[active_buffer] = buffer[active_buffer]]_vars

\* The same without the proviso: ticktock processes the "passive" buffer
\* (GPS.h:509) while rx_irq writes to the "active" one (GPS.h:503).
ActiveUntouched ==
    [][process_required /\ ~process_required'
         => buffer'[active_buffer] = buffer[active_buffer]]_vars

\* A time that the receiver has marked valid is a time of day of the
\* calendar: the zero pushed into an empty field is never read as one
\* (nmea_rmc, GPS_Time.cpp:157-164).
ValidTimeInRange ==
    theTime.status = Valid =>
        /\ theTime.hour \in 0 .. 23 /\ theTime.minute \in 0 .. 59
        /\ theTime.second \in 0 .. 59
        /\ theTime.month \in 1 .. 12 /\ theTime.day \in 1 .. 31

Feed == INSTANCE GpsFeed WITH
            line <- raw, mail <- lastLine, full <- process_required,
            time <- FractionalReset(theTime), place <- thePlace, track <- theVTG

\* The double-buffered driver implements the mailbox: every sentence that was
\* read as it was sent is applied at most once, field by field, and no field
\* mixes two sentences (GPS.cpp:127-237).
ImplementsFeed == Feed!Spec

\* The program sets the real-time clock only to a full minute that the
\* receiver has reported as valid (GPS.cpp:182-185), when no PPS is attached.
RtcReported ==
    rtc # None =>
        \E s \in Sentences : s.address = Rmc /\ Feed!TextOf(s, 2) = Valid
                             /\ rtc = CTime(Feed!TimeOf(s)) /\ rtc.second = 0

\* A position or a velocity that has come in whole is applied or replaced by a
\* later line, however often the keypad holds the interrupts back (ticktock,
\* GPS.cpp:137-165).
SentenceIsApplied ==
    \A s \in {t \in Sentences : t.address \in {Gga, Vtg}} :
        (process_required /\ lastLine = Bytes[s])
            ~> \/ lastLine # Bytes[s]
               \/ s.address = Gga /\ thePlace = Feed!PlaceOf(s)
               \/ s.address = Vtg /\ theVTG = Feed!TrackOf(s)

\* "Increment the time/date by one second" (GPS.cpp:194): after a pulse the
\* date and the time are those of the following second.
PulseIsOneSecond ==
    [][pulses' # pulses /\ theTime.status = Valid
         => Ordinal(theTime') = Ordinal(theTime) + 1]_vars
=============================================================================
