----------------------------- MODULE GPS_proofs -----------------------------
(***************************************************************************)
(* Theorems about GPS, for every buffer length, depth of the FIFO, set of  *)
(* sentences and reading of their texts.                                   *)
(***************************************************************************)
EXTENDS GPS, GPS_Time_proofs, FiniteSetTheorems, FunctionTheorems

\* What a sentence puts on the wire is a sequence of cells.
LEMMA LineType ==
    ASSUME NEW a \in Cell, NEW f \in Seq(Field)
    PROVE  Line(a, f) \in Seq(Cell)
<1> DEFINE end   == CommaAt(f, Len(f) + 1)
           at(k) == {i \in 1 .. Len(f) : CommaAt(f, i) + 1 = k /\ f[i] # Empty}
           cell(k) == IF k = 1 THEN a
                      ELSE IF k = end THEN CheckSum
                      ELSE IF k = end + 1 THEN LF
                      ELSE IF at(k) # {} THEN f[CHOOSE i \in at(k) : TRUE][1]
                      ELSE Comma
<1>1. end + 1 \in Nat
  <2>1. IsFiniteSet(1 .. Len(f))
    BY FS_Interval
  <2>2. Cardinality({j \in 1 .. Len(f) : f[j] # Empty}) \in Nat
    BY <2>1, FS_Subset, FS_CardinalityType
  <2> QED
    BY <2>2 DEF CommaAt
<1>2. ASSUME NEW k \in 1 .. end + 1 PROVE cell(k) \in Cell
  <2>1. CASE at(k) = {}
    BY <2>1, CellFacts
  <2>2. CASE at(k) # {}
    <3> DEFINE i == CHOOSE j \in at(k) : TRUE
    <3>1. i \in 1 .. Len(f) /\ f[i] # Empty
      BY <2>2
    <3>2. f[i][1] \in Data \cup {Zero}
      <4> HIDE DEF i
      <4>1. f[i] \in Field
        BY <3>1
      <4> QED
        BY <4>1, <3>1 DEF Field
    <3> QED
      BY <3>2, CellFacts
  <2> QED
    BY <2>1, <2>2
<1>3. Line(a, f) = [k \in 1 .. end + 1 |-> cell(k)]
  BY DEF Line
<1> HIDE DEF end, cell
<1> QED
  BY <1>1, <1>2, <1>3

LEMMA BytesType == ASSUME NEW s \in Sentences PROVE Bytes[s] \in Seq(Cell)
BY LineType, GpsConstants, CellFacts DEF Bytes

-----------------------------------------------------------------------------
(* Tokens and parsers *)

\* Every token is a sequence of cells.
LEMMA TokenType ==
    ASSUME NEW n \in Nat, NEW mem \in [0 .. n - 1 -> Cell],
           NEW starts \in SUBSET (0 .. n - 1), NEW ends \in SUBSET (0 .. n - 1),
           NEW c
    PROVE  Token(mem, starts, ends, c) \in Seq(Cell)
<1> DEFINE spans == {s \in Nth(starts, c) \X Nth(ends, c) : s[1] <= s[2]}
           s == CHOOSE r \in spans : TRUE
<1>1. CASE spans = {}
  BY <1>1 DEF Token, Empty
<1>2. CASE spans # {}
  <2>1. s \in spans
    BY <1>2
  <2> HIDE DEF s
  <2>2. s[1] \in 0 .. n - 1 /\ s[2] \in 0 .. n - 1 /\ s[1] <= s[2]
    BY <2>1 DEF Nth
  <2>3. Token(mem, starts, ends, c)
           = [k \in 1 .. s[2] - s[1] + 1 |-> mem[s[1] + k - 1]]
    BY <1>2 DEF Token, s
  <2>4. \A k \in 1 .. s[2] - s[1] + 1 : mem[s[1] + k - 1] \in Cell
    BY <2>2
  <2> QED
    BY <2>2, <2>3, <2>4
<1> QED
  BY <1>1, <1>2

\* The two other parsers return objects of their classes.
LEMMA GgaType ==
    ASSUME NEW p \in Place, NEW token \in Texts12
    PROVE  NmeaGga(p, token) \in Place
<1>1. \A n \in 0 .. 11 : /\ token[n] \in Number
                         /\ FirstChar(token[n]) \in Cell
                         /\ NumberOf(token[n]) \in Number
  BY CharType, NumberType DEF Texts12, Number
<1>2. AngleOf(token[2], token[3]) \in Angle /\ AngleOf(token[4], token[5]) \in Angle
  BY <1>1 DEF AngleOf, Angle
<1>3. token[9] \in Number /\ token[7] \in Number /\ NumberOf(token[6]) \in Number
  BY <1>1
<1>4. <<Zero>> \in Number
  BY CellFacts DEF Number
<1> QED
  BY <1>2, <1>3, <1>4, Zenon DEF NmeaGga, Place

LEMMA VtgType ==
    ASSUME NEW v \in Track, NEW token \in Texts12
    PROVE  NmeaVtg(v, token) \in Track
BY DEF NmeaVtg, Track, Number, Texts12

-----------------------------------------------------------------------------
(* The buffers *)

Buffers == [{0, 1} -> [0 .. BufLen - 1 -> Cell]]

\* A byte and the '0' before it go to cells of the line, and to no others.
LEMMA StoredType ==
    ASSUME TypeOK, NEW c \in Cell
    PROVE  /\ At(c) \in 0 .. BufLen - 1
           /\ Wrap(At(c)) \in 0 .. BufLen - 1
           /\ Stored(buffer[active_buffer], c) \in [0 .. BufLen - 1 -> Cell]
           /\ \A i \in 0 .. BufLen - 1 : i \notin Written(c) =>
                 Stored(buffer[active_buffer], c)[i] = buffer[active_buffer][i]
           /\ c = LF => Stored(buffer[active_buffer], c)[rx_buffer_in] = LF
<1>1. \A i \in 0 .. BufLen - 1 : Wrap(i) \in 0 .. BufLen - 1
  BY GpsConstants DEF Wrap
<1>2. rx_buffer_in \in 0 .. BufLen - 1
  BY DEF TypeOK
<1>3. At(c) \in 0 .. BufLen - 1
  BY <1>1, <1>2 DEF At
<1>4. buffer[active_buffer] \in [0 .. BufLen - 1 -> Cell]
  BY DEF TypeOK
<1>5. CASE Repeated(c)
  <2>1. c # LF
    BY <1>5, CellFacts DEF Repeated
  <2> QED
    BY <1>1, <1>2, <1>3, <1>4, <1>5, <2>1, CellFacts DEF Stored, Written
<1>6. CASE ~Repeated(c)
  BY <1>1, <1>2, <1>3, <1>4, <1>6 DEF Stored, Written, At
<1> QED
  BY <1>5, <1>6

LEMMA MemoryRead ==
    \A i \in 0 .. 2 * BufLen - 1 : Memory[i] =
        IF i < BufLen THEN buffer[0][i] ELSE buffer[1][i - BufLen]
BY Zenon DEF Memory

LEMMA MemoryType ==
    ASSUME buffer \in Buffers
    PROVE  Memory \in [0 .. 2 * BufLen - 1 -> Cell]
<1>1. ASSUME NEW i \in 0 .. 2 * BufLen - 1
      PROVE  (IF i < BufLen THEN buffer[0][i] ELSE buffer[1][i - BufLen]) \in Cell
  <2>1. CASE i < BufLen
    BY <2>1, GpsConstants DEF Buffers
  <2>2. CASE ~(i < BufLen)
    <3>1. i - BufLen \in 0 .. BufLen - 1
      BY <2>2, GpsConstants
    <3> QED
      BY <2>2, <3>1 DEF Buffers
  <2> QED
    BY <2>1, <2>2
<1> QED
  BY <1>1 DEF Memory

LEMMA StrtokedType ==
    ASSUME buffer \in Buffers, NEW p
    PROVE  /\ Strtoked(Memory, p) \in [0 .. 2 * BufLen - 1 -> Cell]
           /\ Lines(Strtoked(Memory, p)) \in Buffers
<1>1. Memory \in [0 .. 2 * BufLen - 1 -> Cell]
  BY MemoryType
<1>2. Strtoked(Memory, p) \in [0 .. 2 * BufLen - 1 -> Cell]
  BY <1>1, CellFacts DEF Strtoked
<1> DEFINE mem == Strtoked(Memory, p)
<1> HIDE DEF mem
<1>3. mem \in [0 .. 2 * BufLen - 1 -> Cell]
  BY <1>2 DEF mem
<1>4. \A i \in 0 .. BufLen - 1 : i \in 0 .. 2 * BufLen - 1
                              /\ BufLen + i \in 0 .. 2 * BufLen - 1
  BY GpsConstants
<1>5. \A i \in 0 .. BufLen - 1 : mem[i] \in Cell /\ mem[BufLen + i] \in Cell
  BY <1>3, <1>4
<1>6. Lines(mem) \in Buffers
  BY <1>5 DEF Lines, Buffers
<1> QED
  BY <1>2, <1>6 DEF mem

LEMMA TokensType ==
    ASSUME buffer \in Buffers
    PROVE  TokenOfLine \in Texts12
<1> DEFINE L == 2 * BufLen
           text   == Text(Memory, Start)
           starts == Starts(Memory, text, Start)
           ends   == Ends(Memory, text)
<1>1. L \in Nat /\ Memory \in [0 .. L - 1 -> Cell]
  BY MemoryType, GpsConstants
<1>2. text \in SUBSET (0 .. L - 1)
  BY <1>1 DEF Text
<1>3. starts \in SUBSET (0 .. L - 1) /\ ends \in SUBSET (0 .. L - 1)
  BY <1>2 DEF Starts, Ends
<1>4. TokenOfLine = [n \in 0 .. 11 |-> Token(Memory, starts, ends, n)]
  BY DEF TokenOfLine
<1> HIDE DEF L, starts, ends
<1>5. \A n \in 0 .. 11 : Token(Memory, starts, ends, n) \in Seq(Cell)
  BY <1>1, <1>3, TokenType
<1> QED
  BY <1>4, <1>5 DEF Texts12

-----------------------------------------------------------------------------
(* Type correctness *)

LEMMA SeqFacts ==
    /\ <<>> \in Seq(Cell)
    /\ \A q \in Seq(Cell), c \in Cell : Append(q, c) \in Seq(Cell)
OBVIOUS

LEMMA InitType == Init => TypeOK
<1> SUFFICES ASSUME Init PROVE TypeOK
  OBVIOUS
<1>1. <<Zero>> \in Number
  BY CellFacts DEF Number
<1>2. 0 \in 0 .. Radix - 1 /\ 0 \in 0 .. BufLen - 1
  BY RadixType, GpsConstants
<1>3. InitTime \in Time
  BY <1>1, <1>2, CellFacts DEF InitTime, Time
<1>4. InitPlace \in Place /\ InitTrack \in Track
  BY <1>1, CellFacts DEF InitPlace, InitTrack, Place, Track, Angle
<1>5. buffer \in [{0, 1} -> [0 .. BufLen - 1 -> Cell]]
  BY CellFacts DEF Init
<1>6. wire \in Seq(Cell) /\ fifo \in Seq(Cell) /\ raw \in Seq(Cell) /\ lastLine \in Seq(Cell)
  BY DEF Init
<1>7. /\ blocked \in BOOLEAN /\ process_required \in BOOLEAN /\ wrapped \in BOOLEAN
      /\ held \in Nat /\ presses \in Nat /\ pulses \in Nat
      /\ active_buffer \in {0, 1} /\ rx_buffer_in \in 0 .. BufLen - 1 /\ lastByte \in Cell
  BY <1>2, CellFacts DEF Init
<1>8. theTime \in Time /\ thePlace \in Place /\ theVTG \in Track
  BY <1>3, <1>4, Zenon DEF Init
<1> QED
  BY <1>5, <1>6, <1>7, <1>8, Zenon DEF TypeOK

LEMMA TransmitType == ASSUME TypeOK, NEW s \in Sentences, Transmit(s) PROVE TypeOK'
BY BytesType DEF Transmit, TypeOK, rxVars, appVars

LEMMA UartType == ASSUME TypeOK, UartIn \/ UartOverrun PROVE TypeOK'
<1>1. Arrives /\ wire # <<>> /\ wire' = Tail(wire)
  BY DEF UartIn, UartOverrun, Arrives
<1>2. Head(wire) \in Cell /\ Tail(wire) \in Seq(Cell)
  BY <1>1 DEF TypeOK
<1>3. fifo' = fifo \/ fifo' = Append(fifo, Head(wire))
  BY DEF UartIn, UartOverrun
<1>4. wire' \in Seq(Cell) /\ fifo' \in Seq(Cell)
  <2>1. fifo \in Seq(Cell)
    BY DEF TypeOK
  <2> QED
    BY <1>1, <1>2, <1>3, <2>1, SeqFacts, Zenon
<1>5. held' \in Nat
  BY DEF TypeOK, UartIn, UartOverrun, Arrives
<1> QED
  BY <1>4, <1>5 DEF TypeOK, UartIn, UartOverrun, Arrives, rxVars, appVars

LEMMA KeypadType == ASSUME TypeOK, KeypadEnter \/ KeypadLeave PROVE TypeOK'
<1>1. /\ blocked' = TRUE \/ blocked' = FALSE
      /\ held' = held \/ held' = 0
      /\ presses' = presses \/ presses' = presses + 1
  BY DEF KeypadEnter, KeypadLeave
<1>2. UNCHANGED <<wire, fifo, pulses, rxVars, process_required, appVars>>
  BY DEF KeypadEnter, KeypadLeave
<1> QED
  <2>1. held' \in Nat /\ presses' \in Nat
    BY <1>1 DEF TypeOK
  <2>2. blocked' \in BOOLEAN
    BY <1>1
  <2> QED
    BY <1>2, <2>1, <2>2 DEF TypeOK, rxVars, appVars

LEMMA RxIrqType == ASSUME TypeOK, RxIrq PROVE TypeOK'
<1> DEFINE c == Head(fifo)
<1>1. c \in Cell /\ Tail(fifo) \in Seq(Cell)
  BY DEF TypeOK, RxIrq
<1>2. buffer' \in Buffers
  BY <1>1, StoredType DEF TypeOK, RxIrq, Buffers
<1>3. /\ active_buffer' \in {0, 1}
      /\ rx_buffer_in' \in 0 .. BufLen - 1
  <2>1. active_buffer \in {0, 1}
    BY DEF TypeOK
  <2>2. 0 \in 0 .. BufLen - 1
    BY GpsConstants
  <2>3. Wrap(At(c)) \in 0 .. BufLen - 1
    BY <1>1, StoredType
  <2>4. CASE c = LF
    <3>1. active_buffer' = 1 - active_buffer /\ rx_buffer_in' = 0
      BY <2>4 DEF RxIrq
    <3> QED
      BY <2>1, <2>2, <3>1
  <2>5. CASE c # LF
    <3>1. active_buffer' = active_buffer /\ rx_buffer_in' = Wrap(At(c))
      BY <2>5 DEF RxIrq
    <3> QED
      BY <2>1, <2>3, <3>1
  <2> QED
    BY <2>4, <2>5
<1>4. raw' \in Seq(Cell) /\ lastLine' \in Seq(Cell)
  <2>1. raw \in Seq(Cell) /\ lastLine \in Seq(Cell) /\ Append(raw, c) \in Seq(Cell)
    BY <1>1, SeqFacts DEF TypeOK
  <2>2. /\ raw' = <<>> \/ raw' = Append(raw, c)
        /\ lastLine' = Append(raw, c) \/ lastLine' = lastLine
    BY DEF RxIrq
  <2> QED
    BY <2>1, <2>2, SeqFacts, Zenon
<1>5. wrapped' \in BOOLEAN /\ process_required' \in BOOLEAN
  BY DEF TypeOK, RxIrq
<1>6. fifo' \in Seq(Cell) /\ lastByte' \in Cell
  BY <1>1 DEF RxIrq
<1> QED
  BY <1>2, <1>3, <1>4, <1>5, <1>6 DEF TypeOK, RxIrq, appVars, Buffers

LEMMA TicktockType == ASSUME TypeOK, Ticktock PROVE TypeOK'
<1>1. buffer \in Buffers /\ theTime \in Time /\ thePlace \in Place /\ theVTG \in Track
  BY DEF TypeOK, Buffers
<1>2. TokenOfLine \in Texts12
  BY <1>1, TokensType
<1>3. TimeAfterTick \in Time
  BY <1>1, <1>2, PlusHundredthType, RmcType, FractionalResetType DEF TimeAfterTick, AfterRmc
<1>4. thePlace' \in Place /\ theVTG' \in Track
  BY <1>1, <1>2, GgaType, VtgType DEF Ticktock
<1>5. buffer' \in Buffers
  BY <1>1, StrtokedType DEF Ticktock
<1> QED
  BY <1>3, <1>4, <1>5 DEF TypeOK, Ticktock, envVars, Buffers

LEMMA PpsIrqType == ASSUME TypeOK, PpsIrq PROVE TypeOK'
<1>1. theTime' \in Time
  BY PlusSecondType DEF TypeOK, PpsIrq
<1>2. pulses' \in Nat
  BY DEF TypeOK, PpsIrq
<1> QED
  BY <1>1, <1>2 DEF TypeOK, PpsIrq, rxVars

\* Every variable of the driver keeps its type: rx_buffer_in stays inside the
\* buffer, what the parsers return is an object of its class, and the two
\* counters of the fraction stay below Radix.
THEOREM TypeCorrect == Spec => []TypeOK
<1>1. TypeOK /\ [Next]_vars => TypeOK'
  <2> SUFFICES ASSUME TypeOK, [Next]_vars PROVE TypeOK'
    OBVIOUS
  <2>1. CASE UNCHANGED vars
    BY <2>1 DEF TypeOK, vars
  <2>2. CASE Next
    BY <2>2, TransmitType, UartType, KeypadType, RxIrqType, TicktockType,
       PpsIrqType DEF Next
  <2> QED
    BY <2>1, <2>2
<1> QED
  BY <1>1, InitType, PTL DEF Spec

-----------------------------------------------------------------------------
(* The passive buffer *)

\* A line that waits to be parsed contains a line feed, whatever bytes were
\* lost and however long the line was: the copying loops of ticktock end
\* inside the buffer.
THEOREM PassiveTerminated == Spec => []LineTerminated
<1>1. Init => LineTerminated
  BY DEF Init, LineTerminated
<1>2. TypeOK /\ LineTerminated /\ [Next]_vars => LineTerminated'
  <2> SUFFICES ASSUME TypeOK, LineTerminated, [Next]_vars PROVE LineTerminated'
    OBVIOUS
  <2>1. CASE UNCHANGED <<buffer, active_buffer, process_required>>
    BY <2>1 DEF LineTerminated, Passive
  <2>2. CASE RxIrq
    <3> DEFINE c == Head(fifo)
    <3>1. c \in Cell /\ active_buffer \in {0, 1} /\ rx_buffer_in \in 0 .. BufLen - 1
      BY <2>2 DEF TypeOK, RxIrq
    <3>2. buffer' = [buffer EXCEPT ![active_buffer] = Stored(buffer[active_buffer], c)]
      BY <2>2 DEF RxIrq
    <3>3. CASE c = LF
      <4>1. Passive' = active_buffer
        BY <2>2, <3>1, <3>3 DEF RxIrq, Passive
      <4>2. buffer'[active_buffer][rx_buffer_in] = LF
        BY <3>1, <3>2, <3>3, StoredType DEF TypeOK
      <4> QED
        BY <3>1, <4>1, <4>2 DEF LineTerminated
    <3>4. CASE c # LF
      <4>1. UNCHANGED <<active_buffer, process_required>>
        BY <2>2, <3>4 DEF RxIrq
      <4>2. buffer'[Passive] = buffer[Passive]
        BY <3>1, <3>2 DEF TypeOK, Passive
      <4> QED
        BY <4>1, <4>2 DEF LineTerminated, Passive
    <3> QED
      BY <3>3, <3>4
  <2>3. CASE Ticktock
    BY <2>3 DEF Ticktock, LineTerminated
  <2>4. CASE PpsIrq
    BY <2>1, <2>4 DEF PpsIrq, rxVars
  <2>5. CASE KeypadEnter \/ KeypadLeave \/ UartIn \/ UartOverrun
    BY <2>1, <2>5 DEF KeypadEnter, KeypadLeave, UartIn, UartOverrun, Arrives, rxVars
  <2>6. CASE \E s \in Sentences : Transmit(s)
    BY <2>1, <2>6 DEF Transmit, rxVars
  <2> QED
    BY <2>1, <2>2, <2>3, <2>4, <2>5, <2>6 DEF Next, vars
<1> QED
  BY <1>1, <1>2, TypeCorrect, PTL DEF Spec

\* Until a line fills its buffer, each buffer ends in a NUL.
NulGuard == ~wrapped => \A b \in {0, 1} : buffer[b][BufLen - 1] = Nul

LEMMA StrtokedKeepsNul ==
    ASSUME buffer \in Buffers, NEW b \in {0, 1}, NEW p,
           buffer[b][BufLen - 1] = Nul
    PROVE  Lines(Strtoked(Memory, p))[b][BufLen - 1] = Nul
<1> DEFINE i == IF b = 0 THEN BufLen - 1 ELSE 2 * BufLen - 1
<1>1. i \in 0 .. 2 * BufLen - 1 /\ BufLen - 1 \in 0 .. BufLen - 1
  BY GpsConstants
<1>2. Memory[i] = Nul
  BY GpsConstants DEF Memory
<1>3. Strtoked(Memory, p)[i] = Nul
  BY <1>1, <1>2, CellFacts DEF Strtoked, Memory
<1>4. Lines(Strtoked(Memory, p))[b][BufLen - 1] = Strtoked(Memory, p)[i]
  BY <1>1, GpsConstants DEF Lines
<1> QED
  BY <1>3, <1>4

LEMMA NulGuardInductive ==
    ASSUME TypeOK, NulGuard, [Next]_vars
    PROVE  NulGuard'
<1>1. CASE UNCHANGED <<buffer, wrapped>>
  BY <1>1 DEF NulGuard
<1>2. CASE RxIrq
  <2> SUFFICES ASSUME ~wrapped', NEW b \in {0, 1}
               PROVE  buffer'[b][BufLen - 1] = Nul
    BY DEF NulGuard
  <2> DEFINE c == Head(fifo)
  <2>1. c \in Cell /\ active_buffer \in {0, 1} /\ BufLen - 1 \in 0 .. BufLen - 1
    BY <1>2, GpsConstants DEF TypeOK, RxIrq
  <2>2. ~wrapped /\ BufLen - 1 \notin Written(c)
    BY <1>2 DEF RxIrq
  <2>3. buffer[b][BufLen - 1] = Nul
    BY <2>2 DEF NulGuard
  <2>4. buffer' = [buffer EXCEPT ![active_buffer] = Stored(buffer[active_buffer], c)]
    BY <1>2 DEF RxIrq
  <2>5. CASE b = active_buffer
    BY <2>1, <2>2, <2>3, <2>4, <2>5, StoredType DEF TypeOK
  <2>6. CASE b # active_buffer
    BY <2>3, <2>4, <2>6 DEF TypeOK
  <2> QED
    BY <2>5, <2>6
<1>3. CASE Ticktock
  <2> SUFFICES ASSUME ~wrapped', NEW b \in {0, 1}
               PROVE  buffer'[b][BufLen - 1] = Nul
    BY DEF NulGuard
  <2>1. buffer[b][BufLen - 1] = Nul
    BY <1>3 DEF Ticktock, NulGuard
  <2>2. buffer \in Buffers
    BY DEF TypeOK, Buffers
  <2>3. Lines(Strtoked(Memory, Start))[b][BufLen - 1] = Nul
    BY <2>1, <2>2, StrtokedKeepsNul
  <2> QED
    BY <1>3, <2>1, <2>3 DEF Ticktock
<1>4. CASE PpsIrq
  BY <1>1, <1>4 DEF PpsIrq, rxVars
<1>5. CASE KeypadEnter \/ KeypadLeave \/ UartIn \/ UartOverrun
  BY <1>1, <1>5 DEF KeypadEnter, KeypadLeave, UartIn, UartOverrun, Arrives, rxVars
<1>6. CASE \E s \in Sentences : Transmit(s)
  BY <1>1, <1>6 DEF Transmit, rxVars
<1> QED
  BY <1>1, <1>2, <1>3, <1>4, <1>5, <1>6 DEF Next, vars

\* strtok stops at the NUL that ends its buffer.
LEMMA StrtokedStaysPassive ==
    ASSUME TypeOK, \A b \in {0, 1} : buffer[b][BufLen - 1] = Nul
    PROVE  Lines(Strtoked(Memory, Start))[active_buffer] = buffer[active_buffer]
<1> DEFINE new == Lines(Strtoked(Memory, Start))
<1>1. buffer \in Buffers /\ active_buffer \in {0, 1}
  BY DEF TypeOK, Buffers
<1>2. new \in Buffers
  BY <1>1, StrtokedType
<1>3. ASSUME NEW i \in 0 .. BufLen - 1
      PROVE  new[active_buffer][i] = buffer[active_buffer][i]
  <2>1. CASE active_buffer = 0
    <3>1. Start = BufLen
      BY <2>1 DEF Start, Passive
    <3>2. i \notin Text(Memory, Start) /\ i \in 0 .. 2 * BufLen - 1
      BY <3>1, GpsConstants DEF Text, Memory
    <3>3. new[0][i] = Memory[i]
      BY <3>2 DEF Lines, Strtoked, Memory
    <3> QED
      BY <2>1, <3>2, <3>3, GpsConstants DEF Memory
  <2>2. CASE active_buffer = 1
    <3>1. Start = 0
      BY <2>2 DEF Start, Passive
    <3>2. /\ BufLen - 1 \in 0 .. 2 * BufLen - 1 /\ BufLen + i \in 0 .. 2 * BufLen - 1
          /\ ~(BufLen + i < BufLen - 1) /\ ~(BufLen + i < BufLen)
          /\ (BufLen + i) - BufLen = i
      BY GpsConstants
    <3>3. Memory[BufLen - 1] = Nul
      BY <3>2, GpsConstants DEF Memory
    <3>4. BufLen + i \notin Text(Memory, Start)
      BY <3>1, <3>2, <3>3, GpsConstants DEF Text, Memory
    <3>5. new[1][i] = Memory[BufLen + i]
      BY <3>2, <3>4 DEF Lines, Strtoked, Memory
    <3>6. Memory[BufLen + i] = buffer[1][(BufLen + i) - BufLen]
      <4> DEFINE j == BufLen + i
      <4>1. j \in 0 .. 2 * BufLen - 1 /\ ~(j < BufLen)
        BY <3>2
      <4> HIDE DEF j
      <4>2. Memory[j] = buffer[1][j - BufLen]
        BY <4>1, MemoryRead, Zenon
      <4> QED
        BY <4>2 DEF j
    <3>7. Memory[BufLen + i] = buffer[1][i]
      BY <3>2, <3>6, Zenon
    <3> QED
      BY <2>2, <3>5, <3>7
  <2> QED
    BY <1>1, <2>1, <2>2
<1>4. /\ new[active_buffer] \in [0 .. BufLen - 1 -> Cell]
      /\ buffer[active_buffer] \in [0 .. BufLen - 1 -> Cell]
  BY <1>1, <1>2 DEF Buffers
<1> DEFINE f == new[active_buffer]
           g == buffer[active_buffer]
<1>5. \A i \in 0 .. BufLen - 1 : f[i] = g[i]
  BY <1>3
<1> HIDE DEF new, f, g
<1>6. f \in [0 .. BufLen - 1 -> Cell] /\ g \in [0 .. BufLen - 1 -> Cell]
  BY <1>4 DEF f, g
<1>7. /\ f = [i \in 0 .. BufLen - 1 |-> f[i]]
      /\ g = [i \in 0 .. BufLen - 1 |-> g[i]]
  BY <1>6
<1>8. f = g
  BY <1>5, <1>7, Zenon
<1> QED
  BY <1>8 DEF new, f, g

\* Parsing a line leaves the buffer that is being filled alone, as long as no
\* line has filled its buffer: the double buffering needs no lock.
THEOREM ParseIsConfined == Spec => ParseStaysPassive
<1>1. Init => NulGuard
  BY GpsConstants DEF Init, NulGuard
<1>2. TypeOK /\ NulGuard /\ [Next]_vars => NulGuard'
  BY NulGuardInductive
<1>3. TypeOK /\ NulGuard /\ [Next]_vars =>
        [process_required /\ ~process_required' /\ ~wrapped
           => buffer'[active_buffer] = buffer[active_buffer]]_vars
  <2> SUFFICES ASSUME TypeOK, NulGuard, Next,
                      process_required, ~process_required', ~wrapped
               PROVE  buffer'[active_buffer] = buffer[active_buffer]
    OBVIOUS
  <2>1. \A b \in {0, 1} : buffer[b][BufLen - 1] = Nul
    BY DEF NulGuard
  <2>2. CASE Ticktock
    BY <2>1, <2>2, StrtokedStaysPassive DEF Ticktock
  <2>3. CASE ~Ticktock
    <3>1. process_required' = process_required \/ process_required' = TRUE
      BY <2>3 DEF Next, Transmit, UartIn, UartOverrun, Arrives, KeypadEnter,
                  KeypadLeave, RxIrq, PpsIrq
    <3> QED
      BY <3>1
  <2> QED
    BY <2>2, <2>3
<1> QED
  BY <1>1, <1>2, <1>3, TypeCorrect, PTL DEF Spec, ParseStaysPassive

-----------------------------------------------------------------------------
(* Where the cells of a sentence stand *)

Texts(f, i) == {j \in 1 .. i - 1 : f[j] # Empty}

LEMMA TextsCounted ==
    ASSUME NEW f, NEW i, i \in Nat
    PROVE  IsFiniteSet(Texts(f, i)) /\ Cardinality(Texts(f, i)) \in Nat
<1>1. IsFiniteSet(1 .. i - 1)
  BY FS_Interval
<1>2. Texts(f, i) \in SUBSET (1 .. i - 1)
  BY DEF Texts
<1> QED
  BY <1>1, <1>2, FS_Subset, FS_CardinalityType

\* A field is its comma and, unless it is empty, one cell more.
LEMMA NextComma ==
    ASSUME NEW f, NEW i, i \in Nat \ {0}
    PROVE  CommaAt(f, i + 1) = CommaAt(f, i) + (IF f[i] = Empty THEN 1 ELSE 2)
<1>1. Texts(f, i + 1) = IF f[i] = Empty THEN Texts(f, i) ELSE Texts(f, i) \cup {i}
  BY DEF Texts
<1>2. i \notin Texts(f, i)
  BY DEF Texts
<1>3. Cardinality(Texts(f, i) \cup {i}) = Cardinality(Texts(f, i)) + 1
  BY <1>2, TextsCounted, FS_AddElement
<1>4. Cardinality(Texts(f, i)) \in Nat
  BY TextsCounted
<1>5. /\ CommaAt(f, i) = 1 + i + Cardinality(Texts(f, i))
      /\ CommaAt(f, i + 1) = 1 + (i + 1) + Cardinality(Texts(f, i + 1))
  BY DEF CommaAt, Texts
<1> HIDE DEF Texts
<1> QED
  BY <1>1, <1>3, <1>4, <1>5

LEMMA CommaType ==
    ASSUME NEW f, NEW i, i \in Nat \ {0}
    PROVE  CommaAt(f, i) \in Nat /\ CommaAt(f, i) >= 2
<1>1. Cardinality(Texts(f, i)) \in Nat
  BY TextsCounted
<1>2. CommaAt(f, i) = 1 + i + Cardinality(Texts(f, i))
  BY DEF CommaAt, Texts
<1> QED
  BY <1>1, <1>2

LEMMA FirstComma == ASSUME NEW f PROVE CommaAt(f, 1) = 2
<1>1. {j \in 1 .. 1 - 1 : f[j] # Empty} = {}
  OBVIOUS
<1> QED
  BY <1>1, FS_EmptySet DEF CommaAt

LEMMA CommasGrow ==
    ASSUME NEW f, NEW i, NEW j, i \in Nat \ {0}, j \in Nat \ {0}, i <= j
    PROVE  CommaAt(f, i) <= CommaAt(f, j)
<1>1. Texts(f, i) \in SUBSET Texts(f, j)
  BY DEF Texts
<1>2. IsFiniteSet(Texts(f, j))
  BY TextsCounted
<1>3. Cardinality(Texts(f, i)) <= Cardinality(Texts(f, j))
  BY <1>1, <1>2, FS_Subset
<1>4. Cardinality(Texts(f, i)) \in Nat /\ Cardinality(Texts(f, j)) \in Nat
  BY TextsCounted
<1>5. /\ CommaAt(f, i) = 1 + i + Cardinality(Texts(f, i))
      /\ CommaAt(f, j) = 1 + j + Cardinality(Texts(f, j))
  BY DEF CommaAt, Texts
<1> QED
  BY <1>3, <1>4, <1>5

\* A later comma stands behind the field of an earlier one.
LEMMA CommasApart ==
    ASSUME NEW f, NEW i, NEW j, i \in Nat \ {0}, j \in Nat \ {0}, i < j
    PROVE  CommaAt(f, i) + (IF f[i] = Empty THEN 1 ELSE 2) <= CommaAt(f, j)
<1>1. CommaAt(f, i + 1) <= CommaAt(f, j)
  BY CommasGrow
<1> QED
  BY <1>1, NextComma

LEMMA OnlyChoice == ASSUME NEW S, NEW x, S = {x} PROVE (CHOOSE y \in S : TRUE) = x
OBVIOUS

LEMMA LineCells ==
    ASSUME NEW a, NEW f, f \in Seq(Field)
    PROVE  LET l   == Line(a, f)
               end == CommaAt(f, Len(f) + 1)
           IN  /\ DOMAIN l = 1 .. end + 1 /\ Len(l) = end + 1
               /\ l[1] = a /\ l[end] = CheckSum /\ l[end + 1] = LF
               /\ \A i \in 1 .. Len(f) :
                     /\ l[CommaAt(f, i)] = Comma
                     /\ f[i] # Empty => l[CommaAt(f, i) + 1] = f[i][1]
<1> DEFINE n     == Len(f)
           end   == CommaAt(f, n + 1)
           at(k) == {i \in 1 .. n : CommaAt(f, i) + 1 = k /\ f[i] # Empty}
           cell(k) == IF k = 1 THEN a
                      ELSE IF k = end THEN CheckSum
                      ELSE IF k = end + 1 THEN LF
                      ELSE IF at(k) # {} THEN f[CHOOSE i \in at(k) : TRUE][1]
                      ELSE Comma
           l     == Line(a, f)
<1>1. n \in Nat
  OBVIOUS
<1>2. end \in Nat /\ end >= 2
  BY <1>1, CommaType
<1>3. l = [k \in 1 .. end + 1 |-> cell(k)]
  BY DEF Line
<1>4. DOMAIN l = 1 .. end + 1 /\ Len(l) = end + 1
  <2> HIDE DEF l, cell, end
  <2> QED
    BY <1>2, <1>3
<1>5. \A k \in 1 .. end + 1 : l[k] = cell(k)
  <2> HIDE DEF l, cell, end
  <2> QED
    BY <1>3
<1>6. l[1] = a /\ l[end] = CheckSum /\ l[end + 1] = LF
  <2>1. cell(1) = a /\ cell(end) = CheckSum /\ cell(end + 1) = LF
    BY <1>2
  <2> HIDE DEF l, cell, end
  <2> QED
    BY <1>2, <1>5, <2>1
<1>7. ASSUME NEW i \in 1 .. n
      PROVE  /\ l[CommaAt(f, i)] = Comma
             /\ f[i] # Empty => l[CommaAt(f, i) + 1] = f[i][1]
  <2> DEFINE k == CommaAt(f, i)
  <2>1. k \in Nat /\ k >= 2
    BY CommaType
  <2>2. k + (IF f[i] = Empty THEN 1 ELSE 2) <= end
    BY CommasApart
  <2>3. at(k) = {}
    <3> SUFFICES ASSUME NEW j \in 1 .. n, CommaAt(f, j) + 1 = k, f[j] # Empty PROVE FALSE
      OBVIOUS
    <3>1. CommaAt(f, j) \in Nat
      BY CommaType
    <3>2. CASE j < i
      BY <3>1, <3>2, CommasApart
    <3>3. CASE i <= j
      BY <2>1, <3>1, <3>3, CommasGrow
    <3> QED
      BY <3>2, <3>3
  <2>4. f[i] # Empty => at(k + 1) = {i}
    <3> SUFFICES ASSUME f[i] # Empty, NEW j \in 1 .. n, CommaAt(f, j) + 1 = k + 1 PROVE j = i
      BY <2>1
    <3>1. CommaAt(f, j) = k
      BY <2>1, CommaType
    <3>2. CASE j < i
      BY <2>1, <3>1, <3>2, CommasApart
    <3>3. CASE i < j
      BY <2>1, <3>1, <3>3, CommasApart
    <3> QED
      BY <3>2, <3>3
  <2>5. cell(k) = Comma
    <3> HIDE DEF at, end, k
    <3> QED
      BY <1>2, <2>1, <2>2, <2>3
  <2>6. f[i] # Empty => cell(k + 1) = f[i][1]
    <3> SUFFICES ASSUME f[i] # Empty PROVE cell(k + 1) = f[i][1]
      OBVIOUS
    <3>1. k + 1 < end /\ k + 1 # 1
      BY <1>2, <2>1, <2>2
    <3> HIDE DEF at, end, k
    <3>2. at(k + 1) # {}
      BY <2>4
    <3>3. (CHOOSE j \in at(k + 1) : TRUE) = i
      BY <2>4, OnlyChoice
    <3>4. cell(k + 1) = f[CHOOSE j \in at(k + 1) : TRUE][1]
      BY <1>2, <2>1, <3>1, <3>2
    <3> QED
      BY <3>3, <3>4, Zenon
  <2> HIDE DEF l, cell, end, k
  <2>7. k \in 1 .. end + 1 /\ (f[i] # Empty => k + 1 \in 1 .. end + 1)
    BY <1>2, <2>1, <2>2
  <2>8. l[k] = Comma /\ (f[i] # Empty => l[k + 1] = f[i][1])
    BY <1>5, <2>5, <2>6, <2>7
  <2> QED
    BY <2>8 DEF k
<1> QED
  BY <1>4, <1>6, <1>7

\* The sentence with its zeros: the fields stand at the odd places.
FilledEnd(f) ==
    IF Len(f) = 0 THEN 2 ELSE 2 * Len(f) + (IF f[Len(f)] = Empty THEN 1 ELSE 2)

LEMMA FilledCommas ==
    ASSUME NEW f, f \in Seq(Field)
    PROVE  /\ Filled(f) \in Seq(Field) /\ Len(Filled(f)) = Len(f)
           /\ \A i \in 1 .. Len(f) :
                 /\ Filled(f)[i] = IF f[i] = Empty /\ i < Len(f) THEN <<Zero>> ELSE f[i]
                 /\ CommaAt(Filled(f), i) = 2 * i
           /\ CommaAt(Filled(f), Len(f) + 1) = FilledEnd(f)
<1> DEFINE n == Len(f)
           fill(i) == IF f[i] = Empty /\ i < n THEN <<Zero>> ELSE f[i]
           g == Filled(f)
<1>1. n \in Nat /\ DOMAIN f = 1 .. n
  OBVIOUS
<1>2. g = [i \in 1 .. n |-> fill(i)]
  BY <1>1 DEF Filled
<1>3. \A i \in 1 .. n : fill(i) \in Field
  BY DEF Field
<1>4. g \in Seq(Field) /\ Len(g) = n /\ \A i \in 1 .. n : g[i] = fill(i)
  <2> HIDE DEF g, fill
  <2>1. g \in [1 .. n -> Field]
    BY <1>2, <1>3
  <2>2. g \in Seq(Field) /\ Len(g) = n
    BY <1>1, <2>1
  <2> QED
    BY <1>2, <2>2
<1> HIDE DEF g
<1>5. \A i \in 1 .. n : i < n => g[i] # Empty
  <2>1. <<Zero>> # Empty
    BY DEF Empty
  <2> QED
    BY <1>4, <2>1
<1>6. ASSUME NEW i \in 1 .. n PROVE CommaAt(g, i) = 2 * i
  <2>1. Texts(g, i) = 1 .. i - 1
    BY <1>1, <1>5 DEF Texts
  <2>2. Cardinality(1 .. i - 1) = i - 1
    <3>1. i - 1 \in Int /\ (1 > i - 1 => i = 1)
      OBVIOUS
    <3> QED
      BY <3>1, FS_Interval
  <2>3. CommaAt(g, i) = 1 + i + Cardinality(Texts(g, i))
    BY DEF CommaAt, Texts
  <2> QED
    BY <2>1, <2>2, <2>3
<1>7. CommaAt(g, n + 1) = FilledEnd(f)
  <2>1. CASE n = 0
    BY <2>1, FirstComma DEF FilledEnd
  <2>2. CASE n # 0
    <3>1. CommaAt(g, n + 1) = CommaAt(g, n) + (IF g[n] = Empty THEN 1 ELSE 2)
      BY <1>1, <2>2, NextComma
    <3>2. CommaAt(g, n) = 2 * n /\ g[n] = f[n]
      BY <1>1, <1>4, <1>6, <2>2
    <3> QED
      BY <1>1, <2>2, <3>1, <3>2 DEF FilledEnd
  <2> QED
    BY <2>1, <2>2
<1> QED
  BY <1>4, <1>6, <1>7 DEF g

LEMMA FilledCells ==
    ASSUME NEW a, NEW f, f \in Seq(Field)
    PROVE  LET z == Line(a, Filled(f))
               m == FilledEnd(f)
           IN  /\ DOMAIN z = 1 .. m + 1 /\ Len(z) = m + 1
               /\ z[1] = a /\ z[m] = CheckSum /\ z[m + 1] = LF
               /\ \A i \in 1 .. Len(f) :
                     /\ z[2 * i] = Comma
                     /\ i < Len(f) \/ f[i] # Empty =>
                           z[2 * i + 1] = IF f[i] = Empty THEN Zero ELSE f[i][1]
<1> DEFINE g == Filled(f)
           z == Line(a, g)
<1>1. /\ g \in Seq(Field) /\ Len(g) = Len(f)
      /\ CommaAt(g, Len(f) + 1) = FilledEnd(f)
      /\ \A i \in 1 .. Len(f) :
            g[i] = (IF f[i] = Empty /\ i < Len(f) THEN <<Zero>> ELSE f[i])
            /\ CommaAt(g, i) = 2 * i
  BY FilledCommas
<1> HIDE DEF g
<1>2. LET end == CommaAt(g, Len(g) + 1)
      IN  /\ DOMAIN z = 1 .. end + 1 /\ Len(z) = end + 1
          /\ z[1] = a /\ z[end] = CheckSum /\ z[end + 1] = LF
          /\ \A i \in 1 .. Len(g) :
                /\ z[CommaAt(g, i)] = Comma
                /\ g[i] # Empty => z[CommaAt(g, i) + 1] = g[i][1]
  BY <1>1, LineCells
<1> HIDE DEF z
<1>3. ASSUME NEW i \in 1 .. Len(f)
      PROVE  /\ z[2 * i] = Comma
             /\ i < Len(f) \/ f[i] # Empty =>
                   z[2 * i + 1] = IF f[i] = Empty THEN Zero ELSE f[i][1]
  <2>1. z[2 * i] = Comma /\ (g[i] # Empty => z[2 * i + 1] = g[i][1])
    BY <1>1, <1>2
  <2>2. i < Len(f) \/ f[i] # Empty =>
           g[i] # Empty /\ g[i][1] = IF f[i] = Empty THEN Zero ELSE f[i][1]
    BY <1>1 DEF Empty
  <2> QED
    BY <2>1, <2>2
<1>4. /\ DOMAIN z = 1 .. FilledEnd(f) + 1 /\ Len(z) = FilledEnd(f) + 1
      /\ z[1] = a /\ z[FilledEnd(f)] = CheckSum /\ z[FilledEnd(f) + 1] = LF
  BY <1>1, <1>2, Zenon
<1> QED
  BY <1>3, <1>4 DEF z, g

-----------------------------------------------------------------------------
(* What rx_irq makes of a sentence *)

\* The first k cells of s stand, with their zeros, in m cells of a buffer: they
\* end behind nothing, the address, a comma, the text of a field, the checksum.
ReadAs(s, k, m) ==
    LET f == s.fields
    IN  \/ k = 0 /\ m = 0
        \/ k = 1 /\ m = 1
        \/ \E i \in 1 .. Len(f) : k = CommaAt(f, i) /\ m = 2 * i
        \/ \E i \in 1 .. Len(f) :
              f[i] # Empty /\ k = CommaAt(f, i) + 1 /\ m = 2 * i + 1
        \/ k = CommaAt(f, Len(f) + 1) /\ m = FilledEnd(f)

\* What happens to the cell that follows them.
Follows(s, k, m) ==
    LET c == Bytes[s][k + 1]
        z == ZeroFilled[s]
    IN  IF c = LF
        THEN m + 1 = Len(z) /\ z[m + 1] = LF
        ELSE IF c = Comma /\ k > 0 /\ Bytes[s][k] = Comma
        THEN /\ ReadAs(s, k + 1, m + 2) /\ m + 2 < Len(z)
             /\ z[m + 1] = Zero /\ z[m + 2] = Comma
        ELSE ReadAs(s, k + 1, m + 1) /\ m + 1 < Len(z) /\ z[m + 1] = c

LEMMA SentenceCells ==
    ASSUME NEW s \in Sentences
    PROVE  LET f == s.fields
               b == Bytes[s]
               z == ZeroFilled[s]
               end == CommaAt(f, Len(f) + 1)
           IN  /\ f \in Seq(Field) /\ s.address \in Data
               /\ DOMAIN b = 1 .. end + 1 /\ Len(b) = end + 1
               /\ b[1] = s.address /\ b[end] = CheckSum /\ b[end + 1] = LF
               /\ \A i \in 1 .. Len(f) :
                     /\ b[CommaAt(f, i)] = Comma
                     /\ f[i] # Empty => b[CommaAt(f, i) + 1] = f[i][1]
               /\ DOMAIN z = 1 .. FilledEnd(f) + 1 /\ Len(z) = FilledEnd(f) + 1
               /\ z[1] = s.address /\ z[FilledEnd(f)] = CheckSum
               /\ z[FilledEnd(f) + 1] = LF
               /\ \A i \in 1 .. Len(f) :
                     /\ z[2 * i] = Comma
                     /\ i < Len(f) \/ f[i] # Empty =>
                           z[2 * i + 1] = IF f[i] = Empty THEN Zero ELSE f[i][1]
<1>1. s.fields \in Seq(Field) /\ s.address \in Data
  BY GpsConstants
<1>2. Bytes[s] = Line(s.address, s.fields) /\ ZeroFilled[s] = Line(s.address, Filled(s.fields))
  BY DEF Bytes, ZeroFilled
<1> QED
  BY <1>1, <1>2, LineCells, FilledCells, SMTT(30)

LEMMA ZeroFilledType ==
    ASSUME NEW s \in Sentences
    PROVE  /\ ZeroFilled[s] \in Seq(Cell) /\ Len(ZeroFilled[s]) \in Nat
           /\ DOMAIN ZeroFilled[s] = 1 .. Len(ZeroFilled[s])
<1>1. s.fields \in Seq(Field) /\ s.address \in Cell
  BY GpsConstants, CellFacts
<1>2. Filled(s.fields) \in Seq(Field)
  BY <1>1, FilledCommas
<1>3. Line(s.address, Filled(s.fields)) \in Seq(Cell)
  BY <1>1, <1>2, LineType
<1>4. ZeroFilled[s] = Line(s.address, Filled(s.fields))
  BY DEF ZeroFilled
<1> HIDE DEF ZeroFilled
<1> QED
  BY <1>3, <1>4

\* The text of a field is no separator.
LEMMA TextCell ==
    ASSUME NEW f \in Seq(Field), NEW i \in 1 .. Len(f), f[i] # Empty
    PROVE  f[i] = <<f[i][1]>> /\ f[i][1] \in Data \cup {Zero}
           /\ f[i][1] \notin {Comma, LF, Nul, CheckSum}
<1>1. f[i] \in Field
  OBVIOUS
<1>2. PICK c \in Data \cup {Zero} : f[i] = <<c>>
  BY <1>1 DEF Field
<1>3. f[i][1] = c
  BY <1>2
<1> QED
  BY <1>2, <1>3, CellsDistinct

LEMMA FollowingCell ==
    ASSUME NEW s \in Sentences, NEW k \in Nat, NEW m \in Nat, ReadAs(s, k, m)
    PROVE  Follows(s, k, m)
<1> DEFINE f == s.fields
           n == Len(f)
           b == Bytes[s]
           z == ZeroFilled[s]
           end == CommaAt(f, n + 1)
           last == FilledEnd(f)
<1>1. /\ f \in Seq(Field) /\ s.address \in Data /\ n \in Nat
      /\ b[1] = s.address /\ b[end] = CheckSum /\ b[end + 1] = LF
      /\ Len(z) = last + 1 /\ z[1] = s.address
      /\ z[last] = CheckSum /\ z[last + 1] = LF
  BY SentenceCells
<1>2. ASSUME NEW i \in 1 .. n
      PROVE  /\ b[CommaAt(f, i)] = Comma
             /\ f[i] # Empty => b[CommaAt(f, i) + 1] = f[i][1]
             /\ z[2 * i] = Comma
             /\ i < n \/ f[i] # Empty =>
                   z[2 * i + 1] = IF f[i] = Empty THEN Zero ELSE f[i][1]
             /\ f[i] # Empty => f[i][1] \notin {Comma, LF, Nul, CheckSum}
             /\ CommaAt(f, i) \in Nat /\ CommaAt(f, i) >= 2
             /\ CommaAt(f, i + 1) = CommaAt(f, i) + (IF f[i] = Empty THEN 1 ELSE 2)
  <2>1. /\ b[CommaAt(f, i)] = Comma
        /\ f[i] # Empty => b[CommaAt(f, i) + 1] = f[i][1]
        /\ z[2 * i] = Comma
        /\ i < n \/ f[i] # Empty =>
              z[2 * i + 1] = IF f[i] = Empty THEN Zero ELSE f[i][1]
    BY SentenceCells
  <2>2. f[i] # Empty => f[i][1] \notin {Comma, LF, Nul, CheckSum}
    BY <1>1, TextCell
  <2> HIDE DEF f
  <2>3. i \in Nat \ {0}
    BY <1>1
  <2>4. /\ CommaAt(f, i) \in Nat /\ CommaAt(f, i) >= 2
        /\ CommaAt(f, i + 1) = CommaAt(f, i) + (IF f[i] = Empty THEN 1 ELSE 2)
    BY <2>3, CommaType, NextComma
  <2> QED
    BY <2>1, <2>2, <2>4
<1>3. last = IF n = 0 THEN 2 ELSE 2 * n + (IF f[n] = Empty THEN 1 ELSE 2)
  BY DEF FilledEnd
<1>4. /\ Comma # LF /\ CheckSum \notin {LF, Comma}
      /\ s.address \notin {LF, Comma}
  BY <1>1, CellsDistinct
<1>5. CommaAt(f, 1) = 2
  BY FirstComma
<1>6. ASSUME NEW j, NEW l,
             \/ j = 1 /\ l = 1
             \/ \E i \in 1 .. n : j = CommaAt(f, i) /\ l = 2 * i
             \/ \E i \in 1 .. n : f[i] # Empty /\ j = CommaAt(f, i) + 1 /\ l = 2 * i + 1
             \/ j = end /\ l = last
      PROVE  ReadAs(s, j, l)
  BY <1>6 DEF ReadAs
<1> HIDE DEF f, n, b, z, end, last
<1>7. Follows(s, k, m) <=>
        LET c == b[k + 1]
        IN  IF c = LF
            THEN m + 1 = Len(z) /\ z[m + 1] = LF
            ELSE IF c = Comma /\ k > 0 /\ b[k] = Comma
            THEN /\ ReadAs(s, k + 1, m + 2) /\ m + 2 < Len(z)
                 /\ z[m + 1] = Zero /\ z[m + 2] = Comma
            ELSE ReadAs(s, k + 1, m + 1) /\ m + 1 < Len(z) /\ z[m + 1] = c
  BY DEF Follows, b, z
<1>8. CASE k = 0 /\ m = 0
  <2>1. ReadAs(s, 1, 1)
    BY <1>6
  <2>2. 1 < Len(z)
    BY <1>1, <1>3
  <2>3. b[k + 1] = s.address /\ z[m + 1] = s.address
    BY <1>1, <1>8
  <2> QED
    BY <1>4, <1>7, <1>8, <2>1, <2>2, <2>3
<1>9. CASE k = 1 /\ m = 1
  <2>1. CASE n = 0
    <3>1. end = 2 /\ last = 2
      BY <1>3, <1>5, <2>1 DEF end
    <3>2. ReadAs(s, 2, 2)
      BY <1>6, <3>1
    <3> QED
      BY <1>1, <1>4, <1>7, <1>9, <3>1, <3>2
  <2>2. CASE n # 0
    <3>1. 1 \in 1 .. n
      BY <1>1, <2>2
    <3>2. b[2] = Comma /\ z[2] = Comma
      BY <1>2, <1>5, <3>1
    <3>3. ReadAs(s, 2, 2)
      <4>1. 2 = CommaAt(f, 1) /\ 2 = 2 * 1
        BY <1>5
      <4> QED
        BY <1>6, <3>1, <4>1
    <3>4. 2 < Len(z)
      BY <1>1, <1>3, <2>2
    <3>5. b[k] = s.address
      BY <1>1, <1>9
    <3> QED
      BY <1>4, <1>7, <1>9, <3>2, <3>3, <3>4, <3>5
  <2> QED
    BY <2>1, <2>2
<1>10. ASSUME NEW i \in 1 .. n, k = CommaAt(f, i), m = 2 * i PROVE Follows(s, k, m)
  <2>1. k > 0 /\ b[k] = Comma
    BY <1>2, <1>10
  <2>2. CASE f[i] # Empty
    <3>1. b[k + 1] = f[i][1] /\ z[m + 1] = f[i][1]
      BY <1>2, <1>10, <2>2
    <3>2. ReadAs(s, k + 1, m + 1)
      BY <1>6, <1>10, <2>2
    <3>3. m + 1 < Len(z)
      BY <1>1, <1>3, <1>10, <2>2
    <3>4. f[i][1] \notin {Comma, LF}
      BY <1>2, <2>2
    <3> QED
      BY <1>7, <3>1, <3>2, <3>3, <3>4
  <2>3. CASE f[i] = Empty /\ i < n
    <3>1. i + 1 \in 1 .. n /\ k + 1 = CommaAt(f, i + 1) /\ m + 2 = 2 * (i + 1)
      BY <1>1, <1>2, <1>10, <2>3
    <3>2. b[k + 1] = Comma /\ z[m + 2] = Comma /\ z[m + 1] = Zero
      BY <1>2, <1>10, <2>3, <3>1
    <3>3. ReadAs(s, k + 1, m + 2)
      BY <1>6, <3>1
    <3>4. m + 2 < Len(z)
      BY <1>1, <1>3, <3>1
    <3> QED
      BY <1>4, <1>7, <2>1, <3>2, <3>3, <3>4
  <2>4. CASE f[i] = Empty /\ i = n
    <3>1. k + 1 = end /\ m + 1 = last
      BY <1>1, <1>2, <1>3, <1>10, <2>4 DEF end
    <3>2. ReadAs(s, k + 1, m + 1)
      BY <1>6, <3>1
    <3> QED
      BY <1>1, <1>4, <1>7, <1>10, <3>1, <3>2
  <2> QED
    BY <1>1, <2>2, <2>3, <2>4
<1>11. ASSUME NEW i \in 1 .. n, f[i] # Empty, k = CommaAt(f, i) + 1, m = 2 * i + 1
       PROVE  Follows(s, k, m)
  <2>1. k \in Nat /\ b[k] # Comma
    BY <1>2, <1>11
  <2>2. k + 1 = CommaAt(f, i + 1)
    BY <1>2, <1>11
  <2>3. CASE i < n
    <3>1. i + 1 \in 1 .. n /\ m + 1 = 2 * (i + 1)
      BY <1>1, <1>11, <2>3
    <3>2. b[k + 1] = Comma /\ z[m + 1] = Comma
      BY <1>2, <2>2, <3>1
    <3>3. ReadAs(s, k + 1, m + 1)
      BY <1>6, <2>2, <3>1
    <3>4. m + 1 < Len(z)
      BY <1>1, <1>3, <3>1
    <3> QED
      BY <1>4, <1>7, <2>1, <3>2, <3>3, <3>4, SMTT(30)
  <2>4. CASE i = n
    <3>1. k + 1 = end /\ m + 1 = last
      BY <1>1, <1>3, <1>11, <2>2, <2>4 DEF end
    <3>2. ReadAs(s, k + 1, m + 1)
      BY <1>6, <3>1
    <3> QED
      BY <1>1, <1>4, <1>7, <1>11, <3>1, <3>2
  <2> QED
    BY <1>1, <2>3, <2>4
<1>12. CASE k = end /\ m = last
  BY <1>1, <1>7, <1>12
<1> QED
  BY <1>8, <1>9, <1>10, <1>11, <1>12 DEF ReadAs, f, n, end, last

-----------------------------------------------------------------------------
(* The line in its buffer *)

Begins(q, l) == Len(q) <= Len(l) /\ \A i \in 1 .. Len(q) : q[i] = l[i]

Holds(b, z, m) == m <= Len(z) /\ \A i \in 1 .. m : b[i - 1] = z[i]

\* rx_irq tells a second comma by the byte before.
LastInv == IF raw = <<>> THEN lastByte # Comma ELSE lastByte = raw[Len(raw)]

\* What has come in of a sentence stands in the active buffer, with its zeros,
\* and rx_buffer_in behind it.
FillInv ==
    ~wrapped =>
        \A s \in Sentences : Begins(raw, Bytes[s]) =>
            /\ ReadAs(s, Len(raw), rx_buffer_in)
            /\ Holds(buffer[active_buffer], ZeroFilled[s], rx_buffer_in)

HoldInv == ~wrapped => PassiveHoldsLine

LineInv == LastInv /\ FillInv /\ HoldInv

LEMMA BeginsMore ==
    ASSUME NEW q \in Seq(Cell), NEW c \in Cell, NEW l \in Seq(Cell),
           Begins(Append(q, c), l)
    PROVE  Begins(q, l) /\ Len(q) < Len(l) /\ l[Len(q) + 1] = c
BY DEF Begins

\* Until a line fills its buffer rx_buffer_in only grows.
LEMMA RoomLeft ==
    ASSUME TypeOK, NEW c \in Cell, BufLen - 1 \notin Written(c)
    PROVE  IF Repeated(c)
           THEN At(c) = rx_buffer_in + 1 /\ Wrap(At(c)) = rx_buffer_in + 2
                /\ rx_buffer_in + 1 < BufLen - 1
           ELSE At(c) = rx_buffer_in /\ Wrap(At(c)) = rx_buffer_in + 1
                /\ rx_buffer_in < BufLen - 1
<1>1. rx_buffer_in \in 0 .. BufLen - 1 /\ BufLen \in Nat
  BY GpsConstants DEF TypeOK
<1>2. CASE Repeated(c)
  <2>1. rx_buffer_in # BufLen - 1 /\ At(c) # BufLen - 1 /\ At(c) = Wrap(rx_buffer_in)
    BY <1>2 DEF Written, At
  <2>2. At(c) = rx_buffer_in + 1
    BY <1>1, <2>1 DEF Wrap
  <2>3. Wrap(rx_buffer_in + 1) = rx_buffer_in + 2
    BY <1>1, <2>1, <2>2 DEF Wrap
  <2> QED
    BY <1>1, <1>2, <2>1, <2>2, <2>3
<1>3. CASE ~Repeated(c)
  <2>1. At(c) = rx_buffer_in /\ rx_buffer_in # BufLen - 1
    BY <1>3 DEF Written, At
  <2> QED
    BY <1>1, <1>3, <2>1 DEF Wrap
<1> QED
  BY <1>2, <1>3

\* The cells that are stored: the byte, and the zero before a second comma.
LEMMA StoredCells ==
    ASSUME TypeOK, NEW c \in Cell, BufLen - 1 \notin Written(c),
           NEW b, b = Stored(buffer[active_buffer], c), NEW m, m = rx_buffer_in
    PROVE  /\ \A i \in 0 .. BufLen - 1 : i < m => b[i] = buffer[active_buffer][i]
           /\ IF Repeated(c) THEN b[m] = Zero /\ b[m + 1] = c ELSE b[m] = c
<1> DEFINE g == buffer[active_buffer]
<1>1. m \in 0 .. BufLen - 1 /\ BufLen \in Nat /\ g \in [0 .. BufLen - 1 -> Cell]
  BY GpsConstants DEF TypeOK
<1> HIDE DEF g
<1>2. CASE Repeated(c)
  <2>1. At(c) = m + 1 /\ m + 1 < BufLen - 1
    BY <1>2, RoomLeft
  <2>2. b = [g EXCEPT ![m] = Zero, ![m + 1] = c]
    BY <1>2, <2>1 DEF Stored, g
  <2> QED
    BY <1>1, <1>2, <2>1, <2>2 DEF g
<1>3. CASE ~Repeated(c)
  <2>1. b = [g EXCEPT ![m] = c]
    BY <1>3 DEF Stored, g
  <2> QED
    BY <1>1, <1>3, <2>1 DEF g
<1> QED
  BY <1>2, <1>3

LEMMA RxIrqLine == ASSUME TypeOK, LineInv, RxIrq PROVE LineInv'
<1> DEFINE c == Head(fifo)
           m == rx_buffer_in
           k == Len(raw)
           b == Stored(buffer[active_buffer], c)
<1>1. /\ c \in Cell /\ raw \in Seq(Cell) /\ k \in Nat
      /\ active_buffer \in {0, 1} /\ m \in Nat /\ m <= BufLen - 1 /\ BufLen \in Nat
  BY GpsConstants DEF TypeOK, RxIrq
<1>2. /\ buffer' = [buffer EXCEPT ![active_buffer] = b]
      /\ lastByte' = c /\ wrapped' = (wrapped \/ BufLen - 1 \in Written(c))
  BY DEF RxIrq
<1>3. buffer'[active_buffer] = b
  BY <1>1, <1>2 DEF TypeOK
<1>4. LastInv'
  <2>1. CASE c = LF
    BY <1>2, <2>1, CellFacts DEF RxIrq, LastInv
  <2>2. CASE c # LF
    <3>1. raw' = Append(raw, c)
      BY <2>2 DEF RxIrq
    <3> QED
      BY <1>1, <1>2, <3>1 DEF LastInv
  <2> QED
    BY <2>1, <2>2
\* The cell c of a sentence that has been right so far.
<1>5. ASSUME ~wrapped', NEW s \in Sentences, Begins(Append(raw, c), Bytes[s])
      PROVE  IF c = LF
             THEN /\ Len(ZeroFilled[s]) <= BufLen
                  /\ Holds(b, ZeroFilled[s], Len(ZeroFilled[s]))
             ELSE /\ ReadAs(s, k + 1, Wrap(At(c)))
                  /\ Holds(b, ZeroFilled[s], Wrap(At(c)))
  <2> DEFINE z == ZeroFilled[s]
  <2>1. Begins(raw, Bytes[s]) /\ Bytes[s][k + 1] = c
    BY <1>1, <1>5, BytesType, BeginsMore
  <2>2. ~wrapped /\ BufLen - 1 \notin Written(c)
    BY <1>2, <1>5
  <2>3. ReadAs(s, k, m) /\ Holds(buffer[active_buffer], z, m)
    BY <2>1, <2>2 DEF LineInv, FillInv
  <2>4. Follows(s, k, m)
    BY <1>1, <2>3, FollowingCell
  <2>5. Repeated(c) <=> c = Comma /\ k > 0 /\ Bytes[s][k] = Comma
    <3>1. CASE raw = <<>>
      BY <1>1, <3>1 DEF LineInv, LastInv, Repeated
    <3>2. CASE raw # <<>>
      <4>1. k > 0 /\ lastByte = raw[k] /\ raw[k] = Bytes[s][k]
        BY <1>1, <2>1, <3>2 DEF LineInv, LastInv, Begins
      <4> QED
        BY <4>1 DEF Repeated
    <3> QED
      BY <3>1, <3>2
  <2>6. /\ \A i \in 0 .. BufLen - 1 : i < m => b[i] = buffer[active_buffer][i]
        /\ IF Repeated(c) THEN b[m] = Zero /\ b[m + 1] = c ELSE b[m] = c
    BY <1>1, <2>2, StoredCells
  <2>7. IF Repeated(c) THEN Wrap(At(c)) = m + 2 ELSE Wrap(At(c)) = m + 1
    BY <1>1, <2>2, RoomLeft
  <2>8. Len(z) \in Nat
    BY SentenceCells, <2>4 DEF Follows
  <2> HIDE DEF b, z
  <2>9. \A i \in 1 .. m : b[i - 1] = z[i]
    <3> SUFFICES ASSUME NEW i \in 1 .. m PROVE b[i - 1] = z[i]
      OBVIOUS
    <3>1. i - 1 \in 0 .. BufLen - 1 /\ i - 1 < m
      BY <1>1
    <3>2. buffer[active_buffer][i - 1] = z[i]
      BY <2>3, Zenon DEF Holds
    <3> QED
      BY <2>6, <3>1, <3>2
  <2>10. CASE c = LF
    <3>1. ~Repeated(c)
      BY <2>10, CellFacts DEF Repeated
    <3>2. m + 1 = Len(z) /\ z[m + 1] = LF /\ b[m] = LF
      BY <2>1, <2>4, <2>6, <2>10, <3>1 DEF Follows, z
    <3>3. Holds(b, z, m + 1)
      BY <1>1, <2>8, <2>9, <3>2 DEF Holds
    <3> QED
      BY <1>1, <2>10, <3>2, <3>3 DEF z
  <2>11. CASE c # LF /\ Repeated(c)
    <3>1. /\ ReadAs(s, k + 1, m + 2) /\ m + 2 < Len(z)
          /\ z[m + 1] = Zero /\ z[m + 2] = c
      BY <2>1, <2>4, <2>5, <2>11 DEF Follows, z
    <3>2. b[m] = Zero /\ b[m + 1] = c
      BY <2>6, <2>11
    <3>3. Holds(b, z, m + 2)
      <4> SUFFICES ASSUME NEW i \in 1 .. m + 2 PROVE b[i - 1] = z[i]
        BY <1>1, <2>8, <3>1 DEF Holds
      <4>1. i \in 1 .. m \/ i = m + 1 \/ i = m + 2
        BY <1>1
      <4> HIDE DEF m
      <4> QED
        BY <1>1, <2>9, <3>1, <3>2, <4>1
    <3> QED
      BY <2>7, <2>11, <3>1, <3>3 DEF z
  <2>12. CASE c # LF /\ ~Repeated(c)
    <3>1. ReadAs(s, k + 1, m + 1) /\ m + 1 < Len(z) /\ z[m + 1] = c
      BY <2>1, <2>4, <2>5, <2>12 DEF Follows, z
    <3>2. b[m] = c
      BY <2>6, <2>12
    <3>3. Holds(b, z, m + 1)
      BY <1>1, <2>8, <2>9, <3>1, <3>2 DEF Holds
    <3> QED
      BY <2>7, <2>12, <3>1, <3>3 DEF z
  <2> QED
    BY <2>10, <2>11, <2>12
<1>6. CASE c = LF
  <2>1. /\ rx_buffer_in' = 0 /\ raw' = <<>> /\ lastLine' = Append(raw, c)
        /\ active_buffer' = 1 - active_buffer
    BY <1>6 DEF RxIrq
  <2>2. FillInv'
    <3>1. \A s \in Sentences : ReadAs(s, 0, 0)
      BY DEF ReadAs
    <3>2. \A s \in Sentences : Len(ZeroFilled[s]) \in Nat /\ 0 <= Len(ZeroFilled[s])
      <4> SUFFICES ASSUME NEW s \in Sentences PROVE Len(ZeroFilled[s]) \in Nat
        OBVIOUS
      <4> QED
        BY ZeroFilledType
    <3>3. \A s \in Sentences : \A d : Holds(d, ZeroFilled[s], 0)
      BY <3>2 DEF Holds
    <3> QED
      BY <2>1, <3>1, <3>3 DEF FillInv
  <2>3. HoldInv'
    <3> SUFFICES ASSUME ~wrapped', NEW s \in Sentences, lastLine' = Bytes[s]
                 PROVE  /\ Len(ZeroFilled[s]) <= BufLen
                        /\ \A i \in DOMAIN ZeroFilled[s] :
                              buffer'[Passive'][i - 1] = ZeroFilled[s][i]
      BY DEF HoldInv, PassiveHoldsLine
    <3>1. Passive' = active_buffer
      BY <1>1, <2>1 DEF Passive
    <3>2. Begins(Append(raw, c), Bytes[s])
      BY <1>1, <2>1, BytesType DEF Begins
    <3>3. Len(ZeroFilled[s]) <= BufLen /\ Holds(b, ZeroFilled[s], Len(ZeroFilled[s]))
      BY <1>5, <1>6, <3>2
    <3>4. DOMAIN ZeroFilled[s] = 1 .. Len(ZeroFilled[s])
      BY ZeroFilledType
    <3> HIDE DEF b
    <3> QED
      BY <1>3, <3>1, <3>3, <3>4 DEF Holds
  <2> QED
    BY <1>4, <2>2, <2>3 DEF LineInv
<1>7. CASE c # LF
  <2>1. /\ rx_buffer_in' = Wrap(At(c)) /\ raw' = Append(raw, c)
        /\ UNCHANGED <<active_buffer, process_required, lastLine>>
    BY <1>7 DEF RxIrq
  <2>2. FillInv'
    <3> SUFFICES ASSUME ~wrapped', NEW s \in Sentences, Begins(raw', Bytes[s])
                 PROVE  /\ ReadAs(s, Len(raw'), rx_buffer_in')
                        /\ Holds(buffer'[active_buffer'], ZeroFilled[s], rx_buffer_in')
      BY DEF FillInv
    <3>1. Len(raw') = k + 1
      BY <1>1, <2>1
    <3>2. ReadAs(s, k + 1, Wrap(At(c))) /\ Holds(b, ZeroFilled[s], Wrap(At(c)))
      BY <1>5, <1>7, <2>1
    <3> HIDE DEF b, k
    <3> QED
      BY <1>3, <2>1, <3>1, <3>2
  <2>3. HoldInv'
    <3>1. buffer'[Passive] = buffer[Passive] /\ Passive' = Passive
      BY <1>1, <1>2, <2>1 DEF Passive, TypeOK
    <3>2. ~wrapped' => ~wrapped
      BY <1>2
    <3> QED
      BY <2>1, <3>1, <3>2 DEF LineInv, HoldInv, PassiveHoldsLine
  <2> QED
    BY <1>4, <2>2, <2>3 DEF LineInv
<1> QED
  BY <1>6, <1>7

LEMMA LineInductive == TypeOK /\ NulGuard /\ LineInv /\ [Next]_vars => LineInv'
<1> SUFFICES ASSUME TypeOK, NulGuard, LineInv, [Next]_vars PROVE LineInv'
  OBVIOUS
<1>1. CASE UNCHANGED <<rxVars, process_required>>
  BY <1>1 DEF LineInv, LastInv, FillInv, HoldInv, PassiveHoldsLine, Passive, rxVars
<1>2. CASE RxIrq
  BY <1>2, RxIrqLine
<1>3. CASE Ticktock
  <2>1. /\ UNCHANGED <<active_buffer, rx_buffer_in, lastByte, wrapped, raw, lastLine>>
        /\ process_required' = FALSE
        /\ buffer' = IF Parsed = {} THEN buffer ELSE Lines(Strtoked(Memory, Start))
    BY <1>3 DEF Ticktock
  <2>2. ~wrapped => buffer'[active_buffer] = buffer[active_buffer]
    BY <2>1, StrtokedStaysPassive DEF NulGuard
  <2> QED
    BY <2>1, <2>2 DEF LineInv, LastInv, FillInv, HoldInv, PassiveHoldsLine
<1>4. CASE PpsIrq
  BY <1>1, <1>4 DEF PpsIrq
<1>5. CASE KeypadEnter \/ KeypadLeave \/ UartIn \/ UartOverrun
  BY <1>1, <1>5 DEF KeypadEnter, KeypadLeave, UartIn, UartOverrun, Arrives
<1>6. CASE \E s \in Sentences : Transmit(s)
  BY <1>1, <1>6 DEF Transmit
<1>7. CASE UNCHANGED vars
  BY <1>1, <1>7 DEF vars, rxVars
<1> QED
  BY <1>2, <1>3, <1>4, <1>5, <1>6, <1>7 DEF Next

LEMMA LineStart == Init => LineInv
<1> SUFFICES ASSUME Init PROVE LineInv
  OBVIOUS
<1>1. LastInv /\ HoldInv
  BY CellFacts DEF Init, LastInv, HoldInv, PassiveHoldsLine
<1>2. Len(raw) = 0 /\ rx_buffer_in = 0
  BY DEF Init
<1>3. \A s \in Sentences : ReadAs(s, 0, 0)
  BY DEF ReadAs
<1>4. ASSUME NEW s \in Sentences, NEW b PROVE Holds(b, ZeroFilled[s], 0)
  BY ZeroFilledType DEF Holds
<1> QED
  BY <1>1, <1>2, <1>3, <1>4 DEF LineInv, FillInv

LEMMA GuardStart == Init => NulGuard
BY GpsConstants DEF Init, NulGuard

\* A sentence that has come in whole is not touched until it is parsed: it
\* stands in the passive buffer with a zero in each empty field, whatever comes
\* in meanwhile, however bytes are lost and lines are merged, as long as no
\* line has filled its buffer (rx_irq, GPS.cpp:206-237).
THEOREM LineSurvives == Spec => [](~wrapped => PassiveHoldsLine)
<1>1. TypeOK /\ NulGuard /\ [Next]_vars => NulGuard'
  BY NulGuardInductive
<1>2. LineInv => (~wrapped => PassiveHoldsLine)
  BY DEF LineInv, HoldInv
<1> QED
  BY <1>1, <1>2, TypeCorrect, LineStart, LineInductive, GuardStart, PTL DEF Spec

-----------------------------------------------------------------------------
(* While nothing is lost *)

\* The keypad is never pressed and the buffers are longer than the sentences.
Quiet == MaxPresses = 0 /\ \A s \in Sentences : Len(ZeroFilled[s]) < BufLen

\* The sentence s is split between what was read and what is still to come.
Split(s) ==
    /\ Begins(raw, Bytes[s])
    /\ Len(Bytes[s]) = Len(raw) + Len(fifo) + Len(wire)
    /\ fifo # <<>> => fifo[1] = Bytes[s][Len(raw) + 1]
    /\ \A i \in 1 .. Len(wire) : wire[i] = Bytes[s][Len(raw) + Len(fifo) + i]

\* Only the last byte of s has still to be read, and the next sentence begins.
LastByte(s) ==
    /\ Begins(raw, Bytes[s]) /\ Len(Bytes[s]) = Len(raw) + 1
    /\ Len(fifo) = 1 /\ fifo[1] = Bytes[s][Len(raw) + 1] /\ fifo[1] = LF
    /\ \E t \in Sentences : wire = Bytes[t]

WholeInv ==
    /\ ~blocked /\ presses = 0 /\ Len(fifo) <= 1 /\ ~wrapped
    /\ \/ raw = <<>> /\ fifo = <<>> /\ wire = <<>>
       \/ \E s \in Sentences : Split(s) \/ LastByte(s)

\* Only the checksum stands so far behind.
LEMMA LongestRead ==
    ASSUME NEW s \in Sentences, NEW k \in Nat, NEW m \in Nat, ReadAs(s, k, m),
           m + 1 = Len(ZeroFilled[s])
    PROVE  k = CommaAt(s.fields, Len(s.fields) + 1)
<1> DEFINE f == s.fields
           n == Len(f)
<1>1. n \in Nat /\ m = FilledEnd(f)
  <2>1. n \in Nat /\ Len(ZeroFilled[s]) = FilledEnd(f) + 1 /\ f \in Seq(Field)
    BY SentenceCells
  <2> HIDE DEF f
  <2>2. FilledEnd(f) \in Nat
    BY <2>1 DEF FilledEnd
  <2> QED
    BY <2>1, <2>2
<1>2. FilledEnd(f) = IF n = 0 THEN 2 ELSE 2 * n + (IF f[n] = Empty THEN 1 ELSE 2)
  BY DEF FilledEnd
<1>3. \/ k = 0 /\ m = 0
      \/ k = 1 /\ m = 1
      \/ \E i \in 1 .. n : k = CommaAt(f, i) /\ m = 2 * i
      \/ \E i \in 1 .. n : f[i] # Empty /\ k = CommaAt(f, i) + 1 /\ m = 2 * i + 1
      \/ k = CommaAt(f, n + 1) /\ m = FilledEnd(f)
  BY DEF ReadAs
<1> HIDE DEF f, n
<1>4. k = CommaAt(f, n + 1)
  <2>1. ASSUME NEW i \in 1 .. n, m = 2 * i PROVE FALSE
    BY <1>1, <1>2, <2>1
  <2>2. ASSUME NEW i \in 1 .. n, f[i] # Empty, m = 2 * i + 1 PROVE FALSE
    BY <1>1, <1>2, <2>2
  <2>3. m > 1
    BY <1>1, <1>2
  <2> QED
    BY <1>3, <2>1, <2>2, <2>3
<1> QED
  BY <1>4 DEF f, n

\* What is left of a sentence is short enough for its buffer.
LEMMA RxIrqWhole == ASSUME Quiet, TypeOK, LineInv, WholeInv, RxIrq PROVE WholeInv'
<1> DEFINE c == Head(fifo)
           m == rx_buffer_in
           k == Len(raw)
<1>1. /\ c \in Cell /\ raw \in Seq(Cell) /\ k \in Nat /\ fifo # <<>>
      /\ fifo \in Seq(Cell) /\ wire \in Seq(Cell)
      /\ m \in Nat /\ m <= BufLen - 1 /\ BufLen \in Nat
  BY GpsConstants DEF TypeOK, RxIrq
<1>2. Len(fifo) = 1 /\ fifo' = <<>> /\ c = fifo[1] /\ wire' = wire
  <2>1. Len(fifo) <= 1
    BY DEF WholeInv
  <2>2. Len(fifo) = 1
    <3>1. Len(fifo) \in Nat /\ Len(fifo) # 0
      BY <1>1
    <3> QED
      BY <2>1, <3>1
  <2> QED
    BY <1>1, <2>2 DEF RxIrq
<1>3. PICK s \in Sentences : Split(s) \/ LastByte(s)
  BY <1>1 DEF WholeInv
<1> DEFINE z == ZeroFilled[s]
<1>4. Begins(raw, Bytes[s]) /\ c = Bytes[s][k + 1]
  BY <1>1, <1>2, <1>3 DEF Split, LastByte
<1>5. ReadAs(s, k, m) /\ Follows(s, k, m)
  BY <1>1, <1>4, FollowingCell DEF WholeInv, LineInv, FillInv
<1>6. Repeated(c) <=> c = Comma /\ k > 0 /\ Bytes[s][k] = Comma
  <2>1. CASE raw = <<>>
    BY <1>1, <2>1 DEF LineInv, LastInv, Repeated
  <2>2. CASE raw # <<>>
    <3>1. k > 0 /\ lastByte = raw[k] /\ raw[k] = Bytes[s][k]
      BY <1>1, <1>4, <2>2 DEF LineInv, LastInv, Begins
    <3> QED
      BY <3>1 DEF Repeated
  <2> QED
    BY <2>1, <2>2
<1>7. Len(z) \in Nat /\ Len(z) < BufLen
  BY ZeroFilledType DEF Quiet
<1>8. BufLen - 1 \notin Written(c)
  <2>1. CASE Repeated(c)
    <3>1. m + 2 < Len(z)
      BY <1>4, <1>5, <1>6, <2>1, CellFacts DEF Follows
    <3>2. Written(c) = {m, m + 1}
      BY <1>1, <1>7, <2>1, <3>1 DEF Written, At, Wrap
    <3> QED
      BY <1>1, <1>7, <3>1, <3>2
  <2>2. CASE ~Repeated(c)
    <3>1. m + 1 <= Len(z)
      BY <1>1, <1>4, <1>5, <1>6, <1>7, <2>2 DEF Follows
    <3>2. Written(c) = {m}
      BY <2>2 DEF Written, At
    <3> QED
      BY <1>1, <1>7, <3>1, <3>2
  <2> QED
    BY <2>1, <2>2
<1>9. ~wrapped' /\ ~blocked' /\ presses' = 0 /\ Len(fifo') <= 1
  <2>1. ~wrapped /\ ~blocked /\ presses = 0
    BY DEF WholeInv
  <2>2. wrapped' = (wrapped \/ BufLen - 1 \in Written(c)) /\ UNCHANGED <<blocked, presses>>
    BY DEF RxIrq
  <2>3. Len(fifo') <= 1
    BY <1>2
  <2> QED
    BY <1>8, <2>1, <2>2, <2>3, Zenon
<1>10. CASE c = LF
  <2>1. raw' = <<>> /\ Len(raw') = 0
    BY <1>10 DEF RxIrq
  <2>2. k = CommaAt(s.fields, Len(s.fields) + 1)
    <3>1. m + 1 = Len(z)
      <4>1. Bytes[s][k + 1] = LF
        BY <1>4, <1>10
      <4> HIDE DEF k, m
      <4> QED
        BY <1>5, <4>1 DEF Follows
    <3> QED
      BY <1>1, <1>5, <3>1, LongestRead
  <2>3. Len(Bytes[s]) = k + 1
    BY <2>2, SentenceCells
  <2>4. CASE Split(s)
    <3>1. wire = <<>>
      BY <1>1, <1>2, <2>3, <2>4 DEF Split
    <3> QED
      BY <1>2, <1>9, <2>1, <3>1 DEF WholeInv
  <2>5. CASE LastByte(s)
    <3>1. PICK t \in Sentences : wire = Bytes[t]
      BY <2>5 DEF LastByte
    <3>2. Split(t)'
      <4>1. Bytes[t] \in Seq(Cell)
        BY BytesType
      <4>2. Len(fifo') = 0
        BY <1>2
      <4> QED
        BY <1>2, <2>1, <3>1, <4>1, <4>2 DEF Split, Begins
    <3> QED
      BY <1>9, <3>2 DEF WholeInv
  <2> QED
    BY <1>3, <2>4, <2>5
<1>11. CASE c # LF
  <2>1. raw' = Append(raw, c)
    BY <1>11 DEF RxIrq
  <2>2. /\ Len(Bytes[s]) = k + 1 + Len(wire)
        /\ \A i \in 1 .. Len(wire) : wire[i] = Bytes[s][k + 1 + i]
    BY <1>1, <1>2, <1>3, <1>11 DEF Split, LastByte
  <2>3. Len(raw') = k + 1 /\ \A i \in 1 .. k + 1 : raw'[i] = IF i = k + 1 THEN c ELSE raw[i]
    <3> HIDE DEF c
    <3> QED
      BY <1>1, <2>1
  <2>4. Begins(raw', Bytes[s])
    <3>1. Len(wire) \in Nat
      BY <1>1
    <3> HIDE DEF c, k
    <3>2. Len(raw') <= Len(Bytes[s])
      BY <1>1, <2>3, <2>2, <3>1
    <3>3. ASSUME NEW i \in 1 .. Len(raw') PROVE raw'[i] = Bytes[s][i]
      <4>1. i = k + 1 \/ i \in 1 .. k
        BY <1>1, <2>3
      <4>2. \A j \in 1 .. k : raw[j] = Bytes[s][j]
        BY <1>4 DEF Begins, k
      <4> QED
        BY <1>1, <1>4, <2>3, <4>1, <4>2
    <3> QED
      BY <3>2, <3>3 DEF Begins
  <2>5. Split(s)'
    <3>1. Len(fifo') = 0
      BY <1>2
    <3> HIDE DEF k
    <3> QED
      BY <1>1, <1>2, <2>3, <2>4, <2>2, <3>1 DEF Split
  <2> QED
    BY <1>9, <2>5 DEF WholeInv
<1> QED
  BY <1>10, <1>11

\* There is always a byte of the sentence to come.
LEMMA NeverAll ==
    ASSUME NEW s \in Sentences, NEW k \in Nat, NEW m, ReadAs(s, k, m)
    PROVE  k < Len(Bytes[s])
<1> DEFINE f == s.fields
           n == Len(f)
           end == CommaAt(f, n + 1)
<1>1. n \in Nat /\ Len(Bytes[s]) = end + 1
  BY SentenceCells
<1>2. end \in Nat /\ end >= 2
  BY <1>1, CommaType
<1>3. ASSUME NEW i \in 1 .. n
      PROVE  CommaAt(f, i) \in Nat /\ CommaAt(f, i) + (IF f[i] = Empty THEN 1 ELSE 2) <= end
  BY <1>1, CommaType, CommasApart
<1>4. \/ k <= 1
      \/ \E i \in 1 .. n : k = CommaAt(f, i) \/ (f[i] # Empty /\ k = CommaAt(f, i) + 1)
      \/ k = end
  BY DEF ReadAs
<1> HIDE DEF f, n, end
<1> QED
  BY <1>1, <1>2, <1>3, <1>4

LEMMA SendsWhole ==
    ASSUME TypeOK, LineInv, WholeInv, NEW s \in Sentences, Transmit(s) PROVE WholeInv'
<1>1. /\ wire = <<>> /\ wire' = Bytes[s]
      /\ UNCHANGED <<fifo, blocked, presses, raw, wrapped>>
  BY DEF Transmit, rxVars
<1>2. ~blocked /\ presses = 0 /\ Len(fifo) <= 1 /\ ~wrapped
  BY DEF WholeInv
<1>3. Bytes[s] \in Seq(Cell) /\ raw \in Seq(Cell) /\ fifo \in Seq(Cell)
  BY BytesType DEF TypeOK
<1>4. CASE raw = <<>> /\ fifo = <<>>
  <2>1. Split(s)'
    BY <1>1, <1>3, <1>4 DEF Split, Begins
  <2> QED
    BY <1>1, <1>2, <2>1 DEF WholeInv
<1>5. CASE ~(raw = <<>> /\ fifo = <<>>)
  <2>1. PICK t \in Sentences : Split(t) \/ LastByte(t)
    BY <1>5 DEF WholeInv
  <2>2. Split(t)
    <3> SUFFICES ASSUME NEW u \in Sentences PROVE wire # Bytes[u]
      BY <2>1 DEF LastByte
    <3>1. Len(Bytes[u]) > 0
      BY NeverAll DEF ReadAs
    <3> QED
      BY <1>1, <3>1
  <2> DEFINE k == Len(raw)
  <2>3. k \in Nat /\ k < Len(Bytes[t])
    <3>1. ReadAs(t, k, rx_buffer_in)
      BY <1>2, <2>2 DEF LineInv, FillInv, Split
    <3> QED
      BY <1>3, <3>1, NeverAll
  <2>4. Len(Bytes[t]) = k + Len(fifo) /\ Len(fifo) \in Nat
    BY <1>1, <1>3, <2>2 DEF Split
  <2>5. Len(fifo) = 1 /\ Len(Bytes[t]) = k + 1
    <3> DEFINE l == Len(fifo)
               b == Len(Bytes[t])
    <3>1. l <= 1
      BY <1>2
    <3>2. k \in Nat /\ l \in Nat /\ k < b /\ b = k + l
      BY <2>3, <2>4
    <3> HIDE DEF k, l, b
    <3>3. l = 1 /\ b = k + 1
      BY <3>1, <3>2
    <3> QED
      BY <3>3 DEF k, l, b
  <2>6. fifo[1] = Bytes[t][k + 1]
    <3>1. fifo # <<>>
      BY <2>5
    <3>2. fifo # <<>> => fifo[1] = Bytes[t][Len(raw) + 1]
      BY <2>2, Zenon DEF Split
    <3> QED
      BY <3>1, <3>2
  <2>7. Bytes[t][k + 1] = LF
    BY <2>5, SentenceCells
  <2>8. LastByte(t)'
    BY <1>1, <2>2, <2>5, <2>6, <2>7 DEF LastByte, Split
  <2> QED
    BY <1>1, <1>2, <2>8 DEF WholeInv
<1> QED
  BY <1>4, <1>5

LEMMA ArrivesWhole == ASSUME TypeOK, WholeInv, UartIn \/ UartOverrun PROVE WholeInv'
<1>1. ~blocked /\ presses = 0 /\ ~wrapped
  BY DEF WholeInv
<1>2. /\ wire # <<>> /\ fifo = <<>> /\ wire' = Tail(wire) /\ Len(fifo) = 0
      /\ UNCHANGED <<blocked, presses, raw, wrapped>>
  BY <1>1 DEF UartIn, UartOverrun, Arrives, rxVars
<1>3. fifo' = <<Head(wire)>>
  <2>1. ~UartOverrun
    BY <1>2, GpsConstants DEF UartOverrun
  <2>2. fifo' = Append(fifo, Head(wire))
    BY <2>1 DEF UartIn
  <2> QED
    BY <1>2, <2>2
<1>4. PICK s \in Sentences : Split(s)
  BY <1>2 DEF WholeInv, LastByte
<1>5. wire \in Seq(Cell) /\ raw \in Seq(Cell) /\ Len(raw) \in Nat
  BY DEF TypeOK
<1>6. Split(s)'
  <2>1. /\ Begins(raw, Bytes[s]) /\ Len(Bytes[s]) = Len(raw) + Len(wire)
        /\ \A i \in 1 .. Len(wire) : wire[i] = Bytes[s][Len(raw) + i]
    BY <1>2, <1>4, <1>5 DEF Split
  <2>2. /\ Len(wire) \in Nat /\ Len(wire) > 0 /\ Len(wire') = Len(wire) - 1
        /\ Head(wire) = wire[1] /\ \A i \in 1 .. Len(wire) - 1 : wire'[i] = wire[i + 1]
    BY <1>2, <1>5
  <2>3. Len(fifo') = 1 /\ fifo'[1] = Head(wire)
    BY <1>3
  <2>4. \A i \in 1 .. Len(wire') : wire'[i] = Bytes[s][Len(raw) + 1 + i]
    <3> SUFFICES ASSUME NEW i \in 1 .. Len(wire') PROVE wire'[i] = Bytes[s][Len(raw) + 1 + i]
      OBVIOUS
    <3>1. i + 1 \in 1 .. Len(wire) /\ i \in 1 .. Len(wire) - 1
      BY <2>2
    <3>2. wire[i + 1] = Bytes[s][Len(raw) + (i + 1)]
      BY <2>1, <3>1
    <3>3. Len(raw) + (i + 1) = Len(raw) + 1 + i
      BY <1>5, <3>1
    <3> QED
      BY <2>2, <3>1, <3>2, <3>3
  <2>5. Head(wire) = Bytes[s][Len(raw) + 1]
    BY <2>1, <2>2
  <2>6. Len(Bytes[s]) = Len(raw) + 1 + Len(wire')
    BY <1>5, <2>1, <2>2
  <2> QED
    BY <1>2, <2>1, <2>3, <2>4, <2>5, <2>6 DEF Split
<1>7. Len(fifo') = 1
  BY <1>3
<1> QED
  BY <1>1, <1>2, <1>6, <1>7 DEF WholeInv

LEMMA WholeInductive ==
    ASSUME Quiet PROVE TypeOK /\ LineInv /\ WholeInv /\ [Next]_vars => WholeInv'
<1> SUFFICES ASSUME TypeOK, LineInv, WholeInv, [Next]_vars PROVE WholeInv'
  OBVIOUS
<1>1. CASE UNCHANGED <<wire, fifo, blocked, presses, raw, wrapped>>
  BY <1>1 DEF WholeInv, Split, LastByte
<1>2. CASE UartIn \/ UartOverrun
  BY <1>2, ArrivesWhole
<1>3. CASE KeypadEnter \/ KeypadLeave
  BY <1>3 DEF KeypadEnter, KeypadLeave, Quiet, WholeInv
<1>4. CASE RxIrq
  BY <1>4, RxIrqWhole
<1>5. CASE Ticktock
  BY <1>1, <1>5 DEF Ticktock, envVars
<1>6. CASE PpsIrq
  BY <1>1, <1>6 DEF PpsIrq, rxVars
<1>7. CASE \E s \in Sentences : Transmit(s)
  BY <1>7, SendsWhole
<1>8. CASE UNCHANGED vars
  BY <1>1, <1>8 DEF vars
<1> QED
  BY <1>2, <1>3, <1>4, <1>5, <1>6, <1>7, <1>8 DEF Next

\* As long as the keypad does not hold the processor, no line fills its buffer
\* and every sentence, whatever its fields, waits whole for ticktock.
THEOREM SentenceSurvives == ASSUME Quiet PROVE Spec => []PassiveHoldsLine
<1>1. Init => WholeInv
  BY DEF Init, WholeInv
<1>2. TypeOK /\ NulGuard /\ [Next]_vars => NulGuard'
  BY NulGuardInductive
<1>3. LineInv /\ WholeInv => PassiveHoldsLine
  BY DEF LineInv, HoldInv, WholeInv
<1> QED
  BY <1>1, <1>2, <1>3, TypeCorrect, LineStart, LineInductive, GuardStart,
     WholeInductive, PTL DEF Spec

-----------------------------------------------------------------------------
(* The tokens of a line *)

\* From p on n cells follow each other, each with a comma behind it.
CellsAt(mem, p, n) ==
    \A i \in 0 .. n - 1 : mem[p + 2 * i] \notin {Comma, Nul} /\ mem[p + 2 * i + 1] = Comma

LineAt(mem, L, p, n) ==
    /\ L \in Nat /\ mem \in [0 .. L - 1 -> Cell]
    /\ p \in Nat /\ n \in Nat /\ p + 2 * n <= L
    /\ CellsAt(mem, p, n)

Every2nd(p, n) == {p + 2 * i : i \in 0 .. n - 1}

LEMMA EvenCount ==
    ASSUME NEW p, p \in Nat, NEW n, n \in Nat
    PROVE  IsFiniteSet(Every2nd(p, n)) /\ Cardinality(Every2nd(p, n)) = n
<1> DEFINE S == 0 .. n - 1
           f == [i \in S |-> p + 2 * i]
<1>1. f \in Bijection(S, Every2nd(p, n))
  <2>1. f \in [S -> Every2nd(p, n)]
    BY DEF Every2nd
  <2>2. \A a, b \in S : f[a] = f[b] => a = b
    OBVIOUS
  <2>3. \A t \in Every2nd(p, n) : \E i \in S : f[i] = t
    BY DEF Every2nd
  <2> HIDE DEF f, S
  <2> QED
    BY <2>1, <2>2, <2>3, Fun_IsBij
<1>2. IsFiniteSet(S) /\ Cardinality(S) = n
  <2>1. IsFiniteSet(0 .. n - 1) /\ Cardinality(0 .. n - 1) = IF 0 > n - 1 THEN 0 ELSE n - 1 - 0 + 1
    BY FS_Interval
  <2> QED
    BY <2>1
<1> HIDE DEF f, S
<1>3. ExistsBijection(S, Every2nd(p, n))
  BY <1>1 DEF ExistsBijection
<1> QED
  BY <1>2, <1>3, FS_Bijection

Below(S, x) == {j \in S : j < x}

\* Only one element of a set has n elements of the set below it.
LEMMA NthIs ==
    ASSUME NEW L, L \in Nat, NEW S, S \in SUBSET (0 .. L - 1), NEW x, x \in S, NEW n,
           Cardinality(Below(S, x)) = n
    PROVE  Nth(S, n) = {x}
<1>1. IsFiniteSet(S)
  <2>1. IsFiniteSet(0 .. L - 1)
    BY FS_Interval
  <2> QED
    BY <2>1, FS_Subset
<1>2. ASSUME NEW y, y \in S PROVE IsFiniteSet(Below(S, y))
  <2>1. Below(S, y) \in SUBSET S
    BY DEF Below
  <2> QED
    BY <1>1, <2>1, FS_Subset
<1>3. ASSUME NEW a, a \in S, NEW b, b \in S, a < b
      PROVE  Cardinality(Below(S, a)) # Cardinality(Below(S, b))
  <2>1. Below(S, a) \in SUBSET Below(S, b) /\ a \in Below(S, b) /\ a \notin Below(S, a)
    <3>1. a \in Int /\ b \in Int /\ \A j \in S : j \in Int
      BY <1>3
    <3>2. \A j \in S : j < a => j < b
      BY <1>3, <3>1
    <3>3. \A j \in Below(S, a) : j \in Below(S, b)
      BY <3>2 DEF Below
    <3>4. ~(a < a)
      BY <3>1
    <3>5. a \in Below(S, b) /\ a \notin Below(S, a)
      BY <1>3, <3>4, Zenon DEF Below
    <3> QED
      BY <3>3, <3>5
  <2>2. IsFiniteSet(Below(S, b))
    BY <1>2, <1>3
  <2>3. Cardinality(Below(S, b)) = Cardinality(Below(S, a)) => Below(S, b) = Below(S, a)
    BY <2>1, <2>2, FS_Subset
  <2> QED
    BY <2>1, <2>3
<1>4. Nth(S, n) = {i \in S : Cardinality(Below(S, i)) = n}
  BY DEF Nth, Below
<1>5. ASSUME NEW y, y \in S, y # x PROVE Cardinality(Below(S, y)) # n
  <2>1. y < x \/ x < y
    BY <1>5
  <2> QED
    BY <1>3, <1>5, <2>1
<1> QED
  BY <1>4, <1>5

\* If the elements of S up to p + 2 * m are every second number from p on, they
\* are the first ones.
LEMMA NthOfEven ==
    ASSUME NEW L, L \in Nat, NEW S, S \in SUBSET (0 .. L - 1),
           NEW p, p \in Nat, NEW m, m \in Nat,
           \A i \in 0 .. m : p + 2 * i \in S,
           \A i \in 1 .. m : p + 2 * i - 1 \notin S,
           \A j \in S : p <= j
    PROVE  Nth(S, m) = {p + 2 * m}
<1> DEFINE x == p + 2 * m
<1>1. ASSUME NEW j, j \in S, j < x PROVE j \in Every2nd(p, m)
  <2> DEFINE i == (j - p) \div 2
  <2>1. j \in Int /\ p <= j /\ j < p + 2 * m
    BY <1>1
  <2>2. i \in 0 .. m - 1 /\ (j = p + 2 * i \/ j = p + 2 * (i + 1) - 1)
    BY <2>1
  <2>3. i + 1 \in 1 .. m
    BY <2>2
  <2> HIDE DEF i
  <2>4. j = p + 2 * i
    BY <1>1, <2>2, <2>3
  <2> QED
    BY <2>2, <2>4 DEF Every2nd
<1>2. ASSUME NEW j, j \in Every2nd(p, m) PROVE j \in S /\ j < x
  <2>1. PICK i \in 0 .. m - 1 : j = p + 2 * i
    BY <1>2 DEF Every2nd
  <2>2. i \in 0 .. m /\ i < m
    BY <2>1
  <2> QED
    BY <2>1, <2>2
<1>3. Below(S, x) = Every2nd(p, m)
  BY <1>1, <1>2 DEF Below
<1>4. x \in S
  OBVIOUS
<1>5. Cardinality(Below(S, x)) = m
  BY <1>3, EvenCount
<1> HIDE DEF x
<1>6. Nth(S, m) = {x}
  BY <1>4, <1>5, NthIs
<1> QED
  BY <1>6 DEF x

LEMMA Halved == ASSUME NEW d, d \in Nat PROVE \E i \in Nat : d = 2 * i \/ d = 2 * i + 1
<1>1. d \div 2 \in Nat /\ (d = 2 * (d \div 2) \/ d = 2 * (d \div 2) + 1)
  OBVIOUS
<1> QED
  BY <1>1

LEMMA CellsAtRead ==
    ASSUME NEW mem, NEW p, p \in Nat, NEW n, n \in Nat, CellsAt(mem, p, n),
           NEW i, i \in Nat, i < n
    PROVE  /\ mem[p + 2 * i] # Comma /\ mem[p + 2 * i] # Nul
           /\ mem[p + 2 * i + 1] = Comma
           /\ i # 0 => mem[p + 2 * i - 1] = Comma
<1>1. i \in 0 .. n - 1 /\ (i # 0 => i - 1 \in 0 .. n - 1)
  OBVIOUS
<1>2. i # 0 => mem[p + 2 * (i - 1) + 1] = Comma
  BY <1>1, Zenon DEF CellsAt
<1>3. p + 2 * (i - 1) + 1 = p + 2 * i - 1
  OBVIOUS
<1>4. mem[p + 2 * i] # Comma /\ mem[p + 2 * i] # Nul /\ mem[p + 2 * i + 1] = Comma
  BY <1>1, Zenon DEF CellsAt
<1> QED
  BY <1>2, <1>3, <1>4

TokenAt(mem, p, k) ==
    LET text == Text(mem, p)
    IN  Token(mem, Starts(mem, text, p), Ends(mem, text), k)

\* strtok finds these cells, each as a token of its own.
LEMMA TokensOfLineAt ==
    ASSUME NEW mem, NEW L, NEW p, NEW n, LineAt(mem, L, p, n), NEW k, k \in 0 .. n - 1
    PROVE  TokenAt(mem, p, k) = <<mem[p + 2 * k]>>
<1> DEFINE text   == Text(mem, p)
           starts == Starts(mem, text, p)
           ends   == Ends(mem, text)
<1> USE DEF LineAt
<1>1. \A j \in p .. p + 2 * n - 1 : mem[j] # Nul
  <2> SUFFICES ASSUME NEW j, j \in p .. p + 2 * n - 1 PROVE mem[j] # Nul
    OBVIOUS
  <2>1. j - p \in Nat
    OBVIOUS
  <2>2. PICK i \in Nat : j - p = 2 * i \/ j - p = 2 * i + 1
    BY <2>1, Halved
  <2>3. CASE j - p = 2 * i
    <3>1. j = p + 2 * i /\ i < n
      BY <2>3
    <3> QED
      BY <3>1, CellsAtRead
  <2>4. CASE j - p = 2 * i + 1
    <3>1. j = p + 2 * i + 1 /\ i < n
      BY <2>4
    <3> QED
      BY <3>1, CellsAtRead, CellFacts
  <2> QED
    BY <2>2, <2>3, <2>4
<1>2. \A j \in p .. p + 2 * n - 1 : j \in text
  <2> SUFFICES ASSUME NEW j, j \in p .. p + 2 * n - 1 PROVE j \in text
    OBVIOUS
  <2>1. j \in 0 .. L - 1 /\ j >= p
    OBVIOUS
  <2>2. ASSUME NEW z, z \in 0 .. L - 1, z >= p, mem[z] = Nul PROVE j < z
    BY <1>1, <2>2
  <2> QED
    BY <2>1, <2>2 DEF Text
<1>3. text \in SUBSET (0 .. L - 1) /\ \A j \in text : p <= j
  BY DEF Text
<1> HIDE DEF text
<1>4. starts \in SUBSET (0 .. L - 1) /\ ends \in SUBSET (0 .. L - 1)
      /\ (\A j \in starts : p <= j) /\ \A j \in ends : p <= j
  BY <1>3 DEF Starts, Ends
<1>5. \A i \in 0 .. k : p + 2 * i \in starts /\ p + 2 * i \in ends
  <2> SUFFICES ASSUME NEW i, i \in 0 .. k
               PROVE  p + 2 * i \in starts /\ p + 2 * i \in ends
    OBVIOUS
  <2>1. i \in Nat /\ i < n /\ p + 2 * i \in p .. p + 2 * n - 1
    OBVIOUS
  <2>2. /\ p + 2 * i \in text /\ mem[p + 2 * i] # Comma /\ mem[p + 2 * i + 1] = Comma
    BY <1>2, <2>1, CellsAtRead
  <2>3. p + 2 * i = p \/ mem[p + 2 * i - 1] = Comma
    <3>1. i = 0 => p + 2 * i = p
      OBVIOUS
    <3> QED
      BY <2>1, <3>1, CellsAtRead
  <2>4. p + 2 * i \in starts
    <3> DEFINE j == p + 2 * i
    <3>1. j \in text /\ mem[j] # Comma /\ (j = p \/ mem[j - 1] = Comma)
      BY <2>2, <2>3
    <3> HIDE DEF j
    <3>2. j \in starts
      BY <3>1, Zenon DEF Starts
    <3> QED
      BY <3>2 DEF j
  <2>5. p + 2 * i \in ends
    BY <2>2, Zenon DEF Ends
  <2> QED
    BY <2>4, <2>5
<1>6. \A i \in 1 .. k : p + 2 * i - 1 \notin starts /\ p + 2 * i - 1 \notin ends
  <2> SUFFICES ASSUME NEW i, i \in 1 .. k
               PROVE  p + 2 * i - 1 \notin starts /\ p + 2 * i - 1 \notin ends
    OBVIOUS
  <2>1. i \in Nat /\ i < n /\ i # 0
    OBVIOUS
  <2>2. mem[p + 2 * i - 1] = Comma
    BY <2>1, CellsAtRead
  <2> QED
    BY <2>2, Zenon DEF Starts, Ends
<1> HIDE DEF starts, ends
<1>7. k \in Nat
  OBVIOUS
<1>8. Nth(starts, k) = {p + 2 * k} /\ Nth(ends, k) = {p + 2 * k}
  <2>1. (\A i \in 0 .. k : p + 2 * i \in starts) /\ \A i \in 1 .. k : p + 2 * i - 1 \notin starts
    BY <1>5, <1>6
  <2>2. (\A i \in 0 .. k : p + 2 * i \in ends) /\ \A i \in 1 .. k : p + 2 * i - 1 \notin ends
    BY <1>5, <1>6
  <2>3. Nth(starts, k) = {p + 2 * k}
    BY <1>4, <1>7, <2>1, NthOfEven
  <2>4. Nth(ends, k) = {p + 2 * k}
    BY <1>4, <1>7, <2>2, NthOfEven
  <2> QED
    BY <2>3, <2>4
<1> DEFINE x == p + 2 * k
           spans == {s \in Nth(starts, k) \X Nth(ends, k) : s[1] <= s[2]}
<1>9. x \in Nat
  OBVIOUS
<1>10. Nth(starts, k) = {x} /\ Nth(ends, k) = {x}
  BY <1>8
<1> HIDE DEF x
<1>11. spans = {<<x, x>>}
  BY <1>9, <1>10
<1> HIDE DEF spans
<1>12. Token(mem, starts, ends, k)
         = [j \in 1 .. x - x + 1 |-> mem[x + j - 1]]
  <2> DEFINE s == CHOOSE r \in spans : TRUE
  <2>1. Token(mem, starts, ends, k) = [j \in 1 .. s[2] - s[1] + 1 |-> mem[s[1] + j - 1]]
    BY <1>11 DEF Token, spans
  <2>2. s = <<x, x>>
    BY <1>11
  <2> HIDE DEF s
  <2>3. s[1] = x /\ s[2] = x
    BY <2>2
  <2> QED
    BY <2>1, <2>3
<1>13. x - x + 1 = 1 /\ \A j \in 1 .. 1 : x + j - 1 = x
  BY <1>9
<1>14. Token(mem, starts, ends, k) = <<mem[x]>>
  BY <1>12, <1>13
<1> QED
  BY <1>14 DEF x, starts, ends, text, TokenAt

\* What a field says, and the address in the place of field 0.
Says(s, k) == IF k = 0 THEN s.address ELSE Feed!TextOf(s, k)

LEMMA SaysCell ==
    ASSUME NEW s, s \in Sentences, NEW k, k \in 0 .. Len(s.fields)
    PROVE  Says(s, k) \in Cell /\ Says(s, k) # Comma /\ Says(s, k) # Nul
<1>1. s.fields \in Seq(Field) /\ s.address \in Data
  BY GpsConstants
<1>2. s.address \in Cell /\ s.address # Comma /\ s.address # Nul
  BY <1>1, CellsDistinct, CellFacts
<1>3. CASE k = 0
  BY <1>2, <1>3 DEF Says
<1>4. CASE k # 0
  <2>1. k \in 1 .. Len(s.fields) /\ Says(s, k) = Feed!TextOf(s, k)
    <3>1. Len(s.fields) \in Nat
      BY <1>1
    <3>2. k \in 1 .. Len(s.fields)
      BY <1>4, <3>1
    <3>3. Says(s, k) = Feed!TextOf(s, k)
      BY <1>4, Zenon DEF Says
    <3> QED
      BY <3>2, <3>3
  <2>2. CASE s.fields[k] = Empty
    BY <2>1, <2>2, CellFacts, CellsDistinct DEF Feed!TextOf
  <2>3. CASE s.fields[k] # Empty
    <3>1. s.fields[k][1] \in Data \cup {Zero} /\ s.fields[k][1] \notin {Comma, LF, Nul, CheckSum}
      BY <1>1, <2>1, <2>3, TextCell
    <3>2. Says(s, k) = s.fields[k][1]
      BY <2>1, <2>3 DEF Feed!TextOf
    <3> QED
      BY <3>1, <3>2, CellFacts
  <2> QED
    BY <2>2, <2>3
<1> QED
  BY <1>3, <1>4

LEMMA FilledLength ==
    ASSUME NEW f, f \in Seq(Field)
    PROVE  Len(f) \in Nat /\ FilledEnd(f) \in Nat /\ FilledEnd(f) > 0
           /\ 2 * Len(f) < FilledEnd(f) + 1
<1>1. Len(f) \in Nat
  OBVIOUS
<1>2. CASE Len(f) = 0
  <2>1. FilledEnd(f) = 2
    BY <1>2 DEF FilledEnd
  <2> QED
    BY <1>1, <1>2, <2>1
<1>3. CASE Len(f) # 0
  <2>1. FilledEnd(f) = 2 * Len(f) + 1 \/ FilledEnd(f) = 2 * Len(f) + 2
    BY <1>3 DEF FilledEnd
  <2> QED
    BY <1>1, <1>3, <2>1
<1> QED
  BY <1>2, <1>3

LEMMA ZeroFilledSays ==
    ASSUME NEW s, s \in Sentences, NEW k, k \in Nat, k < Len(s.fields)
    PROVE  /\ 2 * k + 2 < Len(ZeroFilled[s])
           /\ ZeroFilled[s][2 * k + 1] = Says(s, k)
           /\ ZeroFilled[s][2 * k + 2] = Comma
<1> DEFINE f == s.fields
           z == ZeroFilled[s]
<1>1. f \in Seq(Field) /\ Len(z) = FilledEnd(f) + 1 /\ z[1] = s.address
  BY SentenceCells
<1>2. \A i \in 1 .. Len(f) :
         /\ z[2 * i] = Comma
         /\ i < Len(f) \/ f[i] # Empty =>
               z[2 * i + 1] = IF f[i] = Empty THEN Zero ELSE f[i][1]
  BY SentenceCells
<1>3. Len(f) \in Nat /\ 2 * Len(f) < Len(z)
  BY <1>1, FilledLength
<1> HIDE DEF f, z
<1>4. k + 1 \in 1 .. Len(f) /\ 2 * (k + 1) = 2 * k + 2 /\ 2 * k + 2 < Len(z)
  <2>1. k < Len(f) /\ Len(z) \in Nat
    BY ZeroFilledType DEF f, z
  <2> QED
    BY <1>3, <2>1
<1>5. z[2 * (k + 1)] = Comma
  BY <1>2, <1>4
<1>6. z[2 * k + 1] = Says(s, k)
  <2>1. CASE k = 0
    BY <1>1, <2>1 DEF Says
  <2>2. CASE k # 0
    <3>1. k \in 1 .. Len(f) /\ k < Len(f)
      BY <1>3, <2>2 DEF f
    <3>2. z[2 * k + 1] = IF f[k] = Empty THEN Zero ELSE f[k][1]
      BY <1>2, <3>1
    <3> QED
      BY <2>2, <3>2 DEF Says, Feed!TextOf, f
  <2> QED
    BY <2>1, <2>2
<1> QED
  BY <1>4, <1>5, <1>6 DEF f, z

LEMMA PassiveInMemory ==
    ASSUME TypeOK, NEW i, i \in 0 .. BufLen - 1
    PROVE  Start + i \in 0 .. 2 * BufLen - 1 /\ Memory[Start + i] = buffer[Passive][i]
<1>1. active_buffer \in {0, 1} /\ BufLen \in Nat
  BY GpsConstants DEF TypeOK
<1>2. CASE Passive = 0
  BY <1>1, <1>2, MemoryRead DEF Start
<1>3. CASE Passive # 0
  <2>1. Passive = 1 /\ Start = BufLen
    BY <1>1, <1>3 DEF Passive, Start
  <2> DEFINE j == BufLen + i
  <2>2. i \in Nat /\ i < BufLen
    BY <1>1
  <2>3. j \in 0 .. 2 * BufLen - 1 /\ ~(j < BufLen) /\ j - BufLen = i
    BY <1>1, <2>2
  <2> HIDE DEF j
  <2>4. Memory[j] = buffer[1][i]
    BY <2>3, MemoryRead
  <2> QED
    BY <2>1, <2>3, <2>4 DEF j
<1> QED
  BY <1>2, <1>3

\* Of a sentence that waits strtok makes the address and the texts of all its
\* fields but the last, each a token of its own.
LEMMA LineTokens ==
    ASSUME TypeOK, PassiveHoldsLine, process_required,
           NEW s, s \in Sentences, lastLine = Bytes[s],
           NEW k, k \in 0 .. 11, k < Len(s.fields)
    PROVE  TokenOfLine[k] = <<Says(s, k)>>
<1> DEFINE L == 2 * BufLen
           n == k + 1
           z == ZeroFilled[s]
<1>1. /\ Len(z) <= BufLen
      /\ \A i \in DOMAIN z : buffer[Passive][i - 1] = z[i]
  BY DEF PassiveHoldsLine
<1>2. Len(z) \in Nat /\ DOMAIN z = 1 .. Len(z) /\ BufLen \in Nat
  BY ZeroFilledType, GpsConstants
<1>3. Len(s.fields) \in Nat
  BY SentenceCells
<1> HIDE DEF z
<1>4. \A i \in 1 .. Len(z) : Memory[Start + i - 1] = z[i]
  <2> SUFFICES ASSUME NEW i, i \in 1 .. Len(z) PROVE Memory[Start + i - 1] = z[i]
    OBVIOUS
  <2>1. i - 1 \in 0 .. BufLen - 1
    BY <1>1, <1>2
  <2>2. Memory[Start + (i - 1)] = buffer[Passive][i - 1]
    BY <2>1, PassiveInMemory
  <2>3. Start \in Nat
    BY <1>2 DEF Start
  <2>4. Start + (i - 1) = Start + i - 1
    BY <1>2, <2>3
  <2> QED
    BY <1>1, <1>2, <2>2, <2>4
<1>5. \A i \in 0 .. k : /\ 2 * i + 2 < Len(z) /\ z[2 * i + 1] = Says(s, i)
                        /\ z[2 * i + 2] = Comma
                        /\ Says(s, i) # Comma /\ Says(s, i) # Nul
  BY <1>3, ZeroFilledSays, SaysCell DEF z
<1> DEFINE mem == Memory
<1>6. mem \in [0 .. L - 1 -> Cell] /\ L \in Nat
  BY <1>2, MemoryType DEF TypeOK, Buffers
<1>7. Start \in Nat /\ n \in Nat /\ k \in 0 .. n - 1 /\ Start + BufLen <= L
  BY <1>2 DEF Start
<1>8. CellsAt(mem, Start, n)
  <2>1. ASSUME NEW i, i \in 0 .. k
        PROVE  mem[Start + 2 * i] \notin {Comma, Nul} /\ mem[Start + 2 * i + 1] = Comma
    <3>1. 2 * i + 2 < Len(z) /\ i \in Nat
      BY <1>5, <2>1
    <3>2. 2 * i + 1 \in 1 .. Len(z) /\ 2 * i + 2 \in 1 .. Len(z)
      BY <1>2, <3>1
    <3>3. /\ Start + (2 * i + 1) - 1 = Start + 2 * i
          /\ Start + (2 * i + 2) - 1 = Start + 2 * i + 1
      BY <1>7, <3>1
    <3>4. mem[Start + 2 * i] = z[2 * i + 1] /\ mem[Start + 2 * i + 1] = z[2 * i + 2]
      BY <1>4, <3>2, <3>3
    <3>5. /\ z[2 * i + 1] = Says(s, i) /\ z[2 * i + 2] = Comma
          /\ Says(s, i) # Comma /\ Says(s, i) # Nul
      BY <1>5, <2>1
    <3> QED
      BY <3>4, <3>5
  <2>2. n - 1 = k
    OBVIOUS
  <2> QED
    BY <2>1, <2>2 DEF CellsAt
<1>9. Start + 2 * n <= L
  <2>1. 2 * k + 2 < Len(z)
    BY <1>5
  <2> QED
    BY <1>1, <1>2, <1>7, <2>1
<1>10. mem[Start + 2 * k] = Says(s, k)
  <2>1. 2 * k + 1 \in 1 .. Len(z) /\ Start + (2 * k + 1) - 1 = Start + 2 * k
        /\ z[2 * k + 1] = Says(s, k)
    BY <1>2, <1>5, <1>7
  <2> QED
    BY <1>4, <2>1
<1> HIDE DEF L, n, mem
<1>11. TokenAt(mem, Start, k) = <<mem[Start + 2 * k]>>
  <2>1. LineAt(mem, L, Start, n)
    BY <1>6, <1>7, <1>8, <1>9 DEF LineAt
  <2> QED
    BY <1>7, <2>1, TokensOfLineAt
<1>12. TokenOfLine[k] = TokenAt(mem, Start, k)
  BY Zenon DEF TokenOfLine, TokenAt, mem
<1> QED
  BY <1>10, <1>11, <1>12

-----------------------------------------------------------------------------
(* What ticktock makes of the tokens *)

LEMMA SameTime ==
    ASSUME NEW t, t \in Time, NEW u, u \in Time,
           t.year = u.year, t.month = u.month, t.day = u.day,
           t.hour = u.hour, t.minute = u.minute, t.second = u.second,
           t.tenths = u.tenths, t.hundreths = u.hundreths,
           t.status = u.status, t.velocity = u.velocity, t.track = u.track,
           t.magvar = u.magvar, t.magvar_dir = u.magvar_dir
    PROVE  t = u
BY DEF Time

\* Everything but the fraction.
Agree(t, u) ==
    /\ t.year = u.year /\ t.month = u.month /\ t.day = u.day
    /\ t.hour = u.hour /\ t.minute = u.minute /\ t.second = u.second
    /\ t.status = u.status /\ t.velocity = u.velocity /\ t.track = u.track
    /\ t.magvar = u.magvar /\ t.magvar_dir = u.magvar_dir

LEMMA ResetFields ==
    ASSUME NEW t, t \in Time
    PROVE  /\ FractionalReset(t) \in Time /\ Agree(FractionalReset(t), t)
           /\ FractionalReset(t).tenths = 0 /\ FractionalReset(t).hundreths = 0
<1>1. FractionalReset(t) \in Time
  BY FractionalResetType
<1>2. Agree(FractionalReset(t), t)
  BY Zenon DEF Time, FractionalReset, Agree
<1>3. FractionalReset(t).tenths = 0 /\ FractionalReset(t).hundreths = 0
  BY Zenon DEF Time, FractionalReset
<1> QED
  BY <1>1, <1>2, <1>3

LEMMA ResetEqual ==
    ASSUME NEW t, t \in Time, NEW u, u \in Time, Agree(t, u)
    PROVE  FractionalReset(t) = FractionalReset(u)
<1>1. Agree(FractionalReset(t), t) /\ Agree(FractionalReset(u), u)
  BY ResetFields
<1>2. Agree(FractionalReset(t), FractionalReset(u))
  BY <1>1, Zenon DEF Agree
<1>3. /\ FractionalReset(t) \in Time /\ FractionalReset(u) \in Time
      /\ FractionalReset(t).tenths = FractionalReset(u).tenths
      /\ FractionalReset(t).hundreths = FractionalReset(u).hundreths
  BY ResetFields, Zenon
<1> QED
  BY <1>2, <1>3, SameTime, Zenon DEF Agree

\* A tick changes the fraction only.
LEMMA TickReset ==
    ASSUME NEW t, t \in Time
    PROVE  FractionalReset(PlusHundredth(t)) = FractionalReset(t)
<1>1. PlusHundredth(t) \in Time
  BY PlusHundredthType
<1>2. Agree(PlusHundredth(t), t)
  <2>1. CASE t.hundreths + 1 # Radix
    <3> DEFINE u == [t EXCEPT !.hundreths = t.hundreths + 1]
    <3>1. Agree(u, t)
      BY Zenon DEF Time, Agree
    <3>2. PlusHundredth(t) = u
      BY <2>1 DEF PlusHundredth
    <3> HIDE DEF u
    <3> QED
      BY <3>1, <3>2
  <2>2. CASE t.hundreths + 1 = Radix /\ t.tenths + 1 # Radix
    <3> DEFINE u == [t EXCEPT !.hundreths = 0, !.tenths = t.tenths + 1]
    <3>1. Agree(u, t)
      BY Zenon DEF Time, Agree
    <3>2. PlusHundredth(t) = u
      BY <2>2 DEF PlusHundredth
    <3> HIDE DEF u
    <3> QED
      BY <3>1, <3>2
  <2>3. CASE t.hundreths + 1 = Radix /\ t.tenths + 1 = Radix
    BY <2>3, ResetFields, Zenon DEF PlusHundredth
  <2> QED
    BY <2>1, <2>2, <2>3, Zenon
<1> QED
  BY <1>1, <1>2, ResetEqual

\* A second changes the date and the clock only.
LEMMA SecondKeeps ==
    ASSUME NEW t, t \in Time, NEW days
    PROVE  LET u == PlusSecond(t, days)
           IN  /\ u \in Time /\ u.status = t.status /\ u.velocity = t.velocity
               /\ u.track = t.track /\ u.magvar = t.magvar /\ u.magvar_dir = t.magvar_dir
<1> DEFINE Kept(u) == /\ u.status = t.status /\ u.velocity = t.velocity
                      /\ u.track = t.track /\ u.magvar = t.magvar
                      /\ u.magvar_dir = t.magvar_dir
           f == FractionalReset(t)
           m == [f EXCEPT !.second = 0]
           h == [m EXCEPT !.minute = 0]
           d == [h EXCEPT !.hour = 0]
<1>0. 0 \in Int
  OBVIOUS
<1>1. PlusSecond(t, days) \in Time
  BY PlusSecondType
<1>2. f \in Time /\ Kept(f)
  BY ResetFields, Zenon DEF Agree
<1> HIDE DEF f
<1>3. m \in Time /\ Kept(m) /\ Kept([f EXCEPT !.second = f.second + 1])
  BY <1>0, <1>2, Zenon DEF Time
<1> HIDE DEF m
<1>4. h \in Time /\ Kept(h) /\ Kept([m EXCEPT !.minute = m.minute + 1])
  BY <1>0, <1>3, Zenon DEF Time
<1> HIDE DEF h
<1>5. d \in Time /\ Kept(d) /\ Kept([h EXCEPT !.hour = h.hour + 1])
  BY <1>0, <1>4, Zenon DEF Time
<1> HIDE DEF d
<1>6. Kept(NextDay(d, days))
  <2> DEFINE length == IF d.month = 2 /\ LeapYear(d.year) THEN days + 1 ELSE days
             y == IF d.month + 1 = 13 THEN d.year + 1 ELSE d.year
  <2>1. \/ NextDay(d, days) = [d EXCEPT !.day = d.day + 1]
        \/ NextDay(d, days) = [d EXCEPT !.day = 1, !.month = d.month + 1, !.year = y]
    BY Zenon DEF NextDay
  <2> HIDE DEF y
  <2>2. Kept([d EXCEPT !.day = d.day + 1])
    BY <1>5, Zenon DEF Time
  <2>3. Kept([d EXCEPT !.day = 1, !.month = d.month + 1, !.year = y])
    BY <1>5, Zenon DEF Time
  <2> HIDE DEF Kept
  <2> QED
    BY <2>1, <2>2, <2>3, Zenon
<1>7. \/ PlusSecond(t, days) = [f EXCEPT !.second = f.second + 1]
      \/ PlusSecond(t, days) = [m EXCEPT !.minute = m.minute + 1]
      \/ PlusSecond(t, days) = [h EXCEPT !.hour = h.hour + 1]
      \/ PlusSecond(t, days) = NextDay(d, days)
  BY Zenon DEF PlusSecond, f, m, h, d
<1>8. Kept(PlusSecond(t, days))
  <2> HIDE DEF Kept
  <2> QED
    BY <1>3, <1>4, <1>5, <1>6, <1>7, Zenon
<1> QED
  BY <1>1, <1>8

\* The texts of the fields, each in a token of its own.
Tells(token, s, n) == \A k \in 1 .. n : token[k] = <<Feed!TextOf(s, k)>>

LEMMA TellsText ==
    ASSUME NEW token, NEW s, NEW n, n \in Nat, Tells(token, s, n), NEW k, k \in 1 .. n
    PROVE  /\ token[k] # Empty /\ FirstChar(token[k]) = Feed!TextOf(s, k)
           /\ NumberOf(token[k]) = <<Feed!TextOf(s, k)>> /\ token[k] = <<Feed!TextOf(s, k)>>
<1>1. token[k] = <<Feed!TextOf(s, k)>>
  BY Zenon DEF Tells
<1> DEFINE x == Feed!TextOf(s, k)
<1> HIDE DEF x
<1>2. <<x>> # <<>> /\ <<x>>[1] = x
  OBVIOUS
<1>3. token[k] = <<x>> /\ token[k] # Empty
  BY <1>1, <1>2 DEF x, Empty
<1>4. FirstChar(token[k]) = x /\ NumberOf(token[k]) = <<x>>
  BY <1>2, <1>3 DEF FirstChar, NumberOf
<1> QED
  BY <1>1, <1>3, <1>4 DEF x

LEMMA TextOfCell ==
    ASSUME NEW s, s \in Sentences, NEW k, k \in 1 .. Len(s.fields)
    PROVE  Feed!TextOf(s, k) \in Cell
<1>1. Len(s.fields) \in Nat
  BY SentenceCells
<1>2. k \in 0 .. Len(s.fields) /\ k # 0
  BY <1>1
<1>3. Says(s, k) = Feed!TextOf(s, k)
  BY <1>2, Zenon DEF Says
<1> QED
  BY <1>2, <1>3, SaysCell

\* nmea_rmc takes all it wants from the sentence and keeps the fraction only.
LEMMA RmcApplied ==
    ASSUME NEW t, t \in Time, NEW token, token \in Texts12, NEW pps,
           NEW s, s \in Sentences, Len(s.fields) > 11, Tells(token, s, 11)
    PROVE  FractionalReset(AfterRmc(t, token, pps)) = Feed!TimeOf(s)
<1> DEFINE new == NmeaRmc(t, token)
           u == Feed!TimeOf(s)
           x(k) == Feed!TextOf(s, k)
           c == ClockOf(x(1))
           d == DateOf(x(9))
<1>1. \A k \in 1 .. 11 : /\ token[k] # Empty /\ FirstChar(token[k]) = x(k)
                         /\ NumberOf(token[k]) = <<x(k)>>
  BY TellsText
<1>2. \A k \in 1 .. 11 : x(k) \in Cell /\ <<x(k)>> \in Number
  <2> SUFFICES ASSUME NEW k, k \in 1 .. 11 PROVE x(k) \in Cell /\ <<x(k)>> \in Number
    OBVIOUS
  <2>1. k \in 1 .. Len(s.fields)
    <3>1. Len(s.fields) \in Nat
      BY SentenceCells
    <3> QED
      BY <3>1
  <2>2. x(k) \in Cell
    BY <2>1, TextOfCell
  <2> HIDE DEF x
  <2> QED
    BY <2>2 DEF Number
<1>3. 1 \in 1 .. 11 /\ 2 \in 1 .. 11 /\ 7 \in 1 .. 11 /\ 8 \in 1 .. 11
      /\ 9 \in 1 .. 11 /\ 10 \in 1 .. 11 /\ 11 \in 1 .. 11
  OBVIOUS
<1>4. u = [year |-> d.year, month |-> d.month, day |-> d.day,
           hour |-> c.hour, minute |-> c.minute, second |-> c.second,
           tenths |-> 0, hundreths |-> 0, status |-> x(2),
           velocity |-> <<x(7)>>, track |-> <<x(8)>>,
           magvar |-> <<x(10)>>, magvar_dir |-> x(11)]
  BY Zenon DEF Feed!TimeOf
<1>5. new = [hour |-> c.hour, minute |-> c.minute, second |-> c.second,
             day |-> d.day, month |-> d.month, year |-> d.year,
             tenths |-> t.tenths, hundreths |-> t.hundreths, status |-> x(2),
             velocity |-> <<x(7)>>, track |-> <<x(8)>>,
             magvar |-> <<x(10)>>, magvar_dir |-> x(11)]
  <2> HIDE DEF x
  <2> QED
    BY <1>1, <1>3, Zenon DEF NmeaRmc
<1>6. c \in Clock /\ d \in Date
  <2> HIDE DEF x
  <2> QED
    BY <1>2, <1>3, ConversionTypes
<1>7. new \in Time
  BY RmcType
<1> HIDE DEF x, c, d
<1>8. u \in Time
  <2>1. 0 \in 0 .. Radix - 1
    BY RadixType
  <2>2. /\ c.hour \in Int /\ c.minute \in Int /\ c.second \in Int
        /\ d.day \in Int /\ d.month \in Int /\ d.year \in Int
    BY <1>6 DEF Clock, Date
  <2> HIDE DEF u
  <2> QED
    BY <1>2, <1>3, <1>4, <2>1, <2>2, Zenon DEF Time
<1> HIDE DEF new, u
<1>9. Agree(new, u)
  BY <1>4, <1>5, Zenon DEF Agree
<1>10. u.tenths = 0 /\ u.hundreths = 0
  BY <1>4, Zenon
<1>11. FractionalReset(u) = u
  <2>1. /\ FractionalReset(u) \in Time /\ Agree(FractionalReset(u), u)
        /\ FractionalReset(u).tenths = 0 /\ FractionalReset(u).hundreths = 0
    BY <1>8, ResetFields
  <2> QED
    BY <1>8, <1>10, <2>1, SameTime DEF Agree
<1>12. FractionalReset(new) = u
  BY <1>7, <1>8, <1>9, <1>11, ResetEqual
<1>13. FractionalReset(AfterRmc(t, token, pps)) = u
  <2>1. AfterRmc(t, token, pps) = new \/ AfterRmc(t, token, pps) = FractionalReset(new)
    BY Zenon DEF AfterRmc, new
  <2> QED
    BY <1>11, <1>12, <2>1
<1> QED
  BY <1>13 DEF u

LEMMA GgaApplied ==
    ASSUME NEW place, NEW token, NEW s, Tells(token, s, 9)
    PROVE  NmeaGga(place, token) = Feed!PlaceOf(s)
<1> DEFINE x(k) == Feed!TextOf(s, k)
<1>1. \A k \in 1 .. 9 : /\ token[k] # Empty /\ FirstChar(token[k]) = x(k)
                        /\ NumberOf(token[k]) = <<x(k)>> /\ token[k] = <<x(k)>>
  BY TellsText
<1>2. Feed!PlaceOf(s) =
        [lat |-> [text |-> x(2), dir |-> x(2 + 1)],
         lon |-> [text |-> x(4), dir |-> x(4 + 1)], alt |-> <<x(9)>>,
         sats |-> <<x(7)>>, quality |-> <<x(6)>>]
  BY Zenon DEF Feed!PlaceOf, Feed!Angle
<1> HIDE DEF x
<1>3. 2 \in 1 .. 9 /\ 3 \in 1 .. 9 /\ 4 \in 1 .. 9 /\ 5 \in 1 .. 9 /\ 6 \in 1 .. 9
      /\ 7 \in 1 .. 9 /\ 9 \in 1 .. 9 /\ 2 + 1 = 3 /\ 4 + 1 = 5
  OBVIOUS
<1>4. \A n \in {2, 4, 7, 9} : token[n] # Empty
  BY <1>1, <1>3
<1>5. AngleOf(token[2], token[3]) = [text |-> x(2), dir |-> x(3)]
  BY <1>1, <1>3, Zenon DEF AngleOf
<1>6. AngleOf(token[4], token[5]) = [text |-> x(4), dir |-> x(5)]
  BY <1>1, <1>3, Zenon DEF AngleOf
<1>7. token[9] = <<x(9)>> /\ token[7] = <<x(7)>> /\ NumberOf(token[6]) = <<x(6)>>
  BY <1>1, <1>3
<1>8. NmeaGga(place, token) =
        [lat |-> AngleOf(token[2], token[3]), lon |-> AngleOf(token[4], token[5]),
         alt |-> token[9], sats |-> token[7], quality |-> NumberOf(token[6])]
  BY <1>4, Zenon DEF NmeaGga
<1> QED
  BY <1>2, <1>3, <1>5, <1>6, <1>7, <1>8

LEMMA VtgApplied ==
    ASSUME NEW track, NEW token, NEW s, Tells(token, s, 7)
    PROVE  NmeaVtg(track, token) = Feed!TrackOf(s)
<1> DEFINE x(k) == Feed!TextOf(s, k)
<1>1. \A k \in 1 .. 7 : token[k] # Empty /\ token[k] = <<x(k)>>
  BY TellsText
<1>2. Feed!TrackOf(s) = [true |-> <<x(1)>>, mag |-> <<x(3)>>,
                         knots |-> <<x(5)>>, kph |-> <<x(7)>>]
  BY Zenon DEF Feed!TrackOf
<1> HIDE DEF x
<1>3. 1 \in 1 .. 7 /\ 3 \in 1 .. 7 /\ 5 \in 1 .. 7 /\ 7 \in 1 .. 7
  OBVIOUS
<1>4. /\ token[1] # Empty /\ token[3] # Empty /\ token[5] # Empty /\ token[7] # Empty
      /\ token[1] = <<x(1)>> /\ token[3] = <<x(3)>> /\ token[5] = <<x(5)>>
      /\ token[7] = <<x(7)>>
  BY <1>1, <1>3
<1>5. NmeaVtg(track, token) = [true |-> token[1], mag |-> token[3],
                               knots |-> token[5], kph |-> token[7]]
  BY <1>4, Zenon DEF NmeaVtg
<1> QED
  BY <1>2, <1>4, <1>5

-----------------------------------------------------------------------------
(* The driver is a mailbox *)

\* The sentences that are parsed have the fields that the parsers read, and
\* behind them at least one more, with which the checksum is read.
Complete ==
    \A s \in Sentences :
        /\ s.address = Rmc => Len(s.fields) > 11
        /\ s.address = Gga => Len(s.fields) > 9
        /\ s.address = Vtg => Len(s.fields) > 7

\* ticktock sees the sentence that came in.
LEMMA SentenceSeen ==
    ASSUME TypeOK, PassiveHoldsLine, process_required,
           NEW s, s \in Sentences, lastLine = Bytes[s], NEW a
    PROVE  Parses(a) <=> s.address = a
<1>1. /\ Len(ZeroFilled[s]) <= BufLen
      /\ \A i \in DOMAIN ZeroFilled[s] : buffer[Passive][i - 1] = ZeroFilled[s][i]
  BY DEF PassiveHoldsLine
<1>2. ZeroFilled[s][1] = s.address /\ 1 \in DOMAIN ZeroFilled[s]
  <2>1. ZeroFilled[s][1] = s.address /\ Len(ZeroFilled[s]) = FilledEnd(s.fields) + 1
    BY SentenceCells
  <2>2. ZeroFilled[s][FilledEnd(s.fields) + 1] = LF /\ Len(ZeroFilled[s]) \in Nat
        /\ DOMAIN ZeroFilled[s] = 1 .. Len(ZeroFilled[s])
    BY SentenceCells, ZeroFilledType
  <2>3. s.fields \in Seq(Field)
    BY SentenceCells
  <2>4. FilledEnd(s.fields) > 0 /\ FilledEnd(s.fields) \in Nat
    BY <2>3, FilledLength
  <2>5. 1 \in 1 .. FilledEnd(s.fields) + 1
    BY <2>4
  <2> QED
    BY <2>1, <2>2, <2>5
<1>3. buffer[Passive][0] = s.address
  BY <1>1, <1>2
<1> QED
  BY <1>3 DEF Parses

LEMMA SentenceTold ==
    ASSUME TypeOK, PassiveHoldsLine, process_required,
           NEW s, s \in Sentences, lastLine = Bytes[s],
           NEW n, n \in 1 .. 11, n < Len(s.fields)
    PROVE  Tells(TokenOfLine, s, n)
<1> SUFFICES ASSUME NEW k, k \in 1 .. n PROVE TokenOfLine[k] = <<Feed!TextOf(s, k)>>
  BY DEF Tells
<1>1. Len(s.fields) \in Nat
  BY SentenceCells
<1>2. k \in 0 .. 11 /\ k < Len(s.fields) /\ k # 0
  BY <1>1
<1>3. TokenOfLine[k] = <<Says(s, k)>>
  BY <1>2, LineTokens
<1> QED
  BY <1>2, <1>3, Zenon DEF Says

\* Parsing a sentence is the step of the mailbox that takes it.
LEMMA TicktockParses ==
    ASSUME TypeOK, PassiveHoldsLine, process_required, Complete, Ticktock,
           NEW s, s \in Sentences, lastLine = Bytes[s]
    PROVE  Feed!Parse(s)
<1> DEFINE t == PlusHundredth(theTime)
<1>1. /\ theTime \in Time /\ t \in Time
      /\ TokenOfLine \in Texts12
      /\ FractionalReset(t) = FractionalReset(theTime)
  BY PlusHundredthType, TokensType, TickReset DEF TypeOK, Buffers
<1>2. FractionalReset(theTime') = IF s.address = Rmc THEN Feed!TimeOf(s)
                                  ELSE FractionalReset(theTime)
  <2>1. theTime' = IF Parses(Rmc) THEN AfterRmc(t, TokenOfLine, PpsInUse) ELSE t
    BY DEF Ticktock, TimeAfterTick
  <2>2. CASE s.address = Rmc
    <3>1. Len(s.fields) > 11 /\ 11 \in 1 .. 11 /\ 11 < Len(s.fields)
      BY <2>2 DEF Complete
    <3>2. Tells(TokenOfLine, s, 11)
      BY <3>1, SentenceTold
    <3>3. FractionalReset(AfterRmc(t, TokenOfLine, PpsInUse)) = Feed!TimeOf(s)
      <4> HIDE DEF t
      <4> QED
        BY <1>1, <3>1, <3>2, RmcApplied
    <3>4. Parses(Rmc)
      BY <2>2, SentenceSeen
    <3> QED
      BY <2>1, <2>2, <3>3, <3>4
  <2>3. CASE s.address # Rmc
    <3>1. ~Parses(Rmc)
      BY <2>3, SentenceSeen
    <3> QED
      BY <1>1, <2>1, <2>3, <3>1
  <2> QED
    BY <2>2, <2>3
<1>3. thePlace' = IF s.address = Gga THEN Feed!PlaceOf(s) ELSE thePlace
  <2>1. thePlace' = IF Parses(Gga) THEN NmeaGga(thePlace, TokenOfLine) ELSE thePlace
    BY DEF Ticktock
  <2>2. CASE s.address = Gga
    <3>1. 9 \in 1 .. 11 /\ 9 < Len(s.fields)
      <4>1. Len(s.fields) \in Nat /\ Len(s.fields) > 9
        BY <2>2, SentenceCells DEF Complete
      <4> QED
        BY <4>1
    <3>2. Tells(TokenOfLine, s, 9)
      BY <3>1, SentenceTold
    <3>3. NmeaGga(thePlace, TokenOfLine) = Feed!PlaceOf(s)
      BY <3>2, GgaApplied
    <3>4. Parses(Gga)
      BY <2>2, SentenceSeen
    <3> QED
      BY <2>1, <2>2, <3>3, <3>4
  <2>3. CASE s.address # Gga
    <3>1. ~Parses(Gga)
      BY <2>3, SentenceSeen
    <3> QED
      BY <2>1, <2>3, <3>1
  <2> QED
    BY <2>2, <2>3
<1>4. theVTG' = IF s.address = Vtg THEN Feed!TrackOf(s) ELSE theVTG
  <2>1. theVTG' = IF Parses(Vtg) THEN NmeaVtg(theVTG, TokenOfLine) ELSE theVTG
    BY DEF Ticktock
  <2>2. CASE s.address = Vtg
    <3>1. 7 \in 1 .. 11 /\ 7 < Len(s.fields)
      <4>1. Len(s.fields) \in Nat /\ Len(s.fields) > 7
        BY <2>2, SentenceCells DEF Complete
      <4> QED
        BY <4>1
    <3>2. Tells(TokenOfLine, s, 7)
      BY <3>1, SentenceTold
    <3>3. NmeaVtg(theVTG, TokenOfLine) = Feed!TrackOf(s)
      BY <3>2, VtgApplied
    <3>4. Parses(Vtg)
      BY <2>2, SentenceSeen
    <3> QED
      BY <2>1, <2>2, <3>3, <3>4
  <2>3. CASE s.address # Vtg
    <3>1. ~Parses(Vtg)
      BY <2>3, SentenceSeen
    <3> QED
      BY <2>1, <2>3, <3>1
  <2> QED
    BY <2>2, <2>3
<1>5. /\ process_required /\ process_required' = FALSE /\ lastLine = Bytes[s]
      /\ UNCHANGED <<raw, lastLine>>
  BY DEF Ticktock
<1> QED
  BY <1>2, <1>3, <1>4, <1>5, Zenon DEF Feed!Parse, Feed!Is

\* A tick without a sentence to parse: what came in is garbage, or nothing did.
LEMMA TicktockElse ==
    ASSUME TypeOK, Ticktock, ~(process_required /\ \E s \in Sentences : lastLine = Bytes[s])
    PROVE  Feed!ParseGarbage \/ UNCHANGED Feed!vars
<1>1. process_required' = FALSE /\ UNCHANGED <<raw, lastLine>>
  BY DEF Ticktock
<1>2. CASE process_required
  <2>1. ~Feed!Known
    BY <1>2, Zenon DEF Feed!Known, Feed!Is
  <2> QED
    BY <1>1, <1>2, <2>1 DEF Feed!ParseGarbage
<1>3. CASE ~process_required
  <2>1. \A a : ~Parses(a)
    BY <1>3 DEF Parses
  <2>2. theTime' = PlusHundredth(theTime)
    BY <2>1 DEF Ticktock, TimeAfterTick
  <2>3. FractionalReset(theTime') = FractionalReset(theTime)
    BY <2>2, TickReset DEF TypeOK
  <2>4. thePlace' = thePlace /\ theVTG' = theVTG
    BY <2>1 DEF Ticktock
  <2>5. process_required' = process_required
    BY <1>1, <1>3 DEF TypeOK
  <2> QED
    BY <1>1, <2>3, <2>4, <2>5 DEF Feed!vars
<1> QED
  BY <1>2, <1>3

LEMMA RxIrqArrives == ASSUME TypeOK, RxIrq PROVE Feed!Arrive
<1> DEFINE c == Head(fifo)
<1>1. raw \in Seq(Cell) /\ c \in Cell
  BY DEF TypeOK, RxIrq
<1>2. UNCHANGED <<theTime, thePlace, theVTG>>
  BY DEF RxIrq, appVars
<1>3. UNCHANGED <<FractionalReset(theTime), thePlace, theVTG>>
  BY <1>2
<1>4. CASE c = LF
  <2>1. raw' = <<>> /\ lastLine' = Append(raw, LF) /\ process_required' = TRUE
    BY <1>4 DEF RxIrq
  <2> QED
    BY <1>3, <2>1 DEF Feed!Arrive
<1>5. CASE c # LF
  <2>1. raw' = Append(raw, c) /\ UNCHANGED <<process_required, lastLine>>
    BY <1>5 DEF RxIrq
  <2> HIDE DEF c
  <2>2. /\ Len(raw') = Len(raw) + 1 /\ raw'[Len(raw')] = c
        /\ SubSeq(raw', 1, Len(raw)) = raw
    BY <1>1, <2>1
  <2> QED
    BY <1>3, <1>5, <2>1, <2>2 DEF Feed!Arrive
<1> QED
  BY <1>4, <1>5

LEMMA PpsIrqPulses == ASSUME TypeOK, PpsIrq PROVE Feed!Pulse
<1> DEFINE t == FractionalReset(theTime)
           u == FractionalReset(theTime')
           v == [t EXCEPT !.year = u.year, !.month = u.month, !.day = u.day,
                          !.hour = u.hour, !.minute = u.minute, !.second = u.second]
<1>1. PICK days : theTime' = PlusSecond(theTime, days)
  BY DEF PpsIrq
<1>2. /\ theTime' \in Time /\ theTime \in Time /\ theTime'.status = theTime.status
      /\ theTime'.velocity = theTime.velocity /\ theTime'.track = theTime.track
      /\ theTime'.magvar = theTime.magvar /\ theTime'.magvar_dir = theTime.magvar_dir
  BY <1>1, SecondKeeps DEF TypeOK
<1>3. /\ t \in Time /\ Agree(t, theTime) /\ t.tenths = 0 /\ t.hundreths = 0
      /\ u \in Time /\ Agree(u, theTime') /\ u.tenths = 0 /\ u.hundreths = 0
  BY <1>2, ResetFields
<1> HIDE DEF t, u
<1>4. /\ u.status = t.status /\ u.velocity = t.velocity /\ u.track = t.track
      /\ u.magvar = t.magvar /\ u.magvar_dir = t.magvar_dir
  BY <1>2, <1>3, Zenon DEF Agree
<1>5. /\ u.year \in Int /\ u.month \in Int /\ u.day \in Int
      /\ u.hour \in Int /\ u.minute \in Int /\ u.second \in Int
  BY <1>3, Zenon DEF Time
<1>6. v \in Time
  BY <1>3, <1>5, Zenon DEF Time
<1>7. /\ v.year = u.year /\ v.month = u.month /\ v.day = u.day
      /\ v.hour = u.hour /\ v.minute = u.minute /\ v.second = u.second
      /\ v.tenths = t.tenths /\ v.hundreths = t.hundreths
      /\ v.status = t.status /\ v.velocity = t.velocity /\ v.track = t.track
      /\ v.magvar = t.magvar /\ v.magvar_dir = t.magvar_dir
  BY <1>3, Zenon DEF Time
<1> HIDE DEF v
<1>8. u = v
  BY <1>3, <1>4, <1>6, <1>7, SameTime
<1>9. PpsInUse /\ UNCHANGED <<raw, lastLine, process_required, thePlace, theVTG>>
  BY DEF PpsIrq, rxVars
<1> QED
  BY <1>8, <1>9, Zenon DEF Feed!Pulse, t, u, v

LEMMA FeedStep ==
    ASSUME TypeOK, PassiveHoldsLine, Complete, [Next]_vars
    PROVE  [Feed!Next]_(Feed!vars)
<1>1. CASE \/ UNCHANGED <<raw, lastLine, process_required, theTime, thePlace, theVTG>>
  BY <1>1 DEF Feed!vars
<1>2. CASE RxIrq
  BY <1>2, RxIrqArrives DEF Feed!Next
<1>3. CASE Ticktock
  <2>1. CASE process_required /\ \E s \in Sentences : lastLine = Bytes[s]
    <3>1. PICK s \in Sentences : lastLine = Bytes[s]
      BY <2>1
    <3>2. Feed!Parse(s)
      BY <1>3, <2>1, <3>1, TicktockParses
    <3> QED
      BY <3>2, Zenon DEF Feed!Next
  <2>2. CASE ~(process_required /\ \E s \in Sentences : lastLine = Bytes[s])
    BY <1>3, <2>2, TicktockElse DEF Feed!Next
  <2> QED
    BY <2>1, <2>2
<1>4. CASE PpsIrq
  BY <1>4, PpsIrqPulses DEF Feed!Next
<1>5. CASE (\E s \in Sentences : Transmit(s)) \/ UartIn \/ UartOverrun
            \/ KeypadEnter \/ KeypadLeave \/ UNCHANGED vars
  <2>1. UNCHANGED <<raw, lastLine, process_required, theTime, thePlace, theVTG>>
    BY <1>5 DEF Transmit, UartIn, UartOverrun, Arrives, KeypadEnter, KeypadLeave,
                rxVars, appVars, vars
  <2> QED
    BY <1>1, <2>1
<1> QED
  BY <1>2, <1>3, <1>4, <1>5 DEF Next

\* The driver with its two buffers, its zeros and strtok is a mailbox for the
\* latest line, whatever bytes are lost, as long as no line fills its buffer:
\* a sentence that was read as it was sent is applied at most once, field by
\* field, and nothing else is (ticktock and rx_irq, GPS.cpp:127-237).
THEOREM DriverIsMailbox == ASSUME Complete PROVE Spec /\ []~wrapped => ImplementsFeed
<1>1. Init => Feed!Init
  BY DEF Init, Feed!Init
<1>2. TypeOK /\ PassiveHoldsLine /\ [Next]_vars => [Feed!Next]_(Feed!vars)
  BY FeedStep
<1> QED
  BY <1>1, <1>2, TypeCorrect, LineSurvives, PTL DEF Spec, ImplementsFeed, Feed!Spec

\* The same without a proviso on the run, as long as the keypad is not pressed.
THEOREM QuietIsMailbox == ASSUME Complete, Quiet PROVE Spec => ImplementsFeed
<1>1. Init => Feed!Init
  BY DEF Init, Feed!Init
<1>2. TypeOK /\ PassiveHoldsLine /\ [Next]_vars => [Feed!Next]_(Feed!vars)
  BY FeedStep
<1> QED
  BY <1>1, <1>2, TypeCorrect, SentenceSurvives, PTL DEF Spec, ImplementsFeed, Feed!Spec

-----------------------------------------------------------------------------
(* The time while nothing is lost *)

\* What completes a line completes a sentence.
LEMMA LineIsSentence ==
    ASSUME TypeOK, LineInv, WholeInv, RxIrq, Head(fifo) = LF
    PROVE  \E s \in Sentences : Append(raw, LF) = Bytes[s]
<1> DEFINE c == Head(fifo)
           m == rx_buffer_in
           k == Len(raw)
<1>1. /\ c \in Cell /\ raw \in Seq(Cell) /\ k \in Nat /\ fifo # <<>>
      /\ fifo \in Seq(Cell) /\ m \in Nat /\ c = fifo[1]
  BY GpsConstants DEF TypeOK, RxIrq
<1>2. PICK s \in Sentences : Split(s) \/ LastByte(s)
  BY <1>1 DEF WholeInv
<1>3. Begins(raw, Bytes[s]) /\ LF = Bytes[s][k + 1]
  BY <1>1, <1>2 DEF Split, LastByte
<1>4. ReadAs(s, k, m) /\ Follows(s, k, m)
  BY <1>1, <1>3, FollowingCell DEF WholeInv, LineInv, FillInv
<1>5. m + 1 = Len(ZeroFilled[s])
  <2> HIDE DEF k, m
  <2> QED
    BY <1>3, <1>4 DEF Follows
<1>6. k = CommaAt(s.fields, Len(s.fields) + 1)
  BY <1>1, <1>4, <1>5, LongestRead
<1>7. Len(Bytes[s]) = k + 1 /\ Bytes[s] \in Seq(Cell)
  BY <1>6, SentenceCells, BytesType
<1>8. \A i \in 1 .. k : raw[i] = Bytes[s][i]
  BY <1>3 DEF Begins
<1>9. Append(raw, LF) = Bytes[s]
  BY <1>1, <1>3, <1>7, <1>8, CellFacts
<1> QED
  BY <1>9

\* Every line is a sentence, and the time is that of one if it is valid.
Told == \E s \in Sentences : s.address = Rmc /\ FractionalReset(theTime) = Feed!TimeOf(s)

TimeInv ==
    /\ process_required => \E s \in Sentences : lastLine = Bytes[s]
    /\ theTime.status = Valid => Told
    /\ RtcReported

\* What is told as valid is the time of a sentence that says so.
LEMMA ToldTime ==
    ASSUME TypeOK, NEW s, s \in Sentences, FractionalReset(theTime) = Feed!TimeOf(s)
    PROVE  /\ theTime.status = Feed!TextOf(s, 2) /\ CTime(theTime) = CTime(Feed!TimeOf(s))
           /\ theTime.hour = ClockOf(Feed!TextOf(s, 1)).hour
           /\ theTime.minute = ClockOf(Feed!TextOf(s, 1)).minute
           /\ theTime.second = ClockOf(Feed!TextOf(s, 1)).second
           /\ theTime.month = DateOf(Feed!TextOf(s, 9)).month
           /\ theTime.day = DateOf(Feed!TextOf(s, 9)).day
<1>1. theTime \in Time
  BY DEF TypeOK
<1>2. Agree(Feed!TimeOf(s), theTime) /\ CTime(Feed!TimeOf(s)) = CTime(theTime)
  BY <1>1, ResetFields, FractionApart
<1>3. LET u == Feed!TimeOf(s)
      IN  /\ u.status = Feed!TextOf(s, 2)
          /\ u.hour = ClockOf(Feed!TextOf(s, 1)).hour
          /\ u.minute = ClockOf(Feed!TextOf(s, 1)).minute
          /\ u.second = ClockOf(Feed!TextOf(s, 1)).second
          /\ u.month = DateOf(Feed!TextOf(s, 9)).month
          /\ u.day = DateOf(Feed!TextOf(s, 9)).day
  BY Zenon DEF Feed!TimeOf
<1> QED
  BY <1>2, <1>3, Zenon DEF Agree

LEMMA TickTime ==
    ASSUME TypeOK, TypeOK', PassiveHoldsLine, Complete, TimeInv, Ticktock
    PROVE  TimeInv'
<1>1. process_required' = FALSE /\ theTime' = TimeAfterTick
  BY DEF Ticktock
<1>2. \/ FractionalReset(theTime') = FractionalReset(theTime)
      \/ \E s \in Sentences : s.address = Rmc /\ FractionalReset(theTime') = Feed!TimeOf(s)
  <2>1. CASE process_required
    <3>1. PICK s \in Sentences : lastLine = Bytes[s]
      BY <2>1 DEF TimeInv
    <3>2. Feed!Parse(s)
      BY <2>1, <3>1, TicktockParses
    <3> QED
      BY <3>2, Zenon DEF Feed!Parse
  <2>2. CASE ~process_required
    <3>1. theTime' = PlusHundredth(theTime)
      BY <2>2 DEF Ticktock, TimeAfterTick, Parses
    <3> QED
      BY <3>1, TickReset DEF TypeOK
  <2> QED
    BY <2>1, <2>2
<1>3. theTime'.status = Valid => Told'
  <2>1. CASE FractionalReset(theTime') = FractionalReset(theTime)
    <3>1. theTime'.status = theTime.status
      <4>1. theTime \in Time /\ theTime' \in Time
        BY DEF TypeOK
      <4>2. /\ FractionalReset(theTime).status = theTime.status
            /\ FractionalReset(theTime').status = theTime'.status
        BY <4>1, FractionApart
      <4> QED
        BY <2>1, <4>2, Zenon
    <3> QED
      BY <2>1, <3>1, Zenon DEF TimeInv, Told
  <2>2. CASE \E s \in Sentences : s.address = Rmc /\ FractionalReset(theTime') = Feed!TimeOf(s)
    BY <2>2, Zenon DEF Told
  <2> QED
    BY <1>2, <2>1, <2>2
<1>4. RtcReported'
  <2>1. CASE SetsRtc(theTime')
    <3>1. rtc' = CTime(theTime') /\ theTime'.status = Valid /\ theTime'.second = 0
      BY <1>1, <2>1, Zenon DEF Ticktock, SetsRtc
    <3>2. PICK s \in Sentences : s.address = Rmc /\ FractionalReset(theTime') = Feed!TimeOf(s)
      BY <1>3, <3>1, Zenon DEF Told
    <3>3. theTime' \in Time
      BY DEF TypeOK
    <3>4. FractionalReset(theTime').status = Valid /\ CTime(FractionalReset(theTime')) = rtc'
      BY <3>1, <3>3, FractionApart
    <3>5. Feed!TimeOf(s).status = Feed!TextOf(s, 2)
      BY Zenon DEF Feed!TimeOf
    <3>6. rtc'.second = 0
      BY <3>1, Zenon DEF CTime
    <3> QED
      BY <3>2, <3>4, <3>5, <3>6, Zenon DEF RtcReported
  <2>2. CASE ~SetsRtc(theTime')
    <3>1. rtc' = rtc
      BY <1>1, <2>2 DEF Ticktock
    <3> QED
      BY <3>1, Zenon DEF TimeInv, RtcReported
  <2> QED
    BY <2>1, <2>2
<1> QED
  BY <1>1, <1>3, <1>4 DEF TimeInv

LEMMA TimeInductive ==
    ASSUME Complete, ~PpsInUse
    PROVE  TypeOK /\ TypeOK' /\ LineInv /\ WholeInv /\ PassiveHoldsLine /\ TimeInv
             /\ [Next]_vars => TimeInv'
<1> SUFFICES ASSUME TypeOK, TypeOK', LineInv, WholeInv, PassiveHoldsLine, TimeInv,
                    [Next]_vars
             PROVE  TimeInv'
  OBVIOUS
<1>1. CASE UNCHANGED <<process_required, lastLine, theTime, rtc>>
  BY <1>1, Zenon DEF TimeInv, Told, RtcReported
<1>2. CASE Ticktock
  BY <1>2, TickTime
<1>3. CASE RxIrq
  <2>1. UNCHANGED <<theTime, rtc>>
    BY <1>3 DEF RxIrq, appVars
  <2>2. CASE Head(fifo) = LF
    <3>1. lastLine' = Append(raw, LF)
      BY <1>3, <2>2 DEF RxIrq
    <3>2. \E s \in Sentences : lastLine' = Bytes[s]
      BY <1>3, <2>2, <3>1, LineIsSentence
    <3> QED
      BY <2>1, <3>2, Zenon DEF TimeInv, Told, RtcReported
  <2>3. CASE Head(fifo) # LF
    <3>1. UNCHANGED <<process_required, lastLine>>
      BY <1>3, <2>3 DEF RxIrq
    <3> QED
      BY <1>1, <2>1, <3>1
  <2> QED
    BY <2>2, <2>3
<1>4. CASE PpsIrq
  BY <1>4 DEF PpsIrq
<1>5. CASE (\E s \in Sentences : Transmit(s)) \/ UartIn \/ UartOverrun
            \/ KeypadEnter \/ KeypadLeave \/ UNCHANGED vars
  <2>1. UNCHANGED <<process_required, lastLine, theTime, rtc>>
    BY <1>5 DEF Transmit, UartIn, UartOverrun, Arrives, KeypadEnter, KeypadLeave,
                rxVars, appVars, vars
  <2> QED
    BY <1>1, <2>1
<1> QED
  BY <1>2, <1>3, <1>4, <1>5 DEF Next

LEMMA TimeStart == Init => TimeInv
<1>1. Valid # Void
  BY StatusCells
<1> QED
  BY <1>1 DEF Init, TimeInv, RtcReported, InitTime

\* The real-time clock is set only to a full minute that a sentence of the
\* receiver has reported as valid.
THEOREM RtcIsReported == ASSUME Complete, Quiet, ~PpsInUse PROVE Spec => []RtcReported
<1>1. Init => WholeInv
  BY DEF Init, WholeInv
<1>2. TypeOK /\ NulGuard /\ [Next]_vars => NulGuard'
  BY NulGuardInductive
<1>3. TimeInv => RtcReported
  BY DEF TimeInv
<1> QED
  BY <1>1, <1>2, <1>3, TypeCorrect, LineStart, LineInductive, GuardStart,
     WholeInductive, SentenceSurvives, TimeStart, TimeInductive, PTL DEF Spec

\* A receiver that calls a time valid sends one of the calendar.
ReceiverIsRight ==
    \A s \in Sentences : s.address = Rmc /\ Feed!TextOf(s, 2) = Valid =>
        LET c == ClockOf(Feed!TextOf(s, 1))
            d == DateOf(Feed!TextOf(s, 9))
        IN  /\ c.hour \in 0 .. 23 /\ c.minute \in 0 .. 59 /\ c.second \in 0 .. 59
            /\ d.month \in 1 .. 12 /\ d.day \in 1 .. 31

\* With such a receiver a time that is valid is one of the calendar: no text of
\* another field, and no zero of an empty one, is ever taken for it.
THEOREM ValidIsInRange ==
    ASSUME Complete, Quiet, ReceiverIsRight, ~PpsInUse PROVE Spec => []ValidTimeInRange
<1>1. Init => WholeInv
  BY DEF Init, WholeInv
<1>2. TypeOK /\ NulGuard /\ [Next]_vars => NulGuard'
  BY NulGuardInductive
<1>3. TypeOK /\ TimeInv => ValidTimeInRange
  <2> SUFFICES ASSUME TypeOK, TimeInv, theTime.status = Valid PROVE ValidTimeInRange
    BY DEF ValidTimeInRange
  <2>1. PICK s \in Sentences : s.address = Rmc /\ FractionalReset(theTime) = Feed!TimeOf(s)
    BY Zenon DEF TimeInv, Told
  <2>2. /\ theTime.status = Feed!TextOf(s, 2)
        /\ theTime.hour = ClockOf(Feed!TextOf(s, 1)).hour
        /\ theTime.minute = ClockOf(Feed!TextOf(s, 1)).minute
        /\ theTime.second = ClockOf(Feed!TextOf(s, 1)).second
        /\ theTime.month = DateOf(Feed!TextOf(s, 9)).month
        /\ theTime.day = DateOf(Feed!TextOf(s, 9)).day
    BY <2>1, ToldTime
  <2>3. LET c == ClockOf(Feed!TextOf(s, 1))
            d == DateOf(Feed!TextOf(s, 9))
        IN  /\ c.hour \in 0 .. 23 /\ c.minute \in 0 .. 59 /\ c.second \in 0 .. 59
            /\ d.month \in 1 .. 12 /\ d.day \in 1 .. 31
    BY <2>1, <2>2, Zenon DEF ReceiverIsRight
  <2> QED
    BY <2>2, <2>3 DEF ValidTimeInRange
<1> QED
  BY <1>1, <1>2, <1>3, TypeCorrect, LineStart, LineInductive, GuardStart,
     WholeInductive, SentenceSurvives, TimeStart, TimeInductive, PTL DEF Spec
=============================================================================
