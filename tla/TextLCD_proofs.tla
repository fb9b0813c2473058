---------------------------- MODULE TextLCD_proofs ----------------------------
(***************************************************************************)
(* The LCD driver, for every kind of panel and every sequence of calls.    *)
(*                                                                         *)
(* The bus carries the bytes: while no write has failed the outputs of the *)
(* expander are the driver's mirror, so that the E that falls was high and *)
(* the nibble is the one to be sent; three nibbles 3 make a controller     *)
(* wide whatever it was doing, and no later byte does.                     *)
(*                                                                         *)
(* The driver is a terminal: once the bytes still to be sent have run, the *)
(* panel is set as the driver wants it and the cells show the text, so     *)
(* that delivering a byte is a stutter and each call a step of Terminal.   *)
(***************************************************************************)
EXTENDS LcdBus, SequenceTheorems, WellFoundedInduction, TLAPS

Element == [ctrl : {0, 1}, rs : BOOLEAN, nibbles : Seq(0 .. 15)]

\* What the driver sends: a prelude, or a byte that does not make a controller
\* wide, to a controller that the panel has.
Sent ==
    {e \in Element : /\ e.ctrl \in Used
                     /\ \/ IsByte(e) /\ (e.rs \/ ByteOf(e) \notin 48 .. 63)
                        \/ e = Prelude(e.ctrl)}

\* A byte that is no function set: what a call may send, but for a start.
Plain(e) == IsByte(e) /\ (e.rs \/ ByteOf(e) \notin 32 .. 63)

Text == {e \in Sent : Plain(e)}

LEMMA SentIs ==
    /\ Sent \subseteq Element /\ Seq(Sent) \subseteq Seq(Element)
    /\ Text \subseteq Sent /\ Seq(Text) \subseteq Seq(Sent)
<1>1. Sent \subseteq Element
  BY DEF Sent
<1>2. Text \subseteq Sent
  BY DEF Text
<1> QED
  BY <1>1, <1>2

LEMMA UsedIs ==
    /\ Used \subseteq {0, 1} /\ 0 \in Used /\ (type = "LCD40x4" => 1 \in Used)
    /\ \A y : CtrlOf(type, y) \in Used
BY DEF Used, CtrlOf

-----------------------------------------------------------------------------
(* Panels *)

\* The cells of a panel have addresses of seven bits, whatever the row.
LEMMA AddressRange ==
    ASSUME NEW t \in AllTypes, NEW x \in 0 .. Columns(t) - 1, NEW y \in 0 .. Rows(t) - 1
    PROVE  Address(t, x, y) \in 0 .. 127
<1>1. x \in Int /\ y \in Int /\ 0 <= x /\ x < Columns(t) /\ 0 <= y /\ y < Rows(t)
  BY DEF Columns, Rows, AllTypes
<1>2. y \in 0 .. 3
  BY <1>1 DEF Rows
<1> QED
  BY <1>1, <1>2 DEF Address, Columns, Rows, AllTypes

\* No two cells of a panel are the same address of the same controller, on any
\* panel the driver knows (getAddress, TextLCD.cpp:399).
THEOREM CellsApart ==
    \A t \in AllTypes : \A p, q \in Cells(t) :
        /\ CtrlOf(t, p[2]) = CtrlOf(t, q[2])
        /\ Address(t, p[1], p[2]) = Address(t, q[1], q[2])
        => p = q
<1> SUFFICES ASSUME NEW t \in AllTypes, NEW p \in Cells(t), NEW q \in Cells(t),
                    CtrlOf(t, p[2]) = CtrlOf(t, q[2]),
                    Address(t, p[1], p[2]) = Address(t, q[1], q[2])
             PROVE  p = q
  OBVIOUS
<1>1. PICK x \in 0 .. Columns(t) - 1, y \in 0 .. Rows(t) - 1 : p = <<x, y>>
  BY DEF Cells
<1>2. PICK u \in 0 .. Columns(t) - 1, v \in 0 .. Rows(t) - 1 : q = <<u, v>>
  BY DEF Cells
<1>3. CtrlOf(t, y) = CtrlOf(t, v) /\ Address(t, x, y) = Address(t, u, v)
  BY <1>1, <1>2
<1>4. y \in 0 .. 3 /\ v \in 0 .. 3 /\ x \in 0 .. 39 /\ u \in 0 .. 39
  BY DEF Rows, Columns, AllTypes
<1>5. x = u /\ y = v
  <2>1. CASE t \in {"LCD12x4", "LCD16x4", "LCD20x4"}
    BY <1>3, <1>4, <2>1 DEF Address, CtrlOf, Columns, Rows
  <2>2. CASE t \in {"LCD8x2B", "LCD16x1", "LCD16x2B", "LCD24x4"}
    BY <1>3, <1>4, <2>2 DEF Address, CtrlOf, Columns, Rows
  <2>3. CASE t = "LCD40x4"
    BY <1>3, <1>4, <2>3 DEF Address, CtrlOf, Columns, Rows
  <2>4. CASE t \in {"LCD8x1", "LCD8x2", "LCD12x2", "LCD16x2", "LCD20x2", "LCD24x2", "LCD40x2"}
    <3>1. y \in {0, 1} /\ v \in {0, 1}
      BY <2>4 DEF Rows
    <3>2. Address(t, x, y) = 64 * (y % 2) + x /\ Address(t, u, v) = 64 * (v % 2) + u
      BY <2>4 DEF Address
    <3>3. 0 % 2 = 0 /\ 1 % 2 = 1
      OBVIOUS
    <3>4. Address(t, x, y) = 64 * y + x /\ Address(t, u, v) = 64 * v + u
      BY <3>1, <3>2, <3>3
    <3>5. 64 * y + x = 64 * v + u
      BY <1>3, <3>4
    <3>6. x \in 0 .. 39 /\ u \in 0 .. 39
      BY <1>4
    <3> QED
      BY <3>1, <3>5, <3>6
  <2> QED
    BY <2>1, <2>2, <2>3, <2>4 DEF AllTypes
<1> QED
  BY <1>1, <1>2, <1>5

\* The initialisation has chosen a memory that holds every cell: but not that
\* of LCD16x2B, whose second row is addressed from 40 on in a memory that goes
\* from 0 to 39 and from 64 to 103 (_initCtrl 149-198, getAddress 470).
THEOREM CellsInMemory ==
    ASSUME NEW l \in Controller, type # "LCD16x2B", type \in AllTypes,
           l.lines = (IF type \in {"LCD8x1", "LCD8x2B"} THEN 1 ELSE 2)
    PROVE  \A p \in Cells(type) : Address(type, p[1], p[2]) \in Memory(l)
<1> SUFFICES ASSUME NEW x \in 0 .. Columns(type) - 1, NEW y \in 0 .. Rows(type) - 1
             PROVE  Address(type, x, y) \in Memory(l)
  BY DEF Cells
<1>1. y \in 0 .. 3 /\ x \in 0 .. 39
  BY DEF Rows, Columns, AllTypes
<1>2. Address(type, x, y) \in 0 .. 127
  BY AddressRange
<1> QED
  BY <1>1, <1>2 DEF Address, Memory, Columns, Rows, AllTypes

-----------------------------------------------------------------------------
(* Bytes *)

LEMMA CommandIs ==
    ASSUME NEW k, k \in {0, 1}, NEW b, b \in 0 .. 255
    PROVE  /\ WriteCommand(k, b) \in Element /\ WriteData(k, b) \in Element
           /\ IsByte(WriteCommand(k, b)) /\ IsByte(WriteData(k, b))
           /\ ByteOf(WriteCommand(k, b)) = b
           /\ WriteCommand(k, b).ctrl = k /\ ~WriteCommand(k, b).rs
<1> DEFINE h == b \div 16
           l == b % 16
<1>1. h \in 0 .. 15 /\ l \in 0 .. 15 /\ 16 * h + l = b
  OBVIOUS
<1> HIDE DEF h, l
<1>2. <<h, l>> \in Seq(0 .. 15)
  BY <1>1
<1>3. /\ Nibbles(k, FALSE, <<h, l>>) \in Element /\ Nibbles(k, TRUE, <<h, l>>) \in Element
  BY <1>2, Zenon DEF Nibbles, Element
<1> QED
  BY <1>1, <1>3 DEF WriteCommand, WriteData, IsByte, ByteOf, Nibbles, h, l

LEMMA CommandSent ==
    ASSUME NEW k, k \in Used, NEW b, b \in 0 .. 255, b \notin 48 .. 63
    PROVE  WriteCommand(k, b) \in Sent
<1> DEFINE e == WriteCommand(k, b)
<1>1. k \in {0, 1}
  BY UsedIs
<1>2. e \in Element /\ IsByte(e) /\ ByteOf(e) = b
  BY <1>1, CommandIs
<1>3. e.ctrl = k
  BY DEF WriteCommand, Nibbles
<1> HIDE DEF e
<1>4. e \in Sent
  BY <1>2, <1>3 DEF Sent
<1> QED
  BY <1>4 DEF e

LEMMA CommandPlain ==
    ASSUME NEW k, k \in Used, NEW b, b \in 0 .. 255, b \notin 32 .. 63
    PROVE  WriteCommand(k, b) \in Text /\ WriteCommand(k, b) \in Sent
<1>1. b \notin 48 .. 63
  OBVIOUS
<1>2. WriteCommand(k, b) \in Sent
  BY <1>1, CommandSent
<1>3. k \in {0, 1}
  BY UsedIs
<1>4. IsByte(WriteCommand(k, b)) /\ ByteOf(WriteCommand(k, b)) = b
  BY <1>3, CommandIs
<1>5. Plain(WriteCommand(k, b))
  BY <1>4 DEF Plain
<1> QED
  BY <1>2, <1>5 DEF Text

LEMMA DataSent ==
    ASSUME NEW k \in Used, NEW b \in 0 .. 255
    PROVE  WriteData(k, b) \in Text /\ WriteData(k, b) \in Sent
<1> DEFINE e == WriteData(k, b)
<1>1. k \in {0, 1}
  BY UsedIs
<1>2. e \in Element /\ IsByte(e)
  BY <1>1, CommandIs
<1>3. e.ctrl = k /\ e.rs = TRUE
  BY DEF WriteData, Nibbles
<1> HIDE DEF e
<1>4. e \in Sent /\ Plain(e)
  BY <1>2, <1>3 DEF Sent, Plain
<1> QED
  BY <1>4 DEF e, Text

LEMMA DisplayIs ==
    ASSUME NEW k \in Used, NEW mode \in {0, 4}, NEW cursor \in 0 .. 3
    PROVE  Display(k, mode, cursor) \in Text /\ Display(k, mode, cursor) \in Sent
<1>1. 8 + mode + cursor \in (0 .. 255) \ (32 .. 63)
  OBVIOUS
<1> QED
  BY <1>1, CommandPlain DEF Display

LEMMA SwitchIs ==
    ASSUME TypeOK, NEW k \in Used, NEW y
    PROVE  Switch(k, y) \in Seq(Text) /\ Switch(k, y) \in Seq(Sent)
<1>1. CtrlOf(type, y) \in Used
  BY UsedIs
<1>2. currentMode \in {0, 4} /\ currentCursor \in 0 .. 3
  BY DEF TypeOK
<1>3. \A j \in Used : j \in {0, 1}
  BY UsedIs
<1>4. Display(k, currentMode, 0) \in Text
  BY <1>2, <1>3, DisplayIs
<1>5. Display(CtrlOf(type, y), currentMode, currentCursor) \in Text
  BY <1>1, <1>2, <1>3, DisplayIs
<1>6. Switch(k, y) \in Seq(Text)
  BY <1>4, <1>5 DEF Switch
<1> QED
  BY <1>6, SentIs

LEMMA GotoIs ==
    ASSUME TypeOK, NEW k \in Used,
           NEW x \in 0 .. Columns(type) - 1, NEW y \in 0 .. Rows(type) - 1
    PROVE  Goto(k, x, y) \in Seq(Text) /\ Goto(k, x, y) \in Seq(Sent)
<1>1. type \in AllTypes /\ CtrlOf(type, y) \in Used
  BY LcdConstants, UsedIs DEF TypeOK
<1>2. 128 + Address(type, x, y) \in (0 .. 255) \ (32 .. 63)
  <2> DEFINE a == Address(type, x, y)
  <2>1. a \in 0 .. 127
    BY <1>1, AddressRange
  <2> HIDE DEF a
  <2>2. 128 + a \in (0 .. 255) \ (32 .. 63)
    BY <2>1
  <2> QED
    BY <2>2 DEF a
<1>3. WriteCommand(CtrlOf(type, y), 128 + Address(type, x, y)) \in Text
  BY <1>1, <1>2, CommandPlain
<1>4. Goto(k, x, y) \in Seq(Text)
  BY <1>3, SwitchIs DEF Goto
<1> QED
  BY <1>4, SentIs

LEMMA ModeBytesIs ==
    ASSUME NEW k \in Used, NEW mode \in {0, 4}, NEW cursor \in 0 .. 3
    PROVE  ModeBytes(k, mode, cursor) \in Seq(Text) /\ ModeBytes(k, mode, cursor) \in Seq(Sent)
<1>1. \A j \in Used, c \in {0, cursor} : Display(j, mode, c) \in Text
  BY DisplayIs
<1>2. ModeBytes(k, mode, cursor) \in Seq(Text)
  BY <1>1, UsedIs DEF ModeBytes
<1> QED
  BY <1>2, SentIs

LEMMA InitParts ==
    ASSUME NEW k \in Used, NEW mode \in {0, 4}
    PROVE  /\ <<Prelude(k)>> \in Seq(Sent) /\ FunctionSet(k) \in Seq(Sent)
           /\ <<WriteCommand(k, 6), Display(k, mode, 0)>> \in Seq(Sent)
           /\ ModeBytes(k, 4, 0) \in Seq(Sent)
<1>1. \A b \in {32, 42, 46, 9, 40, 6} : WriteCommand(k, b) \in Sent
  <2> TAKE b \in {32, 42, 46, 9, 40, 6}
  <2>1. b \in (0 .. 255) \ (48 .. 63)
    OBVIOUS
  <2> QED
    BY <2>1, CommandSent
<1>2. <<3, 3, 3, 2>> \in Seq(0 .. 15)
  OBVIOUS
<1>3. <<Prelude(k)>> \in Seq(Sent)
  <2>1. Prelude(k) \in Element
    BY <1>2, UsedIs, Zenon DEF Prelude, Nibbles, Element
  <2>2. Prelude(k).ctrl = k
    BY DEF Prelude, Nibbles
  <2>3. Prelude(k) \in Sent
    BY <2>1, <2>2 DEF Sent
  <2> QED
    BY <2>3
<1>4. FunctionSet(k) \in Seq(Sent)
  BY <1>1 DEF FunctionSet
<1>5. Display(k, mode, 0) \in Sent
  BY DisplayIs, UsedIs
<1>6. <<WriteCommand(k, 6), Display(k, mode, 0)>> \in Seq(Sent)
  BY <1>1, <1>5
<1>7. ModeBytes(k, 4, 0) \in Seq(Sent)
  BY ModeBytesIs
<1> QED
  BY <1>3, <1>4, <1>6, <1>7

LEMMA InitCtrlIs ==
    ASSUME NEW k \in Used, NEW mode \in {0, 4}
    PROVE  InitCtrl(k, mode) \in Seq(Sent)
BY InitParts, ConcatProperties DEF InitCtrl

\* Clearing a controller.
LEMMA ClearIs ==
    ASSUME NEW k \in Used
    PROVE  WriteCommand(k, 1) \in Text /\ WriteCommand(k, 1) \in Sent
BY CommandPlain

LEMMA InitBytesIs == InitBytes \in Seq(Sent)
<1>1. CASE type = "LCD40x4"
  <2>1. InitCtrl(1, 0) \in Seq(Sent) /\ InitCtrl(0, 4) \in Seq(Sent)
    BY <1>1, InitCtrlIs, UsedIs
  <2>2. <<WriteCommand(0, 1)>> \in Seq(Sent) /\ <<WriteCommand(1, 1)>> \in Seq(Sent)
    BY <1>1, ClearIs, UsedIs
  <2> QED
    BY <1>1, <2>1, <2>2, ConcatProperties DEF InitBytes
<1>2. CASE type # "LCD40x4"
  <2>1. InitCtrl(0, 0) \in Seq(Sent) /\ <<WriteCommand(0, 1)>> \in Seq(Sent)
    BY InitCtrlIs, ClearIs, UsedIs
  <2> QED
    BY <1>2, <2>1, ConcatProperties DEF InitBytes
<1> QED
  BY <1>1, <1>2

\* The bytes of a user defined character before the cursor is taken back.
Pattern(k) ==
    <<WriteCommand(k, 64 + 8 * (0 % 8))>> \o [i \in 1 .. UdcRows |-> WriteData(k, 31)]

LEMMA UdcBytesIs ==
    ASSUME TypeOK, NEW k \in Used
    PROVE  /\ Pattern(k) \in Seq(Text) /\ UdcBytes(k, 0) \in Seq(Text)
           /\ Pattern(k) \in Seq(Sent) /\ UdcBytes(k, 0) \in Seq(Sent)
           /\ UdcBytes(k, 0) = Pattern(k) \o Goto(k, column, row)
<1>1. WriteCommand(k, 64 + 8 * (0 % 8)) \in Text /\ WriteData(k, 31) \in Text
  <2>1. 64 + 8 * (0 % 8) \in (0 .. 255) \ (32 .. 63) /\ 31 \in 0 .. 255
    OBVIOUS
  <2> QED
    BY <2>1, CommandPlain, DataSent
<1>2. [i \in 1 .. UdcRows |-> WriteData(k, 31)] \in Seq(Text)
  BY <1>1, LcdConstants, IsASeq
<1>3. Goto(k, column, row) \in Seq(Text)
  BY GotoIs DEF TypeOK, Cells
<1>4. <<WriteCommand(k, 64 + 8 * (0 % 8))>> \in Seq(Text)
  BY <1>1
<1>5. /\ Pattern(k) \in Seq(Text) /\ UdcBytes(k, 0) \in Seq(Text)
      /\ UdcBytes(k, 0) = Pattern(k) \o Goto(k, column, row)
  BY <1>2, <1>3, <1>4, ConcatProperties DEF UdcBytes, Pattern
<1> QED
  BY <1>5, SentIs

-----------------------------------------------------------------------------
(* Types *)

LEMMA CellIs ==
    ASSUME TypeOK
    PROVE  /\ Columns(type) \in 8 .. 40 /\ Rows(type) \in 1 .. 4
           /\ column \in 0 .. Columns(type) - 1 /\ row \in 0 .. Rows(type) - 1
           /\ NextRow \in 0 .. Rows(type) - 1 /\ ctrl_idx \in {0, 1} /\ ctrl_idx \in Used
<1>1. Columns(type) \in 8 .. 40 /\ Rows(type) \in 1 .. 4
  BY DEF Columns, Rows
<1>2. column \in 0 .. Columns(type) - 1 /\ row \in 0 .. Rows(type) - 1
  BY DEF TypeOK, Cells
<1>3. ctrl_idx \in {0, 1} /\ ctrl_idx \in Used
  BY DEF TypeOK, CtrlOf, Used
<1> QED
  BY <1>1, <1>2, <1>3 DEF NextRow

LEMMA ClampIs ==
    ASSUME NEW i \in Int, NEW n \in Nat \ {0}
    PROVE  Clamp(i, n) \in 0 .. n - 1
BY DEF Clamp

\* A call that moves the cursor to a cell of the panel.
LEMMA MoveToIs ==
    ASSUME TypeOK, NEW x \in 0 .. Columns(type) - 1, NEW y \in 0 .. Rows(type) - 1,
           NEW first \in Seq(Text), MoveTo(x, y, first)
    PROVE  /\ out' \in Seq(Text) /\ <<column, row>>' \in Cells(type)'
           /\ ctrl_idx' = CtrlOf(type, row)' /\ UNCHANGED <<currentMode, currentCursor>>
<1>1. out' \in Seq(Text)
  <2>1. Goto(ctrl_idx, x, y) \in Seq(Text)
    BY GotoIs, CellIs
  <2> QED
    BY <2>1, ConcatProperties DEF MoveTo
<1>2. type' = type /\ column' = x /\ row' = y /\ ctrl_idx' = CtrlOf(type, y)
      /\ UNCHANGED <<currentMode, currentCursor>>
  BY DEF MoveTo, Call
<1>3. <<column, row>>' \in Cells(type)'
  BY <1>2 DEF Cells, Columns, Rows
<1>4. ctrl_idx' = CtrlOf(type, row)'
  BY <1>2 DEF CtrlOf
<1> QED
  BY <1>1, <1>2, <1>3, <1>4

\* Every call leaves the cursor on the panel and sends what may be sent.
LEMMA CallSends ==
    ASSUME TypeOK, AnyCall
    PROVE  /\ Call /\ out' \in Seq(Text) /\ out' \in Seq(Sent)
           /\ <<column, row>>' \in Cells(type)'
           /\ ctrl_idx' = CtrlOf(type, row)'
           /\ currentMode' \in {0, 4} /\ currentCursor' \in 0 .. 3
<1> DEFINE Goal == /\ Call /\ out' \in Seq(Text) /\ <<column, row>>' \in Cells(type)'
                   /\ ctrl_idx' = CtrlOf(type, row)'
                   /\ currentMode' \in {0, 4} /\ currentCursor' \in 0 .. 3
<1> SUFFICES Goal
  BY SentIs
<1> USE LcdConstants
<1>m. ASSUME NEW x \in 0 .. Columns(type) - 1, NEW y \in 0 .. Rows(type) - 1,
             NEW first \in Seq(Text), MoveTo(x, y, first)
      PROVE  Goal
  <2>1. Call
    BY <1>m DEF MoveTo
  <2>2. currentMode \in {0, 4} /\ currentCursor \in 0 .. 3
    BY DEF TypeOK
  <2> QED
    BY <1>m, <2>1, <2>2, MoveToIs
<1>1. ASSUME NEW c \in Chars, Putc(c) PROVE Goal
  <2>1. <<WriteData(ctrl_idx, c)>> \in Seq(Text)
    <3>1. c \in 0 .. 255 /\ ctrl_idx \in Used
      BY CellIs
    <3>2. WriteData(ctrl_idx, c) \in Text
      BY <3>1, DataSent
    <3> QED
      BY <3>2
  <2> DEFINE end == column + 1 >= Columns(type)
             x == IF end THEN 0 ELSE column + 1
             y == IF end THEN NextRow ELSE row
  <2>2. x \in 0 .. Columns(type) - 1 /\ y \in 0 .. Rows(type) - 1
    BY CellIs
  <2>3. MoveTo(x, y, <<WriteData(ctrl_idx, c)>>)
    BY <1>1, Zenon DEF Putc
  <2> HIDE DEF x, y, Goal
  <2> QED
    BY <2>1, <2>2, <2>3, <1>m
<1>2. ASSUME PutNewline PROVE Goal
  <2>1. 0 \in 0 .. Columns(type) - 1 /\ NextRow \in 0 .. Rows(type) - 1
    BY CellIs
  <2>2. <<>> \in Seq(Text)
    OBVIOUS
  <2> HIDE DEF Goal
  <2> QED
    BY <1>2, <2>1, <2>2, <1>m DEF PutNewline
<1>3. ASSUME NEW q \in Places, Locate(q[1], q[2]) PROVE Goal
  <2>1. q[1] \in Int /\ q[2] \in Int
    OBVIOUS
  <2>2. Clamp(q[1], Columns(type)) \in 0 .. Columns(type) - 1
        /\ Clamp(q[2], Rows(type)) \in 0 .. Rows(type) - 1
    <3>1. Columns(type) \in Nat \ {0} /\ Rows(type) \in Nat \ {0}
      BY CellIs
    <3> QED
      BY <2>1, <3>1, ClampIs
  <2>3. <<>> \in Seq(Text)
    OBVIOUS
  <2> HIDE DEF Goal
  <2> QED
    BY <1>3, <2>2, <2>3, <1>m DEF Locate
<1>4. ASSUME Cls PROVE Goal
  <2>1. out' \in Seq(Text)
    <3>1. WriteCommand(0, 1) \in Text /\ Display(0, currentMode, currentCursor) \in Text
      BY UsedIs, ClearIs, DisplayIs DEF TypeOK
    <3>2. CASE type = "LCD40x4"
      <4>1. WriteCommand(1, 1) \in Text /\ Display(1, currentMode, 0) \in Text
        BY <3>2, UsedIs, ClearIs, DisplayIs DEF TypeOK
      <4> QED
        BY <1>4, <3>1, <3>2, <4>1 DEF Cls
    <3>3. CASE type # "LCD40x4"
      BY <1>4, <3>1, <3>3 DEF Cls
    <3> QED
      BY <3>2, <3>3
  <2>2. (<<column, row>> \in Cells(type) /\ ctrl_idx = CtrlOf(type, row))'
    BY <1>4 DEF Cls, Call, Cells, Columns, Rows, CtrlOf
  <2> QED
    BY <1>4, <2>1, <2>2 DEF Cls, TypeOK
<1>s. ASSUME UNCHANGED <<column, row, ctrl_idx>>, Call
      PROVE  (<<column, row>> \in Cells(type) /\ ctrl_idx = CtrlOf(type, row))'
  BY <1>s DEF TypeOK, Call, Cells, Columns, Rows, CtrlOf
<1>5. ASSUME NEW k \in Cursors, SetCursor(k) PROVE Goal
  <2>1. Display(ctrl_idx, currentMode, k) \in Text
    BY DisplayIs, CellIs DEF TypeOK
  <2> QED
    BY <1>5, <2>1, <1>s DEF SetCursor, TypeOK
<1>6. ASSUME NEW m \in {0, 4}, SetMode(m) PROVE Goal
  <2>1. ModeBytes(ctrl_idx, m, currentCursor) \in Seq(Text)
    BY ModeBytesIs, CellIs DEF TypeOK
  <2> QED
    BY <1>6, <2>1, <1>s DEF SetMode, TypeOK
<1>7. ASSUME SetUDC(0) PROVE Goal
  <2>1. out' \in Seq(Text)
    <3>1. UdcBytes(0, 0) \in Seq(Text) /\ (type = "LCD40x4" => UdcBytes(1, 0) \in Seq(Text))
      BY UdcBytesIs, UsedIs
    <3> QED
      BY <1>7, <3>1, ConcatProperties DEF SetUDC
  <2> QED
    BY <1>7, <2>1, <1>s DEF SetUDC, TypeOK
<1> HIDE DEF Goal
<1> QED
  BY <1>1, <1>2, <1>3, <1>4, <1>5, <1>6, <1>7 DEF AnyCall

LEMMA InitTypeOK == Init => TypeOK
<1> SUFFICES ASSUME Init PROVE TypeOK
  OBVIOUS
<1>1. out \in Seq(Element)
  BY InitBytesIs, SentIs DEF Init, Started
<1>2. <<column, row>> \in Cells(type) /\ ctrl_idx = CtrlOf(type, row)
  BY DEF Init, Started, Cells, Columns, Rows, CtrlOf
<1> QED
  BY <1>1, <1>2 DEF Init, Started, TypeOK, Element

LEMMA NextTypeOK == TypeOK /\ [Next]_vars => TypeOK'
<1> SUFFICES ASSUME TypeOK, [Next]_vars PROVE TypeOK'
  OBVIOUS
<1>1. ASSUME AnyCall PROVE TypeOK'
  <2>1. Call /\ out' \in Seq(Element)
    BY <1>1, CallSends, SentIs
  <2> QED
    BY <1>1, <2>1, CallSends DEF TypeOK, Element, Call, Turn
<1>2. ASSUME SetBacklight PROVE TypeOK'
  BY <1>2 DEF TypeOK, SetBacklight, Call, Turn, driver, Cells, Columns, Rows, CtrlOf
<1>3. ASSUME Start PROVE TypeOK'
  <2>1. InitBytes \in Seq(Element)
    BY InitBytesIs, SentIs
  <2>2. (<<column, row>> \in Cells(type) /\ ctrl_idx = CtrlOf(type, row))'
    BY <1>3 DEF Start, Again, Cells, Columns, Rows, CtrlOf
  <2> QED
    BY <1>3, <2>1, <2>2 DEF TypeOK, Start, Again, Element
<1>4. ASSUME Deliver PROVE TypeOK'
  BY <1>4, HeadTailProperties
     DEF TypeOK, Deliver, driver, Cells, Columns, Rows, CtrlOf
<1>5. ASSUME Noise PROVE TypeOK'
  BY <1>5 DEF TypeOK, Noise, driver, Cells, Columns, Rows, CtrlOf
<1>6. ASSUME Garble PROVE TypeOK'
  <2>1. out' \in Seq(Element)
    BY <1>6, HeadTailProperties DEF TypeOK, Garble, Element
  <2>2. calls' \in Nat
    BY <1>6 DEF TypeOK, Garble
  <2> QED
    BY <1>6, <2>1, <2>2 DEF TypeOK, Garble, driver, Element, Cells, Columns, Rows, CtrlOf
<1>7. ASSUME UNCHANGED vars PROVE TypeOK'
  BY <1>7 DEF TypeOK, vars, Cells, Columns, Rows, CtrlOf
<1> QED
  BY <1>1, <1>2, <1>3, <1>4, <1>5, <1>6, <1>7 DEF Next

\* The cursor is a cell of the panel, the current controller the one of its row,
\* and whatever is sent consists of nibbles.
THEOREM TypeCorrect == Spec => []TypeOK
<1>1. Init => TypeOK
  BY InitTypeOK
<1>2. TypeOK /\ [Next]_vars => TypeOK'
  BY NextTypeOK
<1> QED
  BY <1>1, <1>2, PTL DEF Spec

-----------------------------------------------------------------------------
(* The bus *)

\* The mirror of the lines and the writes done of the first element.  (step is
\* the number of the next one: writes 1, 4, .. raise E, 2, 5, .. put the data
\* out, 3, 6, .. let E fall.)
Mirror ==
    /\ lcd_bus.e = IF step = 0 \/ step % 3 = 1 THEN {} ELSE {Head(out).ctrl}
    /\ step > 0 => lcd_bus.rs = Head(out).rs
    /\ step > 0 /\ step % 3 = 0 => lcd_bus.data = Head(out).nibbles[step \div 3]

\* Controllers the driver has not begun to speak to since the start.
Fresh == step = 0 /\ \A k \in Used : ~Ready(k)

\* The lines are as the driver thinks, but for an E that has not risen yet, and
\* for what the program finds when it starts.
Outputs ==
    /\ port.e \subseteq Used
    /\ intact => \/ port = lcd_bus
                 \/ step % 3 = 2 /\ port = [lcd_bus EXCEPT !.e = {}]
                 \/ Fresh

BusType ==
    /\ lcd_bus \in Lines /\ port \in Lines
    /\ width \in [{0, 1} -> {4, 8}] /\ half \in [{0, 1} -> -1 .. 15]
    /\ \A k \in {0, 1} : width[k] = 8 => half[k] = -1
    /\ out \in Seq(Sent) /\ step \in Nat
    /\ IF out = <<>> THEN step = 0 ELSE step <= 3 * Len(Head(out).nibbles)

\* A controller that has had its prelude holds the half of the byte that has
\* been clocked, and nothing else.
Halves ==
    \A k \in Used : Ready(k) =>
        /\ width[k] = 4
        /\ half[k] = IF step > 3 /\ Head(out).ctrl = k THEN Head(out).nibbles[1] ELSE -1

\* What the nibbles 3, 3, 3 make of a controller in any state.
Preluded ==
    step > 3 /\ ~IsByte(Head(out)) =>
        LET k == Head(out).ctrl
        IN  \/ width[k] = 8
            \/ width[k] = 4 /\ half[k] = 3 /\ step <= 9
            \/ width[k] = 4 /\ half[k] = -1 /\ step <= 6

BusInv == BusType /\ Mirror /\ Outputs /\ (intact => Halves /\ Preluded)

Chips ==
    /\ lcd \in [{0, 1} -> Controller]
    /\ width \in [{0, 1} -> {4, 8}] /\ half \in [{0, 1} -> -1 .. 15]
    /\ \A k \in {0, 1} : width[k] = 8 => half[k] = -1

LEMMA AddressedIs ==
    ASSUME NEW l, l \in Controller, NEW a, a \in 0 .. 127, NEW text, text \in {l.text, {}},
           NEW m, m = [l EXCEPT !.address = a, !.cg = FALSE, !.text = text]
    PROVE  m \in Controller
<1>1. m = [address |-> a, cg |-> FALSE, display |-> l.display, lines |-> l.lines, text |-> text]
  BY DEF Controller
<1>2. l.display \in 0 .. 7 /\ l.lines \in {1, 2}
      /\ text \in SUBSET ((0 .. 127) \X (0 .. 255))
  BY DEF Controller
<1>3. [address |-> a, cg |-> FALSE, display |-> l.display, lines |-> l.lines,
       text |-> text] \in Controller
  BY <1>2 DEF Controller
<1> QED
  BY <1>1, <1>3

LEMMA PatternIs ==
    ASSUME NEW l, l \in Controller, NEW a, a \in 0 .. 127,
           NEW m, m = [l EXCEPT !.address = a, !.cg = TRUE]
    PROVE  m \in Controller
<1>1. m = [address |-> a, cg |-> TRUE, display |-> l.display, lines |-> l.lines,
           text |-> l.text]
  BY DEF Controller
<1>2. l.display \in 0 .. 7 /\ l.lines \in {1, 2}
      /\ l.text \in SUBSET ((0 .. 127) \X (0 .. 255))
  BY DEF Controller
<1>3. [address |-> a, cg |-> TRUE, display |-> l.display, lines |-> l.lines,
       text |-> l.text] \in Controller
  BY <1>2 DEF Controller
<1> QED
  BY <1>1, <1>3

LEMMA ExecuteIs ==
    ASSUME NEW l \in Controller, NEW rs \in BOOLEAN, NEW b \in 0 .. 255
    PROVE  Execute(l, rs, b) \in Controller
<1>1. CASE rs
  <2>1. Store(l, b) \in Controller
    <3>1. \A T \in SUBSET ((0 .. 127) \X (0 .. 255)) : [l EXCEPT !.text = T] \in Controller
      BY DEF Controller
    <3>2. l.text \in SUBSET ((0 .. 127) \X (0 .. 255)) /\ l.address \in 0 .. 127
      BY DEF Controller
    <3> QED
      BY <3>1, <3>2 DEF Store
  <2> DEFINE st == Store(l, b)
  <2>2. st.address \in 0 .. 127
    BY <2>1 DEF Controller
  <2>3. (st.address + 1) % 128 \in 0 .. 127
    BY <2>2
  <2>4. [st EXCEPT !.address = (st.address + 1) % 128] \in Controller
    BY <2>1, <2>3 DEF Controller
  <2> QED
    BY <1>1, <2>4 DEF Execute
<1>2. CASE ~rs
  <2>2. CASE b >= 128
    <3> DEFINE a == b - 128
    <3>1. a \in 0 .. 127
      BY <2>2
    <3>2. Execute(l, rs, b) = [l EXCEPT !.address = a, !.cg = FALSE]
      BY <1>2, <2>2 DEF Execute
    <3> HIDE DEF a
    <3>3. [l EXCEPT !.address = a, !.cg = FALSE]
             = [l EXCEPT !.address = a, !.cg = FALSE, !.text = l.text]
      BY DEF Controller
    <3> QED
      BY <3>1, <3>2, <3>3, AddressedIs
  <2>3. CASE b \in 64 .. 127
    <3> DEFINE a == b - 64
    <3>1. a \in 0 .. 127
      BY <2>3
    <3>2. Execute(l, rs, b) = [l EXCEPT !.address = a, !.cg = TRUE]
      BY <1>2, <2>3 DEF Execute
    <3> HIDE DEF a
    <3>3. [l EXCEPT !.address = a, !.cg = TRUE] \in Controller
      BY <3>1, PatternIs
    <3> QED
      BY <3>2, <3>3
  <2>4. CASE b \in 32 .. 63
    <3>1. 1 + ((b \div 8) % 2) \in {1, 2}
      BY <2>4
    <3>2. [l EXCEPT !.lines = 1 + ((b \div 8) % 2)] \in Controller
      BY <3>1 DEF Controller
    <3>3. Execute(l, rs, b) = [l EXCEPT !.lines = 1 + ((b \div 8) % 2)]
      BY <1>2, <2>4 DEF Execute
    <3> QED
      BY <3>2, <3>3
  <2>5. CASE b \in 8 .. 15
    BY <1>2, <2>5 DEF Execute, Controller
  <2>6. CASE b \in 2 .. 3
    <3>1. Execute(l, rs, b) = [l EXCEPT !.address = 0, !.cg = FALSE]
      BY <1>2, <2>6 DEF Execute
    <3>2. [l EXCEPT !.address = 0, !.cg = FALSE]
             = [l EXCEPT !.address = 0, !.cg = FALSE, !.text = l.text]
      BY DEF Controller
    <3>3. 0 \in 0 .. 127
      OBVIOUS
    <3> QED
      BY <3>1, <3>2, <3>3, AddressedIs
  <2>7. CASE b = 1
    <3>1. Execute(l, rs, b) = [l EXCEPT !.address = 0, !.cg = FALSE, !.text = {}]
      BY <1>2, <2>7 DEF Execute
    <3>2. 0 \in 0 .. 127
      OBVIOUS
    <3> QED
      BY <3>1, <3>2, AddressedIs
  <2>8. CASE ~(b >= 128 \/ b \in 64 .. 127 \/ b \in 32 .. 63 \/ b \in 8 .. 15
                 \/ b \in 2 .. 3 \/ b = 1)
    BY <1>2, <2>8 DEF Execute
  <2> QED
    BY <2>2, <2>3, <2>4, <2>5, <2>6, <2>7, <2>8
<1> QED
  BY <1>1, <1>2

\* The width a controller has after a byte.
Wide(rs, b, w) == IF ~rs /\ b \in 32 .. 63 THEN IF b >= 48 THEN 8 ELSE 4 ELSE w

LEMMA TakeIs ==
    ASSUME Chips, NEW k \in {0, 1}, NEW rs \in BOOLEAN, NEW b \in 0 .. 255, Take(k, rs, b)
    PROVE  /\ lcd' \in [{0, 1} -> Controller] /\ width' \in [{0, 1} -> {4, 8}]
           /\ lcd'[k] = Execute(lcd[k], rs, b) /\ width'[k] = Wide(rs, b, width[k])
           /\ \A j \in {0, 1} \ {k} : lcd'[j] = lcd[j] /\ width'[j] = width[j]
<1>1. Execute(lcd[k], rs, b) \in Controller
  BY ExecuteIs DEF Chips
<1>2. lcd' = [lcd EXCEPT ![k] = Execute(lcd[k], rs, b)]
  BY DEF Take
<1>3. lcd' \in [{0, 1} -> Controller] /\ lcd'[k] = Execute(lcd[k], rs, b)
      /\ \A j \in {0, 1} \ {k} : lcd'[j] = lcd[j]
  BY <1>1, <1>2 DEF Chips
<1>4. width' = [width EXCEPT ![k] = Wide(rs, b, width[k])]
  <2>1. CASE ~rs /\ b \in 32 .. 63
    <3>1. width' = [width EXCEPT ![k] = IF b >= 48 THEN 8 ELSE 4]
      BY <2>1 DEF Take
    <3>2. Wide(rs, b, width[k]) = IF b >= 48 THEN 8 ELSE 4
      BY <2>1 DEF Wide
    <3> QED
      BY <3>1, <3>2, Zenon
  <2>2. CASE ~(~rs /\ b \in 32 .. 63)
    BY <2>2, ZenonT(40) DEF Take, Wide, Chips
  <2> QED
    BY <2>1, <2>2
<1>5. Wide(rs, b, width[k]) \in {4, 8}
  BY DEF Wide, Chips
<1> QED
  BY <1>3, <1>4, <1>5 DEF Chips

\* Four bits that are clocked into controller k concern no other one.
LEMMA ClockedIs ==
    ASSUME Chips, NEW k \in {0, 1}, NEW rs \in BOOLEAN, NEW n \in 0 .. 15, Clocked(k, rs, n)
    PROVE  /\ Chips'
           /\ \A j \in {0, 1} \ {k} : /\ lcd'[j] = lcd[j]
                                      /\ width'[j] = width[j] /\ half'[j] = half[j]
           /\ width[k] = 8 => /\ width'[k] = Wide(rs, 16 * n + 15, 8)
                              /\ half'[k] = -1
           /\ width[k] = 4 /\ half[k] = -1 =>
                /\ lcd' = lcd /\ width' = width /\ half'[k] = n
           /\ width[k] = 4 /\ half[k] >= 0 =>
                /\ lcd'[k] = Execute(lcd[k], rs, 16 * half[k] + n)
                /\ width'[k] = Wide(rs, 16 * half[k] + n, 4) /\ half'[k] = -1
<1>1. half[k] \in -1 .. 15 /\ width[k] \in {4, 8}
  BY DEF Chips
<1>2. CASE width[k] = 8
  <2>1. 16 * n + 15 \in 0 .. 255
    OBVIOUS
  <2>2. Take(k, rs, 16 * n + 15) /\ half' = half
    BY <1>2, SMTT(30) DEF Clocked
  <2> DEFINE b == 16 * n + 15
  <2> HIDE DEF b
  <2>3. /\ lcd' \in [{0, 1} -> Controller] /\ width' \in [{0, 1} -> {4, 8}]
        /\ width'[k] = Wide(rs, b, 8)
        /\ \A j \in {0, 1} \ {k} : lcd'[j] = lcd[j] /\ width'[j] = width[j]
    <3>1. b \in 0 .. 255 /\ Take(k, rs, b)
      BY <2>1, <2>2 DEF b
    <3> QED
      BY <1>2, <3>1, TakeIs
  <2>4. half[k] = -1
    BY <1>2 DEF Chips
  <2>5. Chips'
    BY <1>2, <2>2, <2>3, <2>4 DEF Chips
  <2> QED
    BY <1>2, <2>2, <2>3, <2>4, <2>5 DEF b
<1>3. CASE width[k] = 4 /\ half[k] = -1
  <2>1. half' = [half EXCEPT ![k] = n] /\ lcd' = lcd /\ width' = width
    BY <1>3 DEF Clocked
  <2>2. Chips'
    BY <1>3, <2>1 DEF Chips
  <2> QED
    BY <1>3, <2>1, <2>2 DEF Chips
<1>4. CASE width[k] = 4 /\ half[k] >= 0
  <2> DEFINE b == 16 * half[k] + n
  <2>1. b \in 0 .. 255 /\ Take(k, rs, b) /\ half' = [half EXCEPT ![k] = -1]
    BY <1>1, <1>4, SMTT(30) DEF Clocked
  <2> HIDE DEF b
  <2>2. /\ lcd' \in [{0, 1} -> Controller] /\ width' \in [{0, 1} -> {4, 8}]
        /\ lcd'[k] = Execute(lcd[k], rs, b) /\ width'[k] = Wide(rs, b, 4)
        /\ \A j \in {0, 1} \ {k} : lcd'[j] = lcd[j] /\ width'[j] = width[j]
    BY <1>4, <2>1, TakeIs, SMTT(30)
  <2>3. half'[k] = -1 /\ half' \in [{0, 1} -> -1 .. 15]
        /\ \A j \in {0, 1} \ {k} : half'[j] = half[j]
    BY <2>1 DEF Chips
  <2>4. Chips'
    BY <2>2, <2>3 DEF Chips
  <2> QED
    BY <1>4, <2>2, <2>3, <2>4 DEF b
<1> QED
  BY <1>1, <1>2, <1>3, <1>4

LEMMA DriveIs ==
    ASSUME Chips, port \in Lines, NEW lines \in Lines, Drive(lines)
    PROVE  /\ Chips' /\ port' = lines
           /\ port.e \subseteq lines.e => UNCHANGED <<lcd, width, half>>
           /\ \A j \in {0, 1} \ port.e : /\ lcd'[j] = lcd[j]
                                         /\ width'[j] = width[j] /\ half'[j] = half[j]
<1>1. port' = lines
  BY DEF Drive
<1>2. CASE port.e \subseteq lines.e
  BY <1>1, <1>2 DEF Drive, Chips
<1>3. CASE ~(port.e \subseteq lines.e)
  <2>1. PICK k \in port.e \ lines.e, rs \in {port.rs, lines.rs},
             n \in {port.data, lines.data} : Clocked(k, rs, n)
    BY <1>3 DEF Drive
  <2>2. k \in {0, 1} /\ rs \in BOOLEAN /\ n \in 0 .. 15
    BY <2>1 DEF Lines
  <2>3. /\ Chips'
        /\ \A j \in {0, 1} \ {k} : /\ lcd'[j] = lcd[j]
                                   /\ width'[j] = width[j] /\ half'[j] = half[j]
    BY <2>1, <2>2, ClockedIs
  <2> QED
    BY <1>1, <1>3, <2>1, <2>3
<1> QED
  BY <1>2, <1>3

\* What the first element looks like, and how far its writes may have come.
LEMMA FirstIs ==
    ASSUME BusType, out # <<>>
    PROVE  LET e == Head(out)
           IN  /\ e \in Sent /\ e.ctrl \in Used /\ e.ctrl \in {0, 1} /\ e.rs \in BOOLEAN
               /\ \A i \in 1 .. Len(e.nibbles) : e.nibbles[i] \in 0 .. 15
               /\ \/ /\ IsByte(e) /\ Len(e.nibbles) = 2 /\ step \in 0 .. 6
                     /\ e.rs \/ ByteOf(e) \notin 48 .. 63
                  \/ /\ ~IsByte(e) /\ Len(e.nibbles) = 4 /\ step \in 0 .. 12
                     /\ e.rs = FALSE /\ e.nibbles = <<3, 3, 3, 2>>
<1> DEFINE e == Head(out)
<1>1. e \in Sent
  BY HeadTailProperties DEF BusType
<1> HIDE DEF e
<1>2. e \in Element /\ e.ctrl \in Used
  BY <1>1 DEF Sent
<1>3. e.ctrl \in {0, 1} /\ e.rs \in BOOLEAN /\ e.nibbles \in Seq(0 .. 15)
  BY <1>2 DEF Element
<1>4. step \in Nat /\ step <= 3 * Len(e.nibbles)
  BY DEF BusType, e
<1>5. CASE IsByte(e)
  <2>1. Len(e.nibbles) = 2
    BY <1>5 DEF IsByte
  <2>2. e = Prelude(e.ctrl) => Len(e.nibbles) = 4
    BY DEF Prelude, Nibbles
  <2>3. e.rs \/ ByteOf(e) \notin 48 .. 63
    BY <1>1, <2>1, <2>2 DEF Sent
  <2>4. step \in 0 .. 6
    BY <1>4, <2>1
  <2> QED
    BY <1>1, <1>2, <1>3, <1>5, <2>1, <2>3, <2>4 DEF e
<1>6. CASE ~IsByte(e)
  <2>1. e = Prelude(e.ctrl)
    BY <1>1, <1>6 DEF Sent
  <2>2. e.rs = FALSE /\ e.nibbles = <<3, 3, 3, 2>> /\ Len(e.nibbles) = 4
    BY <2>1 DEF Prelude, Nibbles
  <2>3. step \in 0 .. 12
    BY <1>4, <2>2
  <2> QED
    BY <1>1, <1>2, <1>3, <1>6, <2>2, <2>3 DEF e
<1> QED
  BY <1>5, <1>6

\* The lines of each write.
LEMMA LinesAre ==
    ASSUME BusType, Mirror, out # <<>>
    PROVE  LET e == Head(out) IN
           /\ LinesAt(step) \in Lines
           /\ LinesAt(step).bl = lcd_bus.bl
           /\ step = 0 => LinesAt(step) = [lcd_bus EXCEPT !.rs = e.rs]
           /\ step % 3 = 1 => LinesAt(step) = [lcd_bus EXCEPT !.e = {e.ctrl}]
           /\ step % 3 = 2 =>
                LinesAt(step) = [lcd_bus EXCEPT !.data = e.nibbles[(step + 1) \div 3]]
           /\ step > 0 /\ step % 3 = 0 => LinesAt(step) = [lcd_bus EXCEPT !.e = {}]
<1> DEFINE e == Head(out)
<1>1. /\ e.ctrl \in {0, 1} /\ e.rs \in BOOLEAN /\ step \in 0 .. 12
      /\ step % 3 = 2 => e.nibbles[(step + 1) \div 3] \in 0 .. 15
  <2>1. CASE Len(e.nibbles) = 2 /\ step \in 0 .. 6
    <3>1. step % 3 = 2 => (step + 1) \div 3 \in 1 .. 2
      BY <2>1
    <3> QED
      BY <2>1, <3>1, FirstIs
  <2>2. CASE Len(e.nibbles) = 4 /\ step \in 0 .. 12
    <3>1. step % 3 = 2 => (step + 1) \div 3 \in 1 .. 4
      BY <2>2
    <3> QED
      BY <2>2, <3>1, FirstIs
  <2> QED
    BY <2>1, <2>2, FirstIs
<1>2. lcd_bus \in Lines
  BY DEF BusType
<1>3. CASE step = 0
  <2>1. LinesAt(step) = [lcd_bus EXCEPT !.rs = e.rs]
    BY <1>3 DEF LinesAt
  <2> QED
    BY <1>1, <1>2, <1>3, <2>1 DEF Lines
<1>4. CASE step % 3 = 1
  <2>1. step # 0 /\ step % 3 # 2 /\ step % 3 # 0 /\ lcd_bus.e = {}
    BY <1>1, <1>4 DEF Mirror
  <2>2. LinesAt(step) = [lcd_bus EXCEPT !.e = {e.ctrl}]
    BY <1>4, <2>1 DEF LinesAt
  <2> QED
    BY <1>1, <1>2, <1>4, <2>1, <2>2 DEF Lines
<1>5. CASE step % 3 = 2
  <2>1. step # 0 /\ step % 3 # 1 /\ step % 3 # 0
    BY <1>1, <1>5
  <2>2. LinesAt(step) = [lcd_bus EXCEPT !.data = e.nibbles[(step + 1) \div 3]]
    BY <1>5, <2>1 DEF LinesAt
  <2> HIDE DEF e
  <2> QED
    BY <1>1, <1>2, <1>5, <2>1, <2>2 DEF Lines, e
<1>6. CASE step > 0 /\ step % 3 = 0
  <2>1. step # 0 /\ step % 3 # 1 /\ step % 3 # 2 /\ lcd_bus.e = {e.ctrl}
    BY <1>1, <1>6 DEF Mirror
  <2>2. LinesAt(step) = [lcd_bus EXCEPT !.e = {}]
    BY <1>6, <2>1 DEF LinesAt
  <2> QED
    BY <1>1, <1>2, <1>6, <2>1, <2>2 DEF Lines
<1>7. step = 0 \/ step % 3 = 1 \/ step % 3 = 2 \/ (step > 0 /\ step % 3 = 0)
  BY <1>1
<1> QED
  BY <1>3, <1>4, <1>5, <1>6, <1>7

\* The driver's side of a write.
LEMMA ProceedIs ==
    ASSUME BusType, Mirror, Proceed
    PROVE  /\ out # <<>> /\ lcd_bus' = LinesAt(step) /\ lcd_bus' \in Lines
           /\ out' \in Seq(Sent) /\ step' \in Nat /\ Mirror'
           /\ IF out' = <<>> THEN step' = 0 ELSE step' <= 3 * Len(Head(out').nibbles)
           /\ \/ out' = out /\ step' = step + 1 /\ step # 3 * Len(Head(out).nibbles)
              \/ /\ out' = Tail(out) /\ step' = 0 /\ step = 3 * Len(Head(out).nibbles)
                 /\ step > 0 /\ step % 3 = 0
<1> DEFINE e == Head(out)
<1>1. out # <<>> /\ lcd_bus' = LinesAt(step)
  BY DEF Proceed
<1>2. lcd_bus' \in Lines
  BY <1>1, LinesAre
<1>3. /\ (Len(e.nibbles) = 2 /\ step \in 0 .. 6) \/ (Len(e.nibbles) = 4 /\ step \in 0 .. 12)
      /\ step \in 0 .. 12
  <2>1. (Len(e.nibbles) = 2 /\ step \in 0 .. 6) \/ (Len(e.nibbles) = 4 /\ step \in 0 .. 12)
    BY <1>1, FirstIs
  <2> QED
    BY <2>1
<1>4. CASE step = 3 * Len(e.nibbles)
  <2>1. out' = Tail(out) /\ step' = 0 /\ step > 0 /\ step % 3 = 0
    <3>1. out' = Tail(out) /\ step' = 0
      BY <1>4 DEF Proceed
    <3>2. step = 6 \/ step = 12
      <4> DEFINE n == Len(e.nibbles)
      <4>1. (n = 2 \/ n = 4) /\ step = 3 * n
        BY <1>3, <1>4
      <4> HIDE DEF n
      <4> QED
        BY <4>1
    <3> QED
      BY <3>1, <3>2
  <2>2. Tail(out) \in Seq(Sent)
    BY <1>1, HeadTailProperties DEF BusType
  <2>3. lcd_bus'.e = {}
    BY <1>1, <2>1, LinesAre DEF BusType, Lines
  <2>4. out' # <<>> => Len(Head(out').nibbles) \in Nat
    <3>1. ASSUME out' # <<>> PROVE Head(out') \in Sent
      BY <2>1, <2>2, <3>1, HeadTailProperties
    <3>2. \A x \in Sent : Len(x.nibbles) \in Nat
      BY DEF Sent, Element
    <3> QED
      BY <3>1, <3>2
  <2>5. Mirror'
    BY <2>1, <2>3 DEF Mirror
  <2>6. IF out' = <<>> THEN step' = 0 ELSE step' <= 3 * Len(Head(out').nibbles)
    BY <2>1, <2>4
  <2>7. step' \in Nat /\ out' \in Seq(Sent)
    BY <2>1, <2>2
  <2> QED
    BY <1>1, <1>2, <1>4, <2>1, <2>5, <2>6, <2>7
<1>5. CASE step # 3 * Len(e.nibbles)
  <2>1. out' = out /\ step' = step + 1
    BY <1>5 DEF Proceed
  <2>2. step' \in Nat /\ step' <= 3 * Len(Head(out').nibbles)
    <3> DEFINE n == Len(e.nibbles)
    <3>1. ((n = 2 /\ step \in 0 .. 6) \/ (n = 4 /\ step \in 0 .. 12)) /\ step # 3 * n
      BY <1>3, <1>5
    <3>2. step' = step + 1 /\ Len(Head(out').nibbles) = n
      BY <2>1
    <3> HIDE DEF n
    <3> QED
      BY <3>1, <3>2
  <2>3. Mirror'
    <3>1. CASE step = 0
      <4>1. lcd_bus' = [lcd_bus EXCEPT !.rs = e.rs]
        BY <1>1, <3>1, LinesAre
      <4>2. step' = 1 /\ lcd_bus'.e = {} /\ lcd_bus'.rs = e.rs
        BY <2>1, <3>1, <4>1 DEF Mirror, BusType, Lines
      <4> QED
        BY <2>1, <4>2 DEF Mirror
    <3>2. CASE step % 3 = 1
      <4>1. lcd_bus' = [lcd_bus EXCEPT !.e = {e.ctrl}]
        BY <1>1, <3>2, LinesAre
      <4>2. step > 0 /\ step' > 0 /\ step' % 3 = 2
        BY <1>3, <2>1, <3>2
      <4>3. lcd_bus'.e = {e.ctrl} /\ lcd_bus'.rs = e.rs
        BY <4>1, <4>2 DEF Mirror, BusType, Lines
      <4> QED
        BY <2>1, <4>2, <4>3 DEF Mirror
    <3>3. CASE step % 3 = 2
      <4>1. lcd_bus' = [lcd_bus EXCEPT !.data = e.nibbles[(step + 1) \div 3]]
        BY <1>1, <3>3, LinesAre
      <4>2. step > 0 /\ step' > 0 /\ step' % 3 = 0 /\ step' = step + 1
        BY <1>3, <2>1, <3>3
      <4>3. lcd_bus'.e = {e.ctrl} /\ lcd_bus'.rs = e.rs
        BY <4>1, <4>2, <3>3 DEF Mirror, BusType, Lines
      <4>4. lcd_bus'.data = e.nibbles[step' \div 3]
        BY <4>1, <4>2 DEF BusType, Lines
      <4> QED
        BY <2>1, <4>2, <4>3, <4>4 DEF Mirror
    <3>4. CASE step > 0 /\ step % 3 = 0
      <4>1. lcd_bus' = [lcd_bus EXCEPT !.e = {}]
        BY <1>1, <3>4, LinesAre
      <4>2. step' > 0 /\ step' % 3 = 1
        BY <1>3, <2>1, <3>4
      <4>3. lcd_bus'.e = {} /\ lcd_bus'.rs = e.rs
        BY <4>1, <3>4 DEF Mirror, BusType, Lines
      <4> QED
        BY <2>1, <4>2, <4>3 DEF Mirror
    <3>5. step = 0 \/ step % 3 = 1 \/ step % 3 = 2 \/ (step > 0 /\ step % 3 = 0)
      BY <1>3
    <3> QED
      BY <3>1, <3>2, <3>3, <3>4, <3>5
  <2>4. out' \in Seq(Sent)
    BY <2>1 DEF BusType
  <2> QED
    BY <1>1, <1>2, <1>5, <2>1, <2>2, <2>3, <2>4
<1> QED
  BY <1>4, <1>5

\* A controller is ready after an element only if it was before, or if the
\* element was its prelude.
LEMMA ReadyTail ==
    ASSUME BusType, out # <<>>, out' = Tail(out), NEW j, Ready(j)'
    PROVE  Ready(j) \/ (Head(out).ctrl = j /\ ~IsByte(Head(out)))
<1> SUFFICES ASSUME Head(out).ctrl = j => IsByte(Head(out)) PROVE Ready(j)
  OBVIOUS
<1>1. /\ out \in Seq(Sent) /\ Len(out) \in Nat /\ Len(out) >= 1
      /\ DOMAIN out = 1 .. Len(out) /\ Head(out) = out[1]
  BY DEF BusType
<1>2. /\ DOMAIN out' = 1 .. Len(out) - 1
      /\ \A i \in 1 .. Len(out) - 1 : out'[i] = out[i + 1]
  BY <1>1, HeadTailProperties
<1>3. ASSUME NEW i \in 1 .. Len(out), i # 1, out[i].ctrl = j PROVE IsByte(out[i])
  <2>1. i - 1 \in 1 .. Len(out) - 1 /\ out'[i - 1] = out[i]
    BY <1>1, <1>2, <1>3
  <2> QED
    BY <1>2, <1>3, <2>1 DEF Ready
<1> QED
  BY <1>1, <1>3 DEF Ready

\* A write with which no E falls.
LEMMA StillInStep ==
    ASSUME BusType, out # <<>>, Halves, Preluded, out' = out, step' = step + 1,
           step = 0 \/ step % 3 # 0, UNCHANGED <<type, width, half>>
    PROVE  Halves' /\ Preluded'
<1>1. step \in 0 .. 12
  <2>1. step \in 0 .. 6 \/ step \in 0 .. 12
    BY FirstIs
  <2> QED
    BY <2>1
<1>2. /\ step' > 3 <=> step > 3
      /\ step' > 9 <=> step > 9
      /\ step' > 6 <=> step > 6
      /\ step' \in 0 .. 13
  BY <1>1
<1>3. Used' = Used /\ \A k : Ready(k)' <=> Ready(k)
  BY DEF Used, Ready
<1>4. Halves'
  BY <1>2, <1>3 DEF Halves
<1>5. Preluded'
  BY <1>1, <1>2, <1>3 DEF Preluded
<1> QED
  BY <1>4, <1>5

\* While nothing has failed, the E that the driver lets fall is high, and the
\* nibble is the one to be sent.
LEMMA FallIs ==
    ASSUME TypeOK, BusInv, intact, Write, step > 0, step % 3 = 0
    PROVE  LET e == Head(out)
           IN  /\ Clocked(e.ctrl, e.rs, e.nibbles[step \div 3])
               /\ port' = lcd_bus' /\ Chips
<1> DEFINE e == Head(out)
           lines == LinesAt(step)
<1>1. out # <<>> /\ lcd_bus' = lines /\ Drive(lines)
  BY DEF Write, Proceed
<1>2. lines = [lcd_bus EXCEPT !.e = {}] /\ lcd_bus \in Lines
  BY <1>1, LinesAre DEF BusInv, BusType
<1>3. port = lcd_bus
  BY DEF BusInv, Outputs, Fresh
<1>4. lcd_bus.e = {e.ctrl} /\ lcd_bus.rs = e.rs /\ lcd_bus.data = e.nibbles[step \div 3]
  BY DEF BusInv, Mirror
<1>5. port.e = {e.ctrl} /\ lines.e = {} /\ port.rs = e.rs /\ lines.rs = e.rs
      /\ port.data = e.nibbles[step \div 3] /\ lines.data = e.nibbles[step \div 3]
  BY <1>2, <1>3, <1>4 DEF Lines
<1> HIDE DEF e, lines
<1>6. port' = lines /\ Clocked(e.ctrl, e.rs, e.nibbles[step \div 3])
  BY <1>1, <1>5 DEF Drive
<1>7. Chips
  BY DEF BusInv, BusType, Chips, TypeOK
<1> QED
  BY <1>1, <1>6, <1>7 DEF e

\* A nibble of a byte: the first is kept, the second completes the byte, unless
\* the prelude of the controller is still to come.
LEMMA ByteFalls ==
    ASSUME TypeOK, BusInv, intact, Write, step > 0, step % 3 = 0, IsByte(Head(out))
    PROVE  (Noise \/ Deliver) /\ Halves' /\ Preluded' /\ Chips'
<1> DEFINE e == Head(out)
           k == e.ctrl
           n == e.nibbles[step \div 3]
<1>1. out # <<>> /\ BusType
  BY DEF Write, Proceed, BusInv
<1>2. k \in Used /\ k \in {0, 1} /\ e.rs \in BOOLEAN
  BY <1>1, FirstIs
<1>3. e.rs \/ ByteOf(e) \notin 48 .. 63
  BY <1>1, FirstIs
<1>4. Len(e.nibbles) = 2
  BY DEF IsByte
<1>5. e.nibbles[1] \in 0 .. 15 /\ e.nibbles[2] \in 0 .. 15
  <2>1. \A i \in 1 .. Len(e.nibbles) : e.nibbles[i] \in 0 .. 15
    BY <1>1, FirstIs
  <2> QED
    BY <1>4, <2>1
<1>6. step = 3 \/ step = 6
  <2>1. step \in 0 .. 6
    BY <1>1, <1>4, FirstIs
  <2> QED
    BY <2>1
<1>7. n \in 0 .. 15 /\ (step = 3 => n = e.nibbles[1]) /\ (step = 6 => n = e.nibbles[2])
  BY <1>5, <1>6
<1>8. Clocked(k, e.rs, n) /\ Chips
  BY FallIs
<1>9. UNCHANGED <<type, intact, calls, starts, driver>> /\ Used' = Used
  BY DEF Write, Proceed, driver, Used
<1>10. Halves
  BY DEF BusInv
<1>11. (step = 3 => out' = out /\ step' = 4) /\ (step = 6 => out' = Tail(out) /\ step' = 0)
  <2> DEFINE len == Len(e.nibbles)
  <2>1. len = 2
    BY <1>4
  <2>2. IF step = 3 * len THEN out' = Tail(out) /\ step' = 0 ELSE out' = out /\ step' = step + 1
    BY DEF Write, Proceed
  <2> HIDE DEF len
  <2> QED
    BY <2>1, <2>2
<1> DEFINE rs == e.rs
<1> HIDE DEF n, k, rs
<1>12. k \in {0, 1} /\ rs \in BOOLEAN /\ n \in 0 .. 15 /\ Clocked(k, rs, n)
  BY <1>2, <1>7, <1>8 DEF k, rs, n
<1>13. /\ Chips'
       /\ \A j \in {0, 1} \ {k} : /\ lcd'[j] = lcd[j]
                                  /\ width'[j] = width[j] /\ half'[j] = half[j]
       /\ width[k] = 4 /\ half[k] = -1 =>
            /\ lcd' = lcd /\ width' = width /\ half'[k] = n
       /\ width[k] = 4 /\ half[k] >= 0 =>
            /\ lcd'[k] = Execute(lcd[k], rs, 16 * half[k] + n)
            /\ width'[k] = Wide(rs, 16 * half[k] + n, 4) /\ half'[k] = -1
  BY <1>8, <1>12, ClockedIs
<1>14. lcd' \in [{0, 1} -> Controller] /\ lcd \in [{0, 1} -> Controller]
  BY <1>8, <1>13 DEF Chips
<1>15. \A j \in Used : Ready(j) =>
         /\ width[j] = 4
         /\ half[j] = IF step > 3 /\ j = k THEN e.nibbles[1] ELSE -1
  BY <1>10 DEF Halves, k
<1>16. CASE step = 3
  <2>1. \A j : Ready(j)' <=> Ready(j)
    BY <1>11, <1>16 DEF Ready
  <2>2. Ready(k) => lcd' = lcd /\ width'[k] = 4 /\ half'[k] = n
    BY <1>2, <1>13, <1>15, <1>16 DEF k
  <2>3. \A j \in {0, 1} : Ready(j) => lcd'[j] = lcd[j]
    BY <1>13, <2>2
  <2>4. Noise
    BY <1>9, <1>11, <1>14, <1>16, <2>3 DEF Noise
  <2>5. Halves'
    <3> SUFFICES ASSUME NEW j \in Used, Ready(j)
                 PROVE  width'[j] = 4 /\ half'[j] = IF k = j THEN e.nibbles[1] ELSE -1
      BY <1>9, <1>11, <1>16, <2>1 DEF Halves, k
    <3>1. CASE j = k
      BY <1>7, <1>16, <2>2, <3>1
    <3>2. CASE j # k
      <4>1. j \in {0, 1} /\ width[j] = 4 /\ half[j] = -1
        BY <1>15, <1>16, UsedIs
      <4> QED
        BY <1>13, <3>2, <4>1
    <3> QED
      BY <3>1, <3>2
  <2>6. Preluded'
    BY <1>11, <1>16 DEF Preluded
  <2> QED
    BY <1>13, <2>4, <2>5, <2>6
<1>17. CASE step = 6
  <2>1. \A j : Ready(j)' => Ready(j)
    BY <1>1, <1>11, <1>17, ReadyTail
  <2>2. ASSUME Ready(k)
        PROVE  /\ lcd'[k] = Execute(lcd[k], rs, ByteOf(e))
               /\ width'[k] = 4 /\ half'[k] = -1
    <3> DEFINE b == ByteOf(e)
    <3>1. k \in Used /\ k \in {0, 1}
      BY <1>2 DEF k
    <3>2. width[k] = 4 /\ half[k] = e.nibbles[1]
      BY <1>15, <1>17, <2>2, <3>1
    <3>3. 16 * half[k] + n = b /\ half[k] >= 0
      BY <1>5, <1>7, <1>17, <3>2 DEF ByteOf
    <3>4. rs \/ b \notin 48 .. 63
      BY <1>3 DEF rs
    <3> HIDE DEF b
    <3>5. /\ lcd'[k] = Execute(lcd[k], rs, b)
          /\ width'[k] = Wide(rs, b, 4) /\ half'[k] = -1
      BY <1>13, <3>2, <3>3
    <3>6. b \in 0 .. 255
      <4> DEFINE n1 == e.nibbles[1]
                 n2 == e.nibbles[2]
      <4>1. b = 16 * n1 + n2 /\ n1 \in 0 .. 15 /\ n2 \in 0 .. 15
        BY <1>5 DEF b, ByteOf
      <4> HIDE DEF n1, n2
      <4> QED
        BY <4>1
    <3>7. Wide(rs, b, 4) = 4
      BY <3>4, <3>6 DEF Wide
    <3> QED
      BY <3>5, <3>7 DEF b
  <2>3. After(lcd, e) = [lcd EXCEPT ![k] = Execute(lcd[k], rs, ByteOf(e))]
    BY DEF After, k, rs
  <2>4. \A j \in {0, 1} : Ready(j) => lcd'[j] = After(lcd, e)[j]
    <3> TAKE j \in {0, 1}
    <3>1. CASE j = k
      BY <1>14, <2>2, <2>3, <3>1
    <3>2. CASE j # k
      BY <1>13, <1>14, <2>3, <3>2
    <3> QED
      BY <3>1, <3>2
  <2>5. Deliver
    BY <1>1, <1>9, <1>11, <1>14, <1>17, <2>4 DEF Deliver
  <2>6. Halves'
    <3> SUFFICES ASSUME NEW j \in Used, Ready(j)
                 PROVE  width'[j] = 4 /\ half'[j] = -1
      BY <1>9, <1>11, <1>17, <2>1 DEF Halves
    <3>1. CASE j = k
      BY <2>2, <3>1
    <3>2. CASE j # k
      <4>1. j \in {0, 1} /\ width[j] = 4 /\ half[j] = -1
        BY <1>15, <3>2, UsedIs
      <4> QED
        BY <1>13, <3>2, <4>1
    <3> QED
      BY <3>1, <3>2
  <2>7. Preluded'
    BY <1>11, <1>17 DEF Preluded
  <2> QED
    BY <1>13, <2>5, <2>6, <2>7
<1> QED
  BY <1>6, <1>16, <1>17

\* A nibble of the prelude: whatever width a controller is in and whichever half
\* it waits for, three times 3 make it wide, and then 2 makes it narrow.
LEMMA PreludeFalls ==
    ASSUME TypeOK, BusInv, intact, Write, step > 0, step % 3 = 0, ~IsByte(Head(out))
    PROVE  (Noise \/ Deliver) /\ Halves' /\ Preluded' /\ Chips'
<1> DEFINE e == Head(out)
           k == e.ctrl
           n == e.nibbles[step \div 3]
           rs == e.rs
<1>1. out # <<>> /\ BusType
  BY DEF Write, Proceed, BusInv
<1>2. k \in Used /\ k \in {0, 1}
  BY <1>1, FirstIs
<1>3. e.rs = FALSE /\ e.nibbles = <<3, 3, 3, 2>> /\ Len(e.nibbles) = 4
  BY <1>1, FirstIs
<1>4. step \in {3, 6, 9, 12}
  <2>1. step \in 0 .. 12
    BY <1>1, FirstIs
  <2> QED
    BY <2>1
<1>5. (step # 12 => n = 3) /\ (step = 12 => n = 2)
  BY <1>3, <1>4
<1>6. Clocked(k, rs, n) /\ Chips
  BY FallIs
<1>7. UNCHANGED <<type, intact, calls, starts, driver>> /\ Used' = Used
  BY DEF Write, Proceed, driver, Used
<1>8. IF step = 12 THEN out' = Tail(out) /\ step' = 0 ELSE out' = out /\ step' = step + 1
  <2> DEFINE len == Len(e.nibbles)
  <2>1. len = 4
    BY <1>3
  <2>2. IF step = 3 * len THEN out' = Tail(out) /\ step' = 0 ELSE out' = out /\ step' = step + 1
    BY DEF Write, Proceed
  <2> HIDE DEF len
  <2> QED
    BY <2>1, <2>2
<1>9. ~Ready(k) /\ ~IsByte(e)
  <2>1. 1 \in DOMAIN out /\ out[1] = e
    BY <1>1 DEF BusType
  <2> QED
    BY <2>1 DEF Ready
<1>10. \A j \in Used : Ready(j) => j # k /\ width[j] = 4 /\ half[j] = -1
  BY <1>9 DEF BusInv, Halves
<1>11. step > 3 => \/ width[k] = 8
                   \/ width[k] = 4 /\ half[k] = 3 /\ step <= 9
                   \/ width[k] = 4 /\ half[k] = -1 /\ step <= 6
  BY <1>9 DEF BusInv, Preluded
<1>12. k \in {0, 1} /\ rs \in BOOLEAN /\ ~rs /\ n \in 0 .. 15
  <2>1. rs \in BOOLEAN /\ ~rs
    BY <1>3, Zenon
  <2>2. n \in 0 .. 15
    BY <1>4, <1>5
  <2> QED
    BY <1>2, <2>1, <2>2, Zenon
<1> HIDE DEF n, k, rs
<1>13. /\ Chips'
       /\ \A j \in {0, 1} \ {k} : /\ lcd'[j] = lcd[j]
                                  /\ width'[j] = width[j] /\ half'[j] = half[j]
       /\ width[k] = 8 => /\ width'[k] = Wide(rs, 16 * n + 15, 8)
                          /\ half'[k] = -1
       /\ width[k] = 4 /\ half[k] = -1 => width' = width /\ half'[k] = n
       /\ width[k] = 4 /\ half[k] >= 0 =>
            width'[k] = Wide(rs, 16 * half[k] + n, 4) /\ half'[k] = -1
  BY <1>6, <1>12, ClockedIs
<1>14. lcd' \in [{0, 1} -> Controller]
  BY <1>13 DEF Chips
<1>15. width[k] \in {4, 8} /\ half[k] \in -1 .. 15 /\ (width[k] = 8 => half[k] = -1)
  BY <1>6, <1>12 DEF Chips
<1>16. \A j \in {0, 1} : Ready(j) => lcd'[j] = lcd[j]
  BY <1>9, <1>13
<1>17. CASE step # 12
  <2>1. out' = out /\ step' = step + 1 /\ n = 3 /\ step' > 3
    BY <1>4, <1>5, <1>8, <1>17
  <2>2. \A j : Ready(j)' <=> Ready(j)
    BY <2>1 DEF Ready
  <2>3. Noise
    BY <1>7, <1>14, <1>16, <2>1 DEF Noise
  <2>4. Halves'
    <3> SUFFICES ASSUME NEW j \in Used, Ready(j)
                 PROVE  /\ width'[j] = 4
                        /\ half'[j] = IF step' > 3 /\ k = j THEN e.nibbles[1] ELSE -1
      BY <1>7, <2>1, <2>2 DEF Halves, k
    <3>1. j \in {0, 1} /\ j # k /\ width[j] = 4 /\ half[j] = -1
      BY <1>10, UsedIs
    <3> QED
      BY <1>13, <3>1
  <2>5. \/ width'[k] = 8
        \/ width'[k] = 4 /\ half'[k] = 3 /\ step' <= 9
        \/ width'[k] = 4 /\ half'[k] = -1 /\ step' <= 6
    <3>1. CASE width[k] = 8
      BY <1>12, <1>13, <2>1, <3>1 DEF Wide
    <3>2. CASE width[k] = 4 /\ half[k] = -1
      <4>1. step \in {3, 6}
        BY <1>4, <1>11, <1>17, <3>2
      <4> QED
        BY <1>13, <2>1, <3>2, <4>1
    <3>3. CASE width[k] = 4 /\ half[k] = 3
      BY <1>12, <1>13, <2>1, <3>3 DEF Wide
    <3>4. CASE width[k] = 4 /\ half[k] >= 0 /\ half[k] # 3
      <4>1. step = 3
        BY <1>4, <1>11, <1>17, <3>4
      <4>2. width'[k] \in {4, 8} /\ half'[k] = -1
        BY <1>12, <1>13, <3>4 DEF Wide
      <4> QED
        BY <2>1, <4>1, <4>2
    <3> QED
      BY <1>15, <3>1, <3>2, <3>3, <3>4
  <2>6. Preluded'
    BY <2>1, <2>5 DEF Preluded, k
  <2> QED
    BY <1>13, <2>3, <2>4, <2>6
<1>18. CASE step = 12
  <2>1. out' = Tail(out) /\ step' = 0 /\ n = 2 /\ width[k] = 8
    BY <1>5, <1>8, <1>11, <1>18
  <2>2. width'[k] = 4 /\ half'[k] = -1
    BY <1>12, <1>13, <2>1 DEF Wide
  <2>3. Deliver
    <3>1. After(lcd, e) = lcd
      BY <1>9 DEF After
    <3> QED
      BY <1>1, <1>7, <1>14, <1>16, <2>1, <3>1 DEF Deliver
  <2>4. Halves'
    <3> SUFFICES ASSUME NEW j \in Used, Ready(j)'
                 PROVE  width'[j] = 4 /\ half'[j] = -1
      BY <1>7, <2>1 DEF Halves
    <3>1. CASE j = k
      BY <2>2, <3>1
    <3>2. CASE j # k
      <4>1. Ready(j)
        BY <1>1, <2>1, <3>2, ReadyTail DEF k
      <4>2. j \in {0, 1} /\ width[j] = 4 /\ half[j] = -1
        BY <1>10, <4>1, UsedIs
      <4> QED
        BY <1>13, <3>2, <4>2
    <3> QED
      BY <3>1, <3>2
  <2>5. Preluded'
    BY <2>1 DEF Preluded
  <2> QED
    BY <1>13, <2>3, <2>4, <2>5
<1> QED
  BY <1>17, <1>18

LEMMA SameSent ==
    ASSUME type' = type
    PROVE  Used' = Used /\ Sent' = Sent
BY DEF Used, Sent

\* What is to be sent begins with no writes done.
LEMMA SentLength ==
    ASSUME NEW s \in Seq(Sent), s # <<>>
    PROVE  0 <= 3 * Len(Head(s).nibbles)
<1>1. Len(Head(s).nibbles) \in Nat
  <2>1. Head(s) \in Sent
    BY HeadTailProperties
  <2> QED
    BY <2>1 DEF Sent, Element
<1> DEFINE len == Len(Head(s).nibbles)
<1>2. len \in Nat
  BY <1>1
<1> HIDE DEF len
<1>3. 0 <= 3 * len
  BY <1>2
<1> QED
  BY <1>3 DEF len

LEMMA BusChips ==
    ASSUME TypeOK, BusType
    PROVE  Chips
BY DEF BusType, TypeOK, Chips

\* With nothing to be sent, nothing that failed and a panel that is in step, the
\* lines are as the driver thinks.
LEMMA IdleLines ==
    ASSUME BusInv, out = <<>>
    PROVE  step = 0 /\ lcd_bus.e = {} /\ (intact => port = lcd_bus)
<1>1. step = 0 /\ lcd_bus.e = {}
  BY DEF BusInv, BusType, Mirror
<1>2. Ready(0)
  BY DEF Ready
<1> QED
  BY <1>1, <1>2, UsedIs DEF BusInv, Outputs, Fresh

\* A call of the driver puts bytes in line and leaves the bus alone.
LEMMA CallKeeps ==
    ASSUME TypeOK, BusInv, BusCall
    PROVE  Next /\ BusInv'
<1>1. AnyCall /\ UNCHANGED busVars
  BY DEF BusCall
<1>2. Call /\ out' \in Seq(Sent)
  BY <1>1, CallSends
<1>3. UNCHANGED <<type, lcd, intact>> /\ out = <<>>
  BY <1>2 DEF Call, Turn
<1>4. step = 0 /\ lcd_bus.e = {} /\ (intact => port = lcd_bus)
  BY <1>3, IdleLines
<1>5. UNCHANGED <<lcd_bus, port, step, width, half>>
  BY <1>1 DEF busVars
<1>6. Used' = Used /\ Sent' = Sent
  BY <1>3, SameSent
<1>7. BusType'
  <2>1. IF out' = <<>> THEN step' = 0 ELSE step' <= 3 * Len(Head(out').nibbles)
    BY <1>2, <1>4, <1>5, SentLength
  <2> QED
    BY <1>2, <1>4, <1>5, <1>6, <2>1 DEF BusInv, BusType
<1>8. Mirror'
  BY <1>4, <1>5 DEF Mirror
<1>9. Outputs'
  BY <1>3, <1>4, <1>5, <1>6 DEF BusInv, Outputs
<1>10. ASSUME intact PROVE Halves' /\ Preluded'
  <2>1. \A k \in Used : width[k] = 4 /\ half[k] = -1
    BY <1>3, <1>4, <1>10 DEF BusInv, Halves, Ready
  <2>2. step' = 0
    BY <1>4, <1>5
  <2> QED
    BY <1>5, <1>6, <2>1, <2>2 DEF Halves, Preluded
<1> QED
  BY <1>1, <1>3, <1>7, <1>8, <1>9, <1>10 DEF BusInv, Next

\* The light is one more line, and no E falls with it.
LEMMA LightKeeps ==
    ASSUME TypeOK, BusInv, NEW on \in BOOLEAN, SwitchLight(on)
    PROVE  Next /\ BusInv'
<1>1. /\ Turn /\ lcd_bus' = [lcd_bus EXCEPT !.bl = on] /\ Drive(lcd_bus')
      /\ UNCHANGED <<driver, out, intact, starts, step>> /\ type' = type
  BY DEF SwitchLight, driver
<1>2. step = 0 /\ lcd_bus.e = {} /\ (intact => port = lcd_bus)
  BY <1>1, IdleLines DEF Turn
<1>3. lcd_bus' \in Lines /\ lcd_bus'.e = {}
  BY <1>1, <1>2 DEF BusInv, BusType, Lines
<1> DEFINE lines == lcd_bus'
<1> HIDE DEF lines
<1>4. Chips /\ port \in Lines
  BY BusChips DEF BusInv, BusType
<1>5. /\ Chips' /\ port' = lcd_bus'
      /\ port.e \subseteq lcd_bus'.e => UNCHANGED <<lcd, width, half>>
  <2>1. lines \in Lines /\ Drive(lines)
    BY <1>1, <1>3 DEF lines
  <2> QED
    BY <1>4, <2>1, DriveIs DEF lines
<1>6. Used' = Used /\ Sent' = Sent
  BY <1>1, SameSent
<1>7. BusType'
  BY <1>1, <1>3, <1>5, <1>6 DEF BusInv, BusType, Chips
<1>8. Mirror' /\ Outputs'
  BY <1>1, <1>2, <1>3, <1>5 DEF Mirror, Outputs
<1>9. CASE intact
  <2>1. UNCHANGED <<lcd, width, half>>
    BY <1>2, <1>3, <1>5, <1>9
  <2>2. Halves' /\ Preluded'
    BY <1>1, <1>6, <1>9, <2>1 DEF BusInv, Halves, Preluded, Ready
  <2>3. SetBacklight
    BY <1>1, <2>1 DEF SetBacklight, Call
  <2> QED
    BY <1>7, <1>8, <2>2, <2>3 DEF BusInv, Next
<1>10. CASE ~intact
  <2>1. lcd' \in [{0, 1} -> Controller]
    BY <1>5 DEF Chips
  <2>2. Garble
    BY <1>1, <1>10, <2>1 DEF Garble, Turn, TypeOK
  <2> QED
    BY <1>1, <1>7, <1>8, <1>10, <2>2 DEF BusInv, Next
<1> QED
  BY <1>9, <1>10

\* A concatenation has the elements of both its parts.
Has(s, x) == \E i \in DOMAIN s : s[i] = x

LEMMA ConcatHas ==
    ASSUME NEW s \in Seq(Sent), NEW t \in Seq(Sent), NEW x, Has(s, x) \/ Has(t, x)
    PROVE  Has(s \o t, x)
<1>1. /\ DOMAIN s = 1 .. Len(s) /\ DOMAIN t = 1 .. Len(t)
      /\ Len(s) \in Nat /\ Len(t) \in Nat /\ DOMAIN (s \o t) = 1 .. Len(s) + Len(t)
  OBVIOUS
<1>2. CASE Has(s, x)
  <2>1. PICK i \in DOMAIN s : s[i] = x
    BY <1>2 DEF Has
  <2>2. i \in DOMAIN (s \o t) /\ (s \o t)[i] = x
    BY <1>1, <2>1
  <2> QED
    BY <2>2 DEF Has
<1>3. CASE Has(t, x)
  <2>1. PICK i \in DOMAIN t : t[i] = x
    BY <1>3 DEF Has
  <2>2. Len(s) + i \in DOMAIN (s \o t) /\ (s \o t)[Len(s) + i] = x
    BY <1>1, <2>1
  <2> QED
    BY <2>2 DEF Has
<1> QED
  BY <1>2, <1>3

\* The bytes of a start have a prelude for each controller of the panel.
LEMMA InitHasPreludes ==
    ASSUME NEW k \in Used
    PROVE  Has(InitBytes, Prelude(k))
<1>1. ASSUME NEW j \in Used, NEW mode \in {0, 4}
      PROVE  Has(InitCtrl(j, mode), Prelude(j))
  <2> DEFINE first == <<Prelude(j)>>
             fun   == FunctionSet(j)
             more  == <<WriteCommand(j, 6), Display(j, mode, 0)>>
             all   == ModeBytes(j, 4, 0)
  <2>1. first \in Seq(Sent) /\ fun \in Seq(Sent) /\ more \in Seq(Sent) /\ all \in Seq(Sent)
    BY InitParts
  <2>2. Has(first, Prelude(j))
    BY DEF Has
  <2>3. InitCtrl(j, mode) = ((first \o fun) \o more) \o all
    BY DEF InitCtrl
  <2> HIDE DEF first, fun, more, all
  <2> DEFINE two   == first \o fun
             three == two \o more
  <2>4. two \in Seq(Sent) /\ Has(two, Prelude(j)) /\ InitCtrl(j, mode) = three \o all
    BY <2>1, <2>2, <2>3, ConcatHas
  <2> HIDE DEF two
  <2>5. three \in Seq(Sent) /\ Has(three, Prelude(j))
    BY <2>1, <2>4, ConcatHas
  <2> HIDE DEF three
  <2> QED
    BY <2>1, <2>4, <2>5, ConcatHas
<1>2. \A j \in Used : /\ <<WriteCommand(j, 1)>> \in Seq(Sent)
                      /\ \A mode \in {0, 4} : InitCtrl(j, mode) \in Seq(Sent)
  BY ClearIs, InitCtrlIs
<1>3. CASE type = "LCD40x4"
  <2> DEFINE a == InitCtrl(1, 0)
             b == <<WriteCommand(1, 1)>>
             c == InitCtrl(0, 4)
             d == <<WriteCommand(0, 1)>>
  <2>1. Used = {0, 1} /\ InitBytes = ((a \o b) \o c) \o d
    BY <1>3 DEF Used, InitBytes
  <2>2. a \in Seq(Sent) /\ b \in Seq(Sent) /\ c \in Seq(Sent) /\ d \in Seq(Sent)
    BY <1>2, <2>1
  <2>3. Has(a, Prelude(1)) /\ Has(c, Prelude(0))
    BY <1>1, <2>1
  <2> HIDE DEF a, b, c, d
  <2> DEFINE ab  == a \o b
             abc == ab \o c
  <2>4. ab \in Seq(Sent) /\ Has(ab, Prelude(1)) /\ InitBytes = abc \o d
    BY <2>1, <2>2, <2>3, ConcatHas
  <2> HIDE DEF ab
  <2>5. abc \in Seq(Sent) /\ Has(abc, Prelude(1)) /\ Has(abc, Prelude(0))
    BY <2>2, <2>3, <2>4, ConcatHas
  <2> HIDE DEF abc
  <2>6. Has(InitBytes, Prelude(1)) /\ Has(InitBytes, Prelude(0))
    BY <2>2, <2>4, <2>5, ConcatHas
  <2> QED
    BY <2>1, <2>6
<1>4. CASE type # "LCD40x4"
  <2>1. k = 0 /\ InitBytes = InitCtrl(0, 0) \o <<WriteCommand(0, 1)>>
    BY <1>4 DEF Used, InitBytes
  <2>2. Has(InitCtrl(0, 0), Prelude(0))
    BY <1>1, UsedIs
  <2> QED
    BY <1>2, <2>1, <2>2, UsedIs, ConcatHas
<1> QED
  BY <1>3, <1>4

\* When the program starts, no controller has had its prelude.
LEMMA StartFresh ==
    ASSUME NEW k \in Used
    PROVE  ~ \A i \in DOMAIN InitBytes : InitBytes[i].ctrl = k => IsByte(InitBytes[i])
<1>1. PICK i \in DOMAIN InitBytes : InitBytes[i] = Prelude(k)
  BY InitHasPreludes DEF Has
<1>2. InitBytes[i].ctrl = k /\ ~IsByte(InitBytes[i])
  BY <1>1 DEF Prelude, Nibbles, IsByte
<1> QED
  BY <1>1, <1>2

\* A start, whatever the panel was in the middle of.
LEMMA RestartKeeps ==
    ASSUME TypeOK, BusInv, Restart
    PROVE  Next /\ BusInv'
<1>1. /\ Again /\ lcd_bus' = AllLow /\ step' = 0
      /\ Drive(AllLow) \/ UNCHANGED <<port, lcd, width, half>>
  BY DEF Restart
<1>2. type' = type /\ out' = InitBytes /\ intact' = TRUE
  BY <1>1 DEF Again
<1>3. AllLow \in Lines /\ AllLow.e = {}
  BY DEF AllLow, Lines
<1>4. Chips /\ port \in Lines /\ port.e \subseteq Used
  BY BusChips DEF BusInv, BusType, Outputs
<1>5. Chips' /\ port' \in Lines /\ port'.e \subseteq Used
  <2>1. CASE Drive(AllLow)
    BY <1>3, <1>4, <2>1, DriveIs
  <2>2. CASE UNCHANGED <<port, lcd, width, half>>
    BY <1>4, <2>2 DEF Chips
  <2> QED
    BY <1>1, <2>1, <2>2
<1>6. Used' = Used /\ Sent' = Sent
  BY <1>2, SameSent
<1>7. Start
  BY <1>1, <1>5 DEF Start, Chips
<1>8. \A k \in Used : ~Ready(k)'
  BY <1>2, StartFresh DEF Ready
<1>9. BusType'
  <2>1. out' \in Seq(Sent)
    BY <1>2, InitBytesIs
  <2>2. IF out' = <<>> THEN step' = 0 ELSE step' <= 3 * Len(Head(out').nibbles)
    BY <1>1, <2>1, SentLength
  <2> QED
    BY <1>1, <1>3, <1>5, <1>6, <2>1, <2>2 DEF BusType, Chips
<1>10. Mirror'
  BY <1>1, <1>3 DEF Mirror
<1>11. Outputs'
  BY <1>1, <1>5, <1>6, <1>8 DEF Outputs, Fresh
<1>12. Halves' /\ Preluded'
  BY <1>1, <1>6, <1>8 DEF Halves, Preluded
<1> QED
  BY <1>7, <1>9, <1>10, <1>11, <1>12 DEF BusInv, Next

\* The lines are all low when the panel gets its power, and its controllers are wide.
LEMMA BusInitIs == BusInit => Init /\ BusInv
<1> SUFFICES ASSUME BusInit PROVE Init /\ BusInv
  OBVIOUS
<1>1. /\ out = InitBytes /\ step = 0 /\ lcd_bus = AllLow /\ port = AllLow
      /\ width = [k \in {0, 1} |-> 8] /\ half = [k \in {0, 1} |-> -1]
  BY DEF BusInit, Started
<1>2. AllLow \in Lines /\ AllLow.e = {}
  BY DEF AllLow, Lines
<1>3. Init
  <2>1. PowerOn \in Controller
    BY DEF PowerOn, Controller
  <2> QED
    BY <2>1 DEF BusInit, Init
<1>4. BusType
  <2>1. out \in Seq(Sent)
    BY <1>1, InitBytesIs
  <2>2. IF out = <<>> THEN step = 0 ELSE step <= 3 * Len(Head(out).nibbles)
    BY <1>1, <2>1, SentLength
  <2> QED
    BY <1>1, <1>2, <2>1, <2>2 DEF BusType
<1>5. \A k \in Used : ~Ready(k)
  BY <1>1, StartFresh DEF Ready
<1>6. Mirror /\ Outputs
  BY <1>1, <1>2 DEF Mirror, Outputs
<1>7. Halves /\ Preluded
  BY <1>1, <1>5 DEF Halves, Preluded
<1> QED
  BY <1>3, <1>4, <1>6, <1>7 DEF BusInv

\* The driver's side of a write, whether it arrives or not.
LEMMA ProceedKeeps ==
    ASSUME TypeOK, BusInv, Proceed, Chips'
    PROVE  /\ BusType' \/ port' \notin Lines
           /\ Mirror' /\ lcd_bus'.e \subseteq Used /\ Used' = Used
           /\ UNCHANGED <<type, calls, starts, driver>>
           /\ step = 0 \/ step % 3 # 0 => out' = out /\ step' = step + 1
           /\ out' = out \/ out' = Tail(out)
           /\ step % 3 \in {0, 1, 2}
<1>1. BusType /\ Mirror
  BY DEF BusInv
<1>2. /\ out # <<>> /\ lcd_bus' = LinesAt(step) /\ lcd_bus' \in Lines
      /\ out' \in Seq(Sent) /\ step' \in Nat /\ Mirror'
      /\ IF out' = <<>> THEN step' = 0 ELSE step' <= 3 * Len(Head(out').nibbles)
      /\ \/ out' = out /\ step' = step + 1
         \/ out' = Tail(out) /\ step > 0 /\ step % 3 = 0
  BY <1>1, ProceedIs
<1>3. UNCHANGED <<type, calls, starts, driver>>
  BY DEF Proceed, driver
<1>4. Used' = Used /\ Sent' = Sent
  BY <1>3, SameSent
<1>5. BusType' \/ port' \notin Lines
  BY <1>2, <1>4 DEF BusType, Chips
<1>6. lcd_bus'.e \subseteq Used
  <2>1. lcd_bus'.e \in {{}, {Head(out').ctrl}} /\ (out' = <<>> => lcd_bus'.e = {})
    BY <1>2 DEF Mirror
  <2>2. out' # <<>> => Head(out').ctrl \in Used
    <3>1. out' # <<>> => Head(out') \in Sent
      BY <1>2, HeadTailProperties
    <3> QED
      BY <3>1 DEF Sent
  <2> QED
    BY <2>1, <2>2
<1>7. step % 3 \in {0, 1, 2}
  <2>1. step \in Nat
    BY <1>1 DEF BusType
  <2> QED
    BY <2>1
<1>8. step = 0 \/ step % 3 # 0 => out' = out /\ step' = step + 1
  BY <1>1, <1>2 DEF BusType
<1> QED
  BY <1>2, <1>3, <1>4, <1>5, <1>6, <1>7, <1>8

\* A write that arrives.
LEMMA WriteKeeps ==
    ASSUME TypeOK, BusInv, Write
    PROVE  [Next]_vars /\ BusInv'
<1> DEFINE lines == LinesAt(step)
<1>1. Proceed /\ Drive(lines) /\ UNCHANGED <<intact, losses>>
  BY DEF Write
<1>2. BusType /\ Mirror /\ Outputs /\ out # <<>> /\ lcd_bus' = lines
  BY <1>1 DEF BusInv, Proceed
<1>3. lines \in Lines /\ port \in Lines /\ Chips
  BY <1>2, LinesAre, BusChips DEF BusType
<1> HIDE DEF lines
<1>4. /\ Chips' /\ port' = lines
      /\ port.e \subseteq lines.e => UNCHANGED <<lcd, width, half>>
      /\ \A j \in {0, 1} \ port.e : /\ lcd'[j] = lcd[j]
                                    /\ width'[j] = width[j] /\ half'[j] = half[j]
  BY <1>1, <1>3, DriveIs
<1>5. /\ BusType' \/ port' \notin Lines
      /\ Mirror' /\ lcd_bus'.e \subseteq Used /\ Used' = Used
      /\ UNCHANGED <<type, calls, starts, driver>>
      /\ step = 0 \/ step % 3 # 0 => out' = out /\ step' = step + 1
      /\ out' = out \/ out' = Tail(out)
      /\ step % 3 \in {0, 1, 2}
  BY <1>1, <1>4, ProceedKeeps
<1>6. BusType' /\ Mirror' /\ Outputs'
  BY <1>2, <1>3, <1>4, <1>5 DEF Outputs
<1>7. lcd' \in [{0, 1} -> Controller]
  BY <1>4 DEF Chips
<1>8. CASE ~intact
  <2>1. Garble
    BY <1>1, <1>2, <1>5, <1>7, <1>8 DEF Garble, TypeOK
  <2> QED
    BY <1>1, <1>6, <1>8, <2>1 DEF BusInv, Next
<1>9. CASE intact /\ step > 0 /\ step % 3 = 0
  <2>1. (Noise \/ Deliver) /\ Halves' /\ Preluded'
    BY <1>9, ByteFalls, PreludeFalls
  <2> QED
    BY <1>6, <2>1 DEF BusInv, Next
<1>10. CASE intact /\ (step = 0 \/ step % 3 # 0) /\ port.e \subseteq lines.e
  <2>1. UNCHANGED <<lcd, width, half>> /\ out' = out /\ step' = step + 1
    BY <1>4, <1>5, <1>10
  <2>2. Halves' /\ Preluded'
    BY <1>2, <1>5, <1>10, <2>1, StillInStep DEF BusInv
  <2>3. UNCHANGED vars
    BY <1>1, <1>5, <2>1 DEF vars, driver
  <2> QED
    BY <1>6, <2>2, <2>3 DEF BusInv
<1>11. CASE intact /\ Fresh
  <2>1. out' = out /\ step' = 1 /\ step = 0
    BY <1>5, <1>11 DEF Fresh
  <2>2. \A j : Ready(j)' <=> Ready(j)
    BY <2>1 DEF Ready
  <2>3. \A j \in {0, 1} : Ready(j) => lcd'[j] = lcd[j]
    BY <1>2, <1>4, <1>11 DEF Fresh, Outputs
  <2>4. Noise
    BY <1>1, <1>5, <1>7, <2>1, <2>3 DEF Noise
  <2>5. Halves' /\ Preluded'
    BY <1>5, <1>11, <2>1, <2>2 DEF Fresh, Halves, Preluded
  <2> QED
    BY <1>6, <2>4, <2>5 DEF BusInv, Next
<1>12. ASSUME intact, ~(step > 0 /\ step % 3 = 0), ~Fresh PROVE port.e \subseteq lines.e
  <2>1. port = lcd_bus \/ (step % 3 = 2 /\ port = [lcd_bus EXCEPT !.e = {}])
    BY <1>2, <1>12 DEF Outputs
  <2>2. step \in Nat
    BY <1>2 DEF BusType
  <2>3. lcd_bus \in Lines /\ (step % 3 = 1 => lcd_bus.e = {})
    BY <1>2 DEF BusType, Mirror
  <2>4. port.e = lcd_bus.e \/ port.e = {}
    BY <2>1, <2>3 DEF Lines
  <2>5. CASE step = 0
    <3>1. lines = [lcd_bus EXCEPT !.rs = Head(out).rs]
      BY <1>2, <2>5, LinesAre DEF lines
    <3> QED
      BY <2>3, <2>4, <3>1 DEF Lines
  <2>6. CASE step % 3 = 1
    BY <2>3, <2>4, <2>6
  <2>7. CASE step % 3 = 2
    <3>1. lines = [lcd_bus EXCEPT !.data = Head(out).nibbles[(step + 1) \div 3]]
      BY <1>2, <2>7, LinesAre DEF lines
    <3> QED
      BY <2>3, <2>4, <3>1 DEF Lines
  <2> QED
    BY <1>5, <1>12, <2>2, <2>5, <2>6, <2>7
<1>13. step \in Nat
  BY <1>2 DEF BusType
<1> QED
  BY <1>5, <1>8, <1>9, <1>10, <1>11, <1>12, <1>13

\* A write that is lost: nothing is out of step after it when the next one
\* repeats its lines, or when it would have raised E, which the next one does.
LEMMA LoseKeeps ==
    ASSUME TypeOK, BusInv, LoseWrite
    PROVE  [Next]_vars /\ BusInv'
<1>1. /\ Proceed /\ intact' = (intact /\ Harmless(step))
      /\ UNCHANGED <<port, lcd, width, half>>
  BY DEF LoseWrite
<1>2. BusType /\ Mirror /\ Outputs /\ out # <<>> /\ lcd_bus' = LinesAt(step)
  BY <1>1 DEF BusInv, Proceed
<1>3. Chips' /\ port' \in Lines
  BY <1>1, <1>2, BusChips DEF Chips, BusType
<1>4. /\ BusType' \/ port' \notin Lines
      /\ Mirror' /\ lcd_bus'.e \subseteq Used /\ Used' = Used
      /\ UNCHANGED <<type, calls, starts, driver>>
      /\ step = 0 \/ step % 3 # 0 => out' = out /\ step' = step + 1
      /\ out' = out \/ out' = Tail(out)
      /\ step % 3 \in {0, 1, 2}
  BY <1>1, <1>3, ProceedKeeps
<1>5. step \in Nat /\ lcd_bus \in Lines
  BY <1>2 DEF BusType
<1>6. CASE ~(intact /\ Harmless(step))
  <2>1. Garble
    BY <1>1, <1>2, <1>4, <1>6 DEF Garble, TypeOK
  <2>2. Outputs'
    BY <1>1, <1>2, <1>4, <1>6 DEF Outputs
  <2> QED
    BY <1>1, <1>3, <1>4, <1>6, <2>1, <2>2 DEF BusInv, Next
<1>7. CASE intact /\ Harmless(step)
  <2>1. step = 0 \/ step % 3 # 0
    <3> SUFFICES ASSUME step > 0, step % 3 = 0 PROVE FALSE
      BY <1>5
    <3>1. LinesAt(step) = port
      BY <1>7 DEF Harmless
    <3>2. port = lcd_bus /\ lcd_bus.e = {Head(out).ctrl}
      BY <1>2, <1>7 DEF Outputs, Fresh, Mirror
    <3>3. LinesAt(step) = [lcd_bus EXCEPT !.e = {}]
      BY <1>2, LinesAre
    <3>4. port.e = {}
      BY <1>5, <3>1, <3>3 DEF Lines
    <3> QED
      BY <3>2, <3>4
  <2>2. out' = out /\ step' = step + 1
    BY <1>4, <2>1
  <2>3. Halves' /\ Preluded'
    BY <1>1, <1>2, <1>4, <1>7, <2>1, <2>2, StillInStep DEF BusInv
  <2>4. UNCHANGED vars
    <3>1. intact' = intact
      BY <1>1, <1>7 DEF TypeOK
    <3> QED
      BY <1>1, <1>4, <2>2, <3>1 DEF vars, driver
  <2>5. port' = lcd_bus' \/ (step' % 3 = 2 /\ port' = [lcd_bus' EXCEPT !.e = {}])
    <3>1. CASE LinesAt(step) = port
      BY <1>1, <1>2, <3>1
    <3>2. CASE step % 3 = 1
      <4>1. step' % 3 = 2 /\ step % 3 # 2 /\ step # 0
        BY <1>5, <2>2, <3>2
      <4>2. port = lcd_bus /\ lcd_bus.e = {}
        BY <1>2, <1>7, <3>2, <4>1 DEF Outputs, Fresh, Mirror
      <4>3. lcd_bus' = [lcd_bus EXCEPT !.e = {Head(out).ctrl}]
        BY <1>2, <3>2, LinesAre
      <4>4. [lcd_bus' EXCEPT !.e = {}] = lcd_bus
        BY <1>5, <4>2, <4>3 DEF Lines
      <4> QED
        BY <1>1, <4>1, <4>2, <4>4
    <3> QED
      BY <1>7, <3>1, <3>2 DEF Harmless
  <2>6. Outputs'
    BY <1>1, <1>2, <1>4, <2>5 DEF Outputs
  <2> QED
    BY <1>3, <1>4, <2>3, <2>4, <2>6 DEF BusInv
<1> QED
  BY <1>6, <1>7

LEMMA BusStep ==
    ASSUME TypeOK, BusInv, [BusNext]_<<vars, busVars>>
    PROVE  [Next]_vars /\ BusInv'
<1>1. ASSUME UNCHANGED <<vars, busVars>> PROVE [Next]_vars /\ BusInv'
  <2>1. UNCHANGED <<type, out, lcd, intact, lcd_bus, port, step, width, half>> /\ vars' = vars
    BY <1>1 DEF vars, busVars
  <2>2. Used' = Used /\ Sent' = Sent
    BY <2>1, SameSent
  <2>3. BusType' /\ Mirror' /\ Outputs'
    BY <2>1, <2>2 DEF BusInv, BusType, Mirror, Outputs, Fresh, Ready
  <2>4. (Halves <=> Halves') /\ (Preluded <=> Preluded')
    BY <2>1, <2>2 DEF Halves, Preluded, Ready
  <2> QED
    BY <2>1, <2>3, <2>4 DEF BusInv
<1>2. BusCall \/ (\E on \in BOOLEAN : SwitchLight(on)) \/ Restart => Next /\ BusInv'
  BY CallKeeps, LightKeeps, RestartKeeps
<1> QED
  BY <1>1, <1>2, WriteKeeps, LoseKeeps DEF BusNext

LEMMA BusHolds == BusSpec => [](TypeOK /\ BusInv)
<1>1. BusInit => TypeOK /\ BusInv
  BY BusInitIs, InitTypeOK
<1>2. TypeOK /\ BusInv /\ [BusNext]_<<vars, busVars>> => (TypeOK /\ BusInv)'
  BY BusStep, NextTypeOK
<1> QED
  BY <1>1, <1>2, PTL DEF BusSpec

\* InStep, for every kind of panel and any number of calls, losses and starts,
\* wherever they fall.
THEOREM StaysInStep == BusSpec => []InStep
<1>1. BusInv => InStep
  BY DEF BusInv, Halves, InStep
<1> QED
  BY <1>1, BusHolds, PTL

\* ImplementsBytes: the clocked nibbles are the bytes of TextLCD, each delivered
\* once, in order and to its controller.
THEOREM BytesArrive == BusSpec => ImplementsBytes
<1>1. BusInit => Init
  BY BusInitIs
<1>2. TypeOK /\ BusInv /\ [BusNext]_<<vars, busVars>> => [Next]_vars
  BY BusStep
<1> QED
  BY <1>1, <1>2, BusHolds, PTL DEF BusSpec, ImplementsBytes, Spec

-----------------------------------------------------------------------------
(* Induction: the library states it for the least elements of sets, too *)

LEMMA NatLess == \E R : IsWellFoundedOn(R, Nat) /\ \A i, j \in Nat : i < j => <<i, j>> \in R
<1>1. IsWellFoundedOn(OpToRel(<, Nat), Nat)
  BY NatLessThanWellFounded
<1>2. \A i, j \in Nat : i < j => <<i, j>> \in OpToRel(<, Nat)
  BY DEF OpToRel
<1> QED
  BY <1>1, <1>2

LEMMA Induction ==
    ASSUME NEW S, 0 \in S, \A n \in Nat : n \in S => n + 1 \in S
    PROVE  \A n \in Nat : n \in S
<1> SUFFICES ASSUME ~ \A n \in Nat : n \in S PROVE FALSE
  OBVIOUS
<1> DEFINE T == {n \in Nat : n \notin S}
<1>1. T \subseteq Nat /\ T # {}
  OBVIOUS
<1>2. PICK R : IsWellFoundedOn(R, Nat) /\ \A i, j \in Nat : i < j => <<i, j>> \in R
  BY NatLess
<1> HIDE DEF T
<1>3. PICK n \in T : \A m \in T : ~ (<<m, n>> \in R)
  BY <1>1, <1>2, WFMin
<1>4. n \in Nat /\ n \notin S /\ n # 0
  BY <1>3 DEF T
<1>5. n - 1 \in Nat /\ n - 1 < n /\ n - 1 + 1 = n
  BY <1>4
<1>6. n - 1 \notin T
  BY <1>2, <1>3, <1>4, <1>5
<1>7. n - 1 \in S
  BY <1>5, <1>6 DEF T
<1> QED
  BY <1>4, <1>5, <1>7

-----------------------------------------------------------------------------
(* What bytes make of the controllers *)

\* The controllers after the first n of the bytes s.
Stages(l, s, n) ==
    CHOOSE f : f = [i \in 0 .. n |-> IF i = 0 THEN l ELSE After(f[i - 1], s[i])]

Run(l, s) == Stages(l, s, Len(s))[Len(s)]

LEMMA FinalIs == Final = Run(lcd, out)
BY DEF Final, Run, Stages

LEMMA StagesAre ==
    ASSUME NEW l, NEW s, NEW n \in Nat
    PROVE  /\ DOMAIN Stages(l, s, n) = 0 .. n /\ Stages(l, s, n)[0] = l
           /\ \A i \in 1 .. n : Stages(l, s, n)[i] = After(Stages(l, s, n)[i - 1], s[i])
<1> DEFINE S == {m \in Nat : \E f : f = [i \in 0 .. m |-> IF i = 0 THEN l ELSE After(f[i - 1], s[i])]}
<1>1. 0 \in S
  <2> DEFINE f == [i \in 0 .. 0 |-> l]
  <2>1. f = [i \in 0 .. 0 |-> IF i = 0 THEN l ELSE After(f[i - 1], s[i])]
    OBVIOUS
  <2> HIDE DEF f
  <2> QED
    BY <2>1
<1>2. ASSUME NEW m \in Nat, m \in S
      PROVE  m + 1 \in S
  <2>1. PICK f : f = [i \in 0 .. m |-> IF i = 0 THEN l ELSE After(f[i - 1], s[i])]
    BY <1>2
  <2>2. f[0] = l /\ \A i \in 1 .. m : f[i] = After(f[i - 1], s[i])
    <3>1. 0 \in 0 .. m /\ \A i \in 1 .. m : i \in 0 .. m /\ i # 0
      OBVIOUS
    <3> QED
      BY <2>1, <3>1
  <2> DEFINE g == [i \in 0 .. m + 1 |-> IF i <= m THEN f[i] ELSE After(f[m], s[m + 1])]
             h == [i \in 0 .. m + 1 |-> IF i = 0 THEN l ELSE After(g[i - 1], s[i])]
  <2>3. \A i \in 0 .. m + 1 : g[i] = h[i]
    <3> TAKE i \in 0 .. m + 1
    <3>1. CASE i = 0
      BY <2>2, <3>1
    <3>2. CASE i \in 1 .. m
      <4>1. i <= m /\ i - 1 <= m /\ i - 1 \in 0 .. m + 1 /\ i # 0
        BY <3>2
      <4>2. g[i] = f[i] /\ g[i - 1] = f[i - 1]
        BY <4>1
      <4> QED
        BY <2>2, <3>2, <4>1, <4>2
    <3>3. CASE i = m + 1
      <4>1. ~(i <= m) /\ i - 1 = m /\ m <= m /\ m \in 0 .. m + 1 /\ i # 0
        BY <3>3
      <4>2. g[i] = After(f[m], s[m + 1]) /\ g[m] = f[m]
        BY <4>1
      <4> QED
        BY <3>3, <4>1, <4>2
    <3> QED
      BY <3>1, <3>2, <3>3
  <2>4. g = h
    BY <2>3
  <2>5. \E x : x = [i \in 0 .. m + 1 |-> IF i = 0 THEN l ELSE After(x[i - 1], s[i])]
    <3> HIDE DEF g
    <3> QED
      BY <2>4
  <2> HIDE DEF g, h
  <2> QED
    BY <2>5
<1>3. n \in S
  <2> HIDE DEF S
  <2> QED
    BY <1>1, <1>2, Induction
<1> DEFINE f == Stages(l, s, n)
<1>4. f = [i \in 0 .. n |-> IF i = 0 THEN l ELSE After(f[i - 1], s[i])]
  BY <1>3 DEF Stages
<1> HIDE DEF f
<1>5. 0 \in 0 .. n /\ \A i \in 1 .. n : i \in 0 .. n /\ i # 0
  OBVIOUS
<1>6. DOMAIN f = 0 .. n /\ f[0] = l /\ \A i \in 1 .. n : f[i] = After(f[i - 1], s[i])
  BY <1>4, <1>5
<1> QED
  BY <1>6 DEF f

\* One after the other is both in a row.
LEMMA RunConcat ==
    ASSUME NEW l, NEW s \in Seq(Element), NEW t \in Seq(Element)
    PROVE  Run(l, s \o t) = Run(Run(l, s), t)
<1> DEFINE m == Len(s)
           n == Len(t)
           u == s \o t
           a == Stages(l, s, m)
           b == Stages(a[m], t, n)
           c == Stages(l, u, m + n)
<1>1. m \in Nat /\ n \in Nat /\ m + n \in Nat /\ Len(u) = m + n
  OBVIOUS
<1>2. /\ \A i \in 1 .. m : u[i] = s[i]
      /\ \A i \in 1 .. n : u[m + i] = t[i]
  <2>1. \A i \in 1 .. m + n : u[i] = IF i <= m THEN s[i] ELSE t[i - m]
    BY ConcatProperties
  <2> HIDE DEF m, n, u
  <2>2. \A i \in 1 .. m : i \in 1 .. m + n /\ i <= m
    BY <1>1
  <2>3. \A i \in 1 .. n : m + i \in 1 .. m + n /\ ~(m + i <= m) /\ (m + i) - m = i
    BY <1>1
  <2> QED
    BY <2>1, <2>2, <2>3
<1> HIDE DEF m, n, u
<1>3. /\ a[0] = l /\ \A i \in 1 .. m : a[i] = After(a[i - 1], s[i])
      /\ c[0] = l /\ \A i \in 1 .. m + n : c[i] = After(c[i - 1], u[i])
  <2>1. a[0] = l /\ \A i \in 1 .. m : a[i] = After(a[i - 1], s[i])
    BY <1>1, StagesAre
  <2> HIDE DEF a
  <2>2. c[0] = l /\ \A i \in 1 .. m + n : c[i] = After(c[i - 1], u[i])
    BY <1>1, StagesAre
  <2> QED
    BY <2>1, <2>2
<1>4. b[0] = a[m] /\ \A i \in 1 .. n : b[i] = After(b[i - 1], t[i])
  BY <1>1, StagesAre
<1> HIDE DEF a, b, c
<1>5. \A i \in Nat : i <= m => c[i] = a[i]
  <2> DEFINE S == {i \in Nat : i <= m => c[i] = a[i]}
  <2>1. 0 \in S
    BY <1>3
  <2>2. ASSUME NEW i \in Nat, i \in S PROVE i + 1 \in S
    <3>1. ASSUME i + 1 <= m PROVE c[i + 1] = a[i + 1]
      <4>1. i + 1 \in 1 .. m /\ i + 1 \in 1 .. m + n /\ i + 1 - 1 = i /\ i <= m
        BY <1>1, <3>1
      <4>2. c[i] = a[i]
        BY <2>2, <4>1
      <4>3. c[i + 1] = After(c[i], u[i + 1]) /\ a[i + 1] = After(a[i], s[i + 1])
        BY <1>3, <4>1
      <4> QED
        BY <1>2, <4>1, <4>2, <4>3
    <3> QED
      BY <3>1
  <2> HIDE DEF S
  <2>3. \A i \in Nat : i \in S
    BY <2>1, <2>2, Induction
  <2> QED
    BY <2>3 DEF S
<1>6. \A i \in Nat : i <= n => c[m + i] = b[i]
  <2> DEFINE S == {i \in Nat : i <= n => c[m + i] = b[i]}
  <2>1. 0 \in S
    BY <1>1, <1>4, <1>5
  <2>2. ASSUME NEW i \in Nat, i \in S PROVE i + 1 \in S
    <3> DEFINE j == m + (i + 1)
    <3>1. ASSUME i + 1 <= n PROVE c[j] = b[i + 1]
      <4>1. i + 1 \in 1 .. n /\ i + 1 - 1 = i /\ i <= n
        BY <1>1, <3>1
      <4>2. c[m + i] = b[i] /\ u[j] = t[i + 1]
        BY <1>2, <2>2, <4>1
      <4>3. j \in 1 .. m + n /\ j - 1 = m + i
        BY <1>1, <3>1
      <4> HIDE DEF j
      <4>4. c[j] = After(c[j - 1], u[j])
        BY <1>3, <4>3
      <4>5. b[i + 1] = After(b[i], t[i + 1])
        BY <1>4, <4>1
      <4> QED
        BY <4>2, <4>3, <4>4, <4>5
    <3> QED
      BY <3>1
  <2> HIDE DEF S
  <2>3. \A i \in Nat : i \in S
    BY <2>1, <2>2, Induction
  <2> QED
    BY <2>3 DEF S
<1>7. c[m + n] = b[n]
  BY <1>1, <1>6
<1>8. Run(l, u) = c[m + n]
  BY <1>1 DEF Run, c
<1>9. Run(l, s) = a[m] /\ Run(a[m], t) = b[n]
  BY DEF Run, a, b, m, n
<1> QED
  BY <1>7, <1>8, <1>9 DEF u

LEMMA RunNil ==
    ASSUME NEW l
    PROVE  Run(l, <<>>) = l
<1>1. Len(<<>>) = 0
  OBVIOUS
<1>2. Stages(l, <<>>, 0)[0] = l
  BY StagesAre
<1> QED
  BY <1>1, <1>2 DEF Run

LEMMA RunOne ==
    ASSUME NEW l, NEW e
    PROVE  Run(l, <<e>>) = After(l, e)
<1>1. Len(<<e>>) = 1 /\ <<e>>[1] = e /\ 1 \in 1 .. 1 /\ 1 - 1 = 0
  OBVIOUS
<1>2. Stages(l, <<e>>, 1)[1] = After(l, e)
  BY <1>1, StagesAre
<1> QED
  BY <1>1, <1>2 DEF Run

\* The first byte, and then the others.
LEMMA HeadThenTail ==
    ASSUME NEW s \in Seq(Element), s # <<>>
    PROVE  s = <<Head(s)>> \o Tail(s) /\ <<Head(s)>> \in Seq(Element) /\ Tail(s) \in Seq(Element)
<1> DEFINE h == <<Head(s)>>
           t == Tail(s)
           u == h \o t
<1>1. t \in Seq(Element) /\ Len(t) = Len(s) - 1 /\ Head(s) \in Element
      /\ \A i \in 1 .. Len(t) : t[i] = s[i + 1]
  BY HeadTailProperties
<1>2. h \in Seq(Element) /\ Len(h) = 1 /\ h[1] = s[1] /\ Len(s) \in Nat
  BY <1>1
<1> HIDE DEF h, t
<1>3. u \in Seq(Element) /\ Len(u) = Len(s)
      /\ \A i \in 1 .. Len(s) : u[i] = IF i <= 1 THEN h[i] ELSE t[i - 1]
  <2>1. /\ u \in Seq(Element) /\ Len(u) = Len(h) + Len(t)
        /\ \A i \in 1 .. Len(h) + Len(t) : u[i] = IF i <= Len(h) THEN h[i] ELSE t[i - Len(h)]
    <3>1. h \in Seq(Element) /\ t \in Seq(Element)
      BY <1>1, <1>2
    <3> QED
      BY <3>1, ConcatProperties
  <2>2. Len(h) + Len(t) = Len(s)
    BY <1>1, <1>2
  <2> HIDE DEF u
  <2> QED
    BY <1>2, <2>1, <2>2
<1> HIDE DEF u
<1>4. \A i \in 1 .. Len(s) : u[i] = s[i]
  <2> TAKE i \in 1 .. Len(s)
  <2>1. CASE i = 1
    BY <1>2, <1>3, <2>1
  <2>2. CASE i # 1
    <3>1. i - 1 \in 1 .. Len(t) /\ ~(i <= 1) /\ (i - 1) + 1 = i
      BY <1>1, <1>2, <2>2
    <3> QED
      BY <1>1, <1>3, <3>1
  <2> QED
    BY <2>1, <2>2
<1>5. u = s
  BY <1>3, <1>4, SeqEqual
<1> QED
  BY <1>1, <1>2, <1>5 DEF h, t, u

LEMMA RunHead ==
    ASSUME NEW l, NEW s \in Seq(Element), s # <<>>
    PROVE  Run(l, s) = Run(After(l, Head(s)), Tail(s))
<1>1. s = <<Head(s)>> \o Tail(s) /\ <<Head(s)>> \in Seq(Element) /\ Tail(s) \in Seq(Element)
  BY HeadThenTail
<1>2. Run(l, <<Head(s)>> \o Tail(s)) = Run(Run(l, <<Head(s)>>), Tail(s))
  BY <1>1, RunConcat
<1>3. Run(l, <<Head(s)>>) = After(l, Head(s))
  BY RunOne
<1> QED
  BY <1>1, <1>2, <1>3

\* What each byte keeps, all of them keep.
LEMMA RunStays ==
    ASSUME NEW Q, NEW l \in Q, NEW s \in Seq(Element),
           \A q \in Q : \A i \in 1 .. Len(s) : After(q, s[i]) \in Q
    PROVE  Run(l, s) \in Q
<1> DEFINE n == Len(s)
           a == Stages(l, s, n)
<1>1. n \in Nat
  OBVIOUS
<1> HIDE DEF n
<1>2. a[0] = l /\ \A i \in 1 .. n : a[i] = After(a[i - 1], s[i])
  BY <1>1, StagesAre
<1> HIDE DEF a
<1> DEFINE S == {i \in Nat : i <= n => a[i] \in Q}
<1>3. 0 \in S
  BY <1>2
<1>4. ASSUME NEW i \in Nat, i \in S PROVE i + 1 \in S
  <2>1. ASSUME i + 1 <= n PROVE a[i + 1] \in Q
    <3>1. i + 1 \in 1 .. n /\ i + 1 - 1 = i /\ i <= n
      BY <1>1, <2>1
    <3>2. a[i] \in Q
      BY <1>4, <3>1
    <3>3. a[i + 1] = After(a[i], s[i + 1])
      BY <1>2, <3>1
    <3> QED
      BY <3>1, <3>2, <3>3 DEF n
  <2> QED
    BY <2>1
<1> HIDE DEF S
<1>5. n \in S
  BY <1>1, <1>3, <1>4, Induction
<1> QED
  BY <1>1, <1>5 DEF S, Run, a, n

Both == [{0, 1} -> Controller]

\* A controller at address a of its text memory.
At(l, a) == l.address = a /\ ~l.cg

Here == Address(type, column, row)

LEMMA AfterIs ==
    ASSUME NEW l, l \in Both, NEW e, e \in Element
    PROVE  /\ After(l, e) \in Both
           /\ \A j \in {0, 1} : j # e.ctrl => After(l, e)[j] = l[j]
           /\ IsByte(e) => After(l, e)[e.ctrl] = Execute(l[e.ctrl], e.rs, ByteOf(e))
           /\ ~IsByte(e) => After(l, e) = l
<1>1. e.ctrl \in {0, 1} /\ e.rs \in BOOLEAN /\ e.nibbles \in Seq(0 .. 15)
  BY DEF Element
<1>2. CASE IsByte(e)
  <2>1. ByteOf(e) \in 0 .. 255
    <3>1. e.nibbles[1] \in 0 .. 15 /\ e.nibbles[2] \in 0 .. 15
      BY <1>1, <1>2 DEF IsByte
    <3> QED
      BY <3>1 DEF ByteOf
  <2> DEFINE c == Execute(l[e.ctrl], e.rs, ByteOf(e))
  <2>2. l[e.ctrl] \in Controller
    BY <1>1 DEF Both
  <2>3. c \in Controller
    BY <1>1, <2>1, <2>2, ExecuteIs
  <2>4. After(l, e) = [l EXCEPT ![e.ctrl] = c]
    BY <1>2 DEF After
  <2> HIDE DEF c
  <2>5. /\ [l EXCEPT ![e.ctrl] = c] \in Both
        /\ [l EXCEPT ![e.ctrl] = c][e.ctrl] = c
        /\ \A j \in {0, 1} : j # e.ctrl => [l EXCEPT ![e.ctrl] = c][j] = l[j]
    BY <1>1, <2>3 DEF Both
  <2> QED
    BY <1>2, <2>4, <2>5 DEF c
<1>3. CASE ~IsByte(e)
  BY <1>3 DEF After
<1> QED
  BY <1>2, <1>3

LEMMA RunTyped ==
    ASSUME NEW l, l \in Both, NEW s \in Seq(Element)
    PROVE  Run(l, s) \in Both
<1>1. \A i \in 1 .. Len(s) : s[i] \in Element
  OBVIOUS
<1> QED
  BY <1>1, AfterIs, RunStays

\* What each kind of byte does to its controller.
Switched(c, g, d) ==
    /\ g.display = d /\ g.text = c.text /\ g.lines = c.lines
    /\ g.address = c.address /\ g.cg = c.cg

Moved(c, g, a) ==
    At(g, a) /\ g.text = c.text /\ g.lines = c.lines /\ g.display = c.display

Patterned(c, g) ==
    g.cg = TRUE /\ g.text = c.text /\ g.lines = c.lines /\ g.display = c.display

Cleared(c, g) ==
    At(g, 0) /\ g.text = {} /\ g.lines = c.lines /\ g.display = c.display

\* In the memory of the patterns a byte of data changes nothing that is seen.
Written(c, g, b) ==
    /\ g.cg = c.cg /\ g.lines = c.lines /\ g.display = c.display
    /\ g.text = IF c.cg THEN c.text
                ELSE {p \in c.text : p[1] # c.address}
                       \cup (IF c.address \in Memory(c) THEN {<<c.address, b>>} ELSE {})

LEMMA DisplayDoes ==
    ASSUME NEW c \in Controller, NEW b \in 8 .. 15
    PROVE  Switched(c, Execute(c, FALSE, b), b - 8)
<1>1. Execute(c, FALSE, b) = [c EXCEPT !.display = b - 8]
  BY DEF Execute
<1> QED
  BY <1>1 DEF Controller, Switched

LEMMA AddressDoes ==
    ASSUME NEW c \in Controller, NEW b \in 128 .. 255
    PROVE  Moved(c, Execute(c, FALSE, b), b - 128)
<1> DEFINE a == b - 128
           g == Execute(c, FALSE, b)
<1>1. b >= 128
  OBVIOUS
<1>2. g = [c EXCEPT !.address = a, !.cg = FALSE]
  BY <1>1 DEF Execute
<1> HIDE DEF a, g
<1>3. g.address = a /\ g.cg = FALSE /\ g.text = c.text /\ g.lines = c.lines
      /\ g.display = c.display
  BY <1>2, Zenon DEF Controller
<1>4. Moved(c, g, a)
  BY <1>3, Zenon DEF At, Moved
<1> QED
  BY <1>4 DEF a, g

LEMMA PatternDoes ==
    ASSUME NEW c \in Controller, NEW b \in 64 .. 127
    PROVE  Patterned(c, Execute(c, FALSE, b))
<1> DEFINE a == b - 64
<1>1. Execute(c, FALSE, b) = [c EXCEPT !.address = a, !.cg = TRUE]
  BY DEF Execute
<1> HIDE DEF a
<1> QED
  BY <1>1, Zenon DEF Controller, Patterned

LEMMA ClearDoes ==
    ASSUME NEW c \in Controller
    PROVE  Cleared(c, Execute(c, FALSE, 1))
<1>1. Execute(c, FALSE, 1) = [c EXCEPT !.address = 0, !.cg = FALSE, !.text = {}]
  BY DEF Execute
<1> QED
  BY <1>1, Zenon DEF Controller, At, Cleared

LEMMA DataDoes ==
    ASSUME NEW c \in Controller, NEW b, b \in 0 .. 255
    PROVE  Written(c, Execute(c, TRUE, b), b)
<1> DEFINE d == Store(c, b)
           t == {p \in c.text : p[1] # c.address}
                  \cup (IF c.address \in Memory(c) THEN {<<c.address, b>>} ELSE {})
<1>1. Execute(c, TRUE, b) = [d EXCEPT !.address = (d.address + 1) % 128]
  BY DEF Execute
<1>2. d = IF c.cg THEN c ELSE [c EXCEPT !.text = t]
  BY DEF Store
<1>3. Written(c, Execute(c, TRUE, b), b) <=>
        /\ Execute(c, TRUE, b).cg = c.cg /\ Execute(c, TRUE, b).lines = c.lines
        /\ Execute(c, TRUE, b).display = c.display
        /\ Execute(c, TRUE, b).text = IF c.cg THEN c.text ELSE t
  BY DEF Written
<1> HIDE DEF d, t
<1>4. /\ d.cg = c.cg /\ d.lines = c.lines /\ d.display = c.display
      /\ d.text = IF c.cg THEN c.text ELSE t
      /\ d \in [address : 0 .. 127, cg : BOOLEAN, display : 0 .. 7, lines : {1, 2}, text : {c.text, t}]
  <2>1. CASE c.cg
    <3>1. d = c
      BY <1>2, <2>1
    <3> QED
      BY <2>1, <3>1, Zenon DEF Controller
  <2>2. CASE ~c.cg
    <3>1. d = [c EXCEPT !.text = t]
      BY <1>2, <2>2
    <3>2. /\ [c EXCEPT !.text = t].cg = c.cg /\ [c EXCEPT !.text = t].lines = c.lines
          /\ [c EXCEPT !.text = t].display = c.display /\ [c EXCEPT !.text = t].text = t
      BY DEF Controller
    <3>3. [c EXCEPT !.text = t] \in
             [address : 0 .. 127, cg : BOOLEAN, display : 0 .. 7, lines : {1, 2}, text : {c.text, t}]
      BY DEF Controller
    <3> QED
      BY <2>2, <3>1, <3>2, <3>3
  <2> QED
    BY <2>1, <2>2
<1> DEFINE a == (d.address + 1) % 128
<1>5. Execute(c, TRUE, b) = [d EXCEPT !.address = a]
  BY <1>1
<1> HIDE DEF a
<1>6. /\ [d EXCEPT !.address = a].cg = d.cg
      /\ [d EXCEPT !.address = a].lines = d.lines
      /\ [d EXCEPT !.address = a].display = d.display
      /\ [d EXCEPT !.address = a].text = d.text
  BY <1>4, Zenon
<1> QED
  BY <1>3, <1>4, <1>5, <1>6

LEMMA CommandRuns ==
    ASSUME NEW l \in Both, NEW k \in {0, 1}, NEW b \in 0 .. 255
    PROVE  /\ After(l, WriteCommand(k, b)) \in Both
           /\ After(l, WriteCommand(k, b))[k] = Execute(l[k], FALSE, b)
           /\ \A j \in {0, 1} : j # k => After(l, WriteCommand(k, b))[j] = l[j]
<1> DEFINE e == WriteCommand(k, b)
<1>1. e \in Element /\ IsByte(e)
  BY CommandIs
<1>2. ByteOf(e) = b
  BY CommandIs
<1>3. e.ctrl = k /\ e.rs = FALSE
  BY DEF WriteCommand, Nibbles
<1> HIDE DEF e
<1>4. /\ After(l, e) \in Both /\ \A j \in {0, 1} : j # e.ctrl => After(l, e)[j] = l[j]
      /\ After(l, e)[e.ctrl] = Execute(l[e.ctrl], e.rs, ByteOf(e))
  BY <1>1, AfterIs
<1> QED
  BY <1>2, <1>3, <1>4, Zenon DEF e

LEMMA DataRuns ==
    ASSUME NEW l \in Both, NEW k \in {0, 1}, NEW b \in 0 .. 255
    PROVE  /\ After(l, WriteData(k, b)) \in Both
           /\ After(l, WriteData(k, b))[k] = Execute(l[k], TRUE, b)
           /\ \A j \in {0, 1} : j # k => After(l, WriteData(k, b))[j] = l[j]
<1> DEFINE e == WriteData(k, b)
<1>1. e \in Element /\ IsByte(e)
  BY CommandIs
<1>2. ByteOf(e) = b
  <2>1. ByteOf(WriteData(k, b)) = ByteOf(WriteCommand(k, b))
    BY DEF WriteData, WriteCommand, ByteOf, Nibbles
  <2> QED
    BY <2>1, CommandIs
<1>3. e.ctrl = k /\ e.rs = TRUE
  BY DEF WriteData, Nibbles
<1> HIDE DEF e
<1>4. /\ After(l, e) \in Both /\ \A j \in {0, 1} : j # e.ctrl => After(l, e)[j] = l[j]
      /\ After(l, e)[e.ctrl] = Execute(l[e.ctrl], e.rs, ByteOf(e))
  BY <1>1, AfterIs
<1> QED
  BY <1>2, <1>3, <1>4, Zenon DEF e

\* What everything but a character, a clear and a function set leaves alone.
Alike(l, g) == \A j \in {0, 1} : g[j].text = l[j].text /\ g[j].lines = l[j].lines

\* The display is on or off, and the cursor is shown by controller k alone.
Shows(l, k, mode, cursor) ==
    \A j \in Used : l[j].display = IF j = k THEN mode + cursor ELSE mode

LEMMA DisplaySets ==
    ASSUME NEW l \in Both, NEW k \in {0, 1}, NEW mode \in {0, 4}, NEW cursor \in 0 .. 3
    PROVE  LET g == After(l, Display(k, mode, cursor))
           IN  /\ g \in Both /\ Alike(l, g)
               /\ g[k].display = mode + cursor /\ g[k].address = l[k].address
               /\ g[k].cg = l[k].cg
               /\ \A j \in {0, 1} : j # k => g[j] = l[j]
<1> DEFINE b == 8 + mode + cursor
           g == After(l, WriteCommand(k, b))
           c == l[k]
<1>1. b \in 8 .. 15 /\ b \in 0 .. 255 /\ b - 8 = mode + cursor
  OBVIOUS
<1>2. Display(k, mode, cursor) = WriteCommand(k, b)
  BY DEF Display
<1> HIDE DEF b
<1>3. /\ g \in Both /\ g[k] = Execute(c, FALSE, b)
      /\ \A j \in {0, 1} : j # k => g[j] = l[j]
  BY <1>1, CommandRuns, Zenon
<1>4. c \in Controller
  BY DEF Both
<1> HIDE DEF g, c
<1>5. Switched(c, g[k], b - 8)
  <2>1. Switched(c, Execute(c, FALSE, b), b - 8)
    BY <1>1, <1>4, DisplayDoes
  <2> QED
    BY <1>3, <2>1
<1>6. Alike(l, g)
  BY <1>3, <1>5 DEF Alike, c, Switched
<1>7. g[k].display = mode + cursor
  BY <1>1, <1>5 DEF Switched
<1> QED
  BY <1>2, <1>3, <1>5, <1>6, <1>7 DEF g, c, Switched

\* Two bytes in a row, and one before others.
LEMMA RunTwo ==
    ASSUME NEW l, NEW e \in Element, NEW f \in Element
    PROVE  Run(l, <<e, f>>) = After(After(l, e), f)
<1>1. <<e>> \in Seq(Element) /\ <<f>> \in Seq(Element) /\ <<e, f>> \in Seq(Element)
  OBVIOUS
<1>2. <<e, f>> = <<e>> \o <<f>>
  <2> DEFINE u == <<e>> \o <<f>>
  <2>1. u \in Seq(Element) /\ Len(u) = 2 /\ u[1] = e /\ u[2] = f
    OBVIOUS
  <2> HIDE DEF u
  <2>2. u = <<u[1], u[2]>>
    BY <2>1
  <2> QED
    BY <2>1, <2>2 DEF u
<1>3. Run(l, <<e>> \o <<f>>) = Run(Run(l, <<e>>), <<f>>)
  BY <1>1, RunConcat
<1>4. Run(l, <<e>>) = After(l, e) /\ Run(After(l, e), <<f>>) = After(After(l, e), f)
  BY RunOne
<1> QED
  BY <1>2, <1>3, <1>4

\* Going to a cell from controller k: the address is set, the text is what it
\* was, and the cursor is shown by the controller of the cell if it was shown by
\* that or by k before.
LEMMA GotoDoes ==
    ASSUME TypeOK, NEW l \in Both, NEW k \in Used,
           NEW x \in 0 .. Columns(type) - 1, NEW y \in 0 .. Rows(type) - 1
    PROVE  LET g == Run(l, Goto(k, x, y))
           IN  /\ g \in Both /\ Alike(l, g)
               /\ At(g[CtrlOf(type, y)], Address(type, x, y))
               /\ \/ Shows(l, k, currentMode, currentCursor)
                  \/ Shows(l, CtrlOf(type, y), currentMode, currentCursor)
                  => Shows(g, CtrlOf(type, y), currentMode, currentCursor)
<1> DEFINE d == CtrlOf(type, y)
           a == Address(type, x, y)
           b == 128 + a
           w == WriteCommand(d, b)
           h == Run(l, Switch(k, y))
           g == After(h, w)
<1>1. d \in Used /\ d \in {0, 1} /\ k \in {0, 1}
  BY UsedIs
<1>2. a \in 0 .. 127
  <2>1. type \in AllTypes
    BY LcdConstants DEF TypeOK
  <2> QED
    BY <2>1, AddressRange
<1>3. currentMode \in {0, 4} /\ currentCursor \in 0 .. 3
  BY DEF TypeOK
<1>4. Switch(k, y) \in Seq(Element)
  BY SwitchIs, SentIs
<1>s. /\ h \in Both /\ Alike(l, h)
      /\ \/ Shows(l, k, currentMode, currentCursor)
         \/ Shows(l, d, currentMode, currentCursor)
         => Shows(h, d, currentMode, currentCursor)
  <2>1. CASE k = d
    <3>1. h = l
      BY <2>1, RunNil DEF Switch
    <3> HIDE DEF h
    <3> QED
      BY <2>1, <3>1 DEF Alike
  <2>2. CASE k # d
    <3> DEFINE p == After(l, Display(k, currentMode, 0))
               q == After(p, Display(d, currentMode, currentCursor))
    <3>1. h = q
      <4>1. Display(k, currentMode, 0) \in Sent /\ Display(d, currentMode, currentCursor) \in Sent
        BY <1>1, <1>3, DisplayIs
      <4>2. Switch(k, y) = <<Display(k, currentMode, 0), Display(d, currentMode, currentCursor)>>
        BY <2>2 DEF Switch
      <4> QED
        BY <4>1, <4>2, SentIs, RunTwo
    <3>2. /\ p \in Both /\ Alike(l, p) /\ p[k].display = currentMode + 0
          /\ \A j \in {0, 1} : j # k => p[j] = l[j]
      <4>1. 0 \in 0 .. 3
        OBVIOUS
      <4> QED
        BY <1>1, <1>3, <4>1, DisplaySets
    <3> HIDE DEF p
    <3>3. /\ q \in Both /\ Alike(p, q) /\ q[d].display = currentMode + currentCursor
          /\ \A j \in {0, 1} : j # d => q[j] = p[j]
      BY <1>1, <1>3, <3>2, DisplaySets
    <3> HIDE DEF q, h
    <3>4. Alike(l, q)
      BY <3>2, <3>3 DEF Alike
    <3>5. currentMode + 0 = currentMode
      BY <1>3
    <3>6. Shows(q, d, currentMode, currentCursor)
      <4>1. \A j \in Used : j = d \/ j = k
        BY <1>1, <2>2, UsedIs
      <4>2. q[k].display = currentMode
        BY <1>1, <2>2, <3>2, <3>3, <3>5
      <4> QED
        BY <2>2, <3>3, <4>1, <4>2 DEF Shows
    <3> QED
      BY <3>1, <3>3, <3>4, <3>6
  <2> QED
    BY <2>1, <2>2
<1>5. b \in 128 .. 255 /\ b \in 0 .. 255 /\ b - 128 = a
  <2> HIDE DEF a
  <2> QED
    BY <1>2
<1>w. w = WriteCommand(CtrlOf(type, y), 128 + Address(type, x, y))
  OBVIOUS
<1> HIDE DEF b
<1>e. w \in Element /\ <<w>> \in Seq(Element)
  <2>1. w \in Element
    BY <1>1, <1>5, CommandIs
  <2> HIDE DEF w
  <2> QED
    BY <2>1
<1>6. Run(l, Goto(k, x, y)) = g
  <2>1. Goto(k, x, y) = Switch(k, y) \o <<w>>
    BY <1>w DEF Goto
  <2> HIDE DEF w
  <2>2. Run(l, Switch(k, y) \o <<w>>) = Run(Run(l, Switch(k, y)), <<w>>)
    BY <1>4, <1>e, RunConcat
  <2> QED
    BY <2>1, <2>2, RunOne
<1> HIDE DEF h, d, a
<1> DEFINE c == h[d]
<1>7. /\ g \in Both /\ g[d] = Execute(c, FALSE, b)
      /\ \A j \in {0, 1} : j # d => g[j] = h[j]
  <2>1. d \in {0, 1} /\ h \in Both /\ b \in 0 .. 255
    BY <1>1, <1>s, <1>5
  <2> QED
    BY <2>1, CommandRuns, Zenon
<1>8. c \in Controller
  BY <1>1, <1>s DEF Both
<1> HIDE DEF g, c
<1>9. Moved(c, g[d], b - 128)
  <2>1. Moved(c, Execute(c, FALSE, b), b - 128)
    BY <1>5, <1>8, AddressDoes
  <2> QED
    BY <1>7, <2>1
<1>10. /\ At(g[d], a) /\ g[d].text = c.text /\ g[d].lines = c.lines
       /\ g[d].display = c.display
  BY <1>5, <1>9 DEF Moved
<1>11. Alike(l, g)
  <2>1. \A j \in {0, 1} : h[j].text = l[j].text /\ h[j].lines = l[j].lines
    BY <1>s DEF Alike
  <2>2. \A j \in {0, 1} : j # d => g[j] = h[j]
    BY <1>7
  <2>3. g[d].text = h[d].text /\ g[d].lines = h[d].lines
    BY <1>10 DEF c
  <2> QED
    BY <2>1, <2>2, <2>3, Zenon DEF Alike
<1>12. \/ Shows(l, k, currentMode, currentCursor)
       \/ Shows(l, d, currentMode, currentCursor)
       => Shows(g, d, currentMode, currentCursor)
  <2>1. \A j \in Used : j # d => g[j] = h[j]
    BY <1>7, UsedIs
  <2>2. g[d].display = h[d].display
    BY <1>10 DEF c
  <2>3. Shows(h, d, currentMode, currentCursor) => Shows(g, d, currentMode, currentCursor)
    BY <2>1, <2>2, Zenon DEF Shows
  <2> QED
    BY <1>s, <2>3
<1> QED
  BY <1>6, <1>7, <1>10, <1>11, <1>12 DEF a, d

\* A pattern goes to the memory of the patterns.
LEMMA PatternRuns ==
    ASSUME NEW l \in Both, NEW k \in Used, Pattern(k) \in Seq(Sent)
    PROVE  LET g == Run(l, Pattern(k))
           IN  /\ g \in Both /\ Alike(l, g)
               /\ \A j \in {0, 1} : g[j].display = l[j].display
<1> DEFINE w == WriteCommand(k, 64 + 8 * (0 % 8))
           h == After(l, w)
           p == [i \in 1 .. UdcRows |-> WriteData(k, 31)]
<1>1. k \in {0, 1} /\ UdcRows \in Nat
  BY UsedIs, LcdConstants
<1>2. w = WriteCommand(k, 64) /\ 64 \in 64 .. 127 /\ 64 \in 0 .. 255 /\ 31 \in 0 .. 255
  OBVIOUS
<1>3. w \in Element /\ WriteData(k, 31) \in Element
  BY <1>1, <1>2, CommandIs
<1>4. <<w>> \in Seq(Element) /\ p \in Seq(Element) /\ Len(p) = UdcRows
      /\ \A i \in 1 .. UdcRows : p[i] = WriteData(k, 31)
  <2>1. p \in Seq(Element)
    BY <1>1, <1>3, IsASeq
  <2>2. Len(p) = UdcRows /\ \A i \in 1 .. UdcRows : p[i] = WriteData(k, 31)
    BY <1>1
  <2> HIDE DEF w, p
  <2>3. <<w>> \in Seq(Element)
    BY <1>3
  <2> QED
    BY <2>1, <2>2, <2>3
<1>5. Run(l, Pattern(k)) = Run(h, p)
  <2>1. Pattern(k) = <<w>> \o p
    BY DEF Pattern
  <2> HIDE DEF w, p
  <2>2. Run(l, <<w>> \o p) = Run(Run(l, <<w>>), p)
    BY <1>4, RunConcat
  <2>3. Run(l, <<w>>) = After(l, w)
    BY RunOne
  <2> QED
    BY <2>1, <2>2, <2>3 DEF h
<1> DEFINE c == l[k]
<1>6. c \in Controller
  BY <1>1 DEF Both
<1>7. /\ h \in Both /\ h[k] = Execute(c, FALSE, 64) /\ \A j \in {0, 1} : j # k => h[j] = l[j]
  <2> DEFINE b == 64
  <2>1. b \in 0 .. 255 /\ k \in {0, 1}
    BY <1>1
  <2>2. w = WriteCommand(k, b)
    BY <1>2
  <2> HIDE DEF b
  <2>3. /\ After(l, WriteCommand(k, b)) \in Both
        /\ After(l, WriteCommand(k, b))[k] = Execute(l[k], FALSE, b)
        /\ \A j \in {0, 1} : j # k => After(l, WriteCommand(k, b))[j] = l[j]
    BY <2>1, CommandRuns, Zenon
  <2> HIDE DEF w
  <2> QED
    BY <2>2, <2>3 DEF b
<1> HIDE DEF h, p, c, w
<1>8. Patterned(c, h[k])
  <2>1. Patterned(c, Execute(c, FALSE, 64))
    BY <1>2, <1>6, PatternDoes
  <2> QED
    BY <1>7, <2>1
<1> DEFINE Q == {q \in Both : /\ Patterned(c, q[k])
                              /\ \A j \in {0, 1} : j # k => q[j] = l[j]}
<1>9. h \in Q
  BY <1>7, <1>8
<1>10. ASSUME NEW q \in Q, NEW i \in 1 .. Len(p)
       PROVE  After(q, p[i]) \in Q
  <2> DEFINE r == After(q, WriteData(k, 31))
             d == q[k]
  <2>1. p[i] = WriteData(k, 31) /\ q \in Both
    BY <1>4
  <2>2. /\ r \in Both /\ r[k] = Execute(d, TRUE, 31) /\ \A j \in {0, 1} : j # k => r[j] = q[j]
    <3> DEFINE b == 31
    <3>1. b \in 0 .. 255 /\ k \in {0, 1} /\ q \in Both
      BY <1>1, <2>1
    <3> HIDE DEF b, Q, d, r
    <3>2. /\ After(q, WriteData(k, b)) \in Both
          /\ After(q, WriteData(k, b))[k] = Execute(q[k], TRUE, b)
          /\ \A j \in {0, 1} : j # k => After(q, WriteData(k, b))[j] = q[j]
      BY <3>1, DataRuns, Zenon
    <3> QED
      BY <3>2 DEF b, d, r
  <2>3. d \in Controller
    BY <1>1, <2>1 DEF Both
  <2> HIDE DEF r, d
  <2>4. Written(d, r[k], 31)
    <3>1. Written(d, Execute(d, TRUE, 31), 31)
      BY <1>2, <2>3, DataDoes
    <3> QED
      BY <2>2, <3>1
  <2>5. Patterned(c, d) /\ \A j \in {0, 1} : j # k => q[j] = l[j]
    BY DEF d
  <2> HIDE DEF Q
  <2>6. Patterned(c, r[k])
    <3> DEFINE e == r[k]
    <3>1. d.cg = TRUE /\ d.text = c.text /\ d.lines = c.lines /\ d.display = c.display
      BY <2>5 DEF Patterned
    <3>2. e.cg = d.cg /\ e.lines = d.lines /\ e.display = d.display /\ e.text = d.text
      BY <2>4, <3>1, Zenon DEF Written
    <3> HIDE DEF e
    <3>3. Patterned(c, e)
      BY <3>1, <3>2 DEF Patterned
    <3> QED
      BY <3>3 DEF e
  <2>7. r \in Q
    <3>1. r \in Both /\ \A j \in {0, 1} : j # k => r[j] = l[j]
      BY <2>2, <2>5
    <3> QED
      BY <2>6, <3>1, Zenon DEF Q
  <2> QED
    BY <2>1, <2>7 DEF r
<1> DEFINE g == Run(h, p)
<1>11. g \in Q
  <2> HIDE DEF Q, g
  <2> QED
    BY <1>4, <1>9, <1>10, RunStays DEF g
<1> HIDE DEF g
<1>12. g \in Both /\ Patterned(c, g[k]) /\ \A j \in {0, 1} : j # k => g[j] = l[j]
  BY <1>11
<1> HIDE DEF Q
<1>13. Alike(l, g) /\ \A j \in {0, 1} : g[j].display = l[j].display
  <2>1. g[k].text = l[k].text /\ g[k].lines = l[k].lines /\ g[k].display = l[k].display
    BY <1>12 DEF Patterned, c
  <2> QED
    BY <1>12, <2>1, Zenon DEF Alike
<1> QED
  BY <1>5, <1>12, <1>13 DEF g

\* A user defined character, loaded into controller k.
LEMMA UdcRuns ==
    ASSUME TypeOK, NEW l \in Both, NEW k \in Used
    PROVE  LET g == Run(l, UdcBytes(k, 0))
           IN  /\ g \in Both /\ Alike(l, g) /\ At(g[ctrl_idx], Here)
               /\ Shows(l, ctrl_idx, currentMode, currentCursor)
                    => Shows(g, ctrl_idx, currentMode, currentCursor)
<1> DEFINE h == Run(l, Pattern(k))
           g == Run(h, Goto(k, column, row))
<1>1. /\ Pattern(k) \in Seq(Sent) /\ UdcBytes(k, 0) = Pattern(k) \o Goto(k, column, row)
  BY UdcBytesIs
<1>2. column \in 0 .. Columns(type) - 1 /\ row \in 0 .. Rows(type) - 1
      /\ ctrl_idx = CtrlOf(type, row)
  BY CellIs DEF TypeOK
<1>3. Goto(k, column, row) \in Seq(Sent)
  BY <1>2, GotoIs
<1>4. Run(l, UdcBytes(k, 0)) = g
  <2> DEFINE u == Goto(k, column, row)
             v == Pattern(k)
  <2>1. v \in Seq(Element) /\ u \in Seq(Element)
    BY <1>1, <1>3, SentIs
  <2>2. Run(l, v \o u) = Run(Run(l, v), u)
    <3> HIDE DEF u, v
    <3> QED
      BY <2>1, RunConcat
  <2> QED
    BY <1>1, <2>2
<1>5. /\ h \in Both /\ Alike(l, h) /\ \A j \in {0, 1} : h[j].display = l[j].display
  BY <1>1, PatternRuns
<1> HIDE DEF h
<1>6. /\ g \in Both /\ Alike(h, g) /\ At(g[ctrl_idx], Here)
      /\ Shows(h, ctrl_idx, currentMode, currentCursor)
           => Shows(g, ctrl_idx, currentMode, currentCursor)
  BY <1>2, <1>5, GotoDoes DEF Here
<1> HIDE DEF g
<1>7. Alike(l, g)
  BY <1>5, <1>6 DEF Alike
<1>8. Shows(l, ctrl_idx, currentMode, currentCursor)
        => Shows(h, ctrl_idx, currentMode, currentCursor)
  BY <1>5, UsedIs DEF Shows
<1> QED
  BY <1>4, <1>6, <1>7, <1>8

\* What becomes of a controller depends on nothing but itself.
LEMMA RunApart ==
    ASSUME NEW l \in Both, NEW m \in Both, NEW k \in {0, 1}, l[k] = m[k],
           NEW s \in Seq(Element)
    PROVE  Run(l, s)[k] = Run(m, s)[k]
<1> DEFINE n == Len(s)
           a == Stages(l, s, n)
           b == Stages(m, s, n)
<1>1. n \in Nat /\ \A i \in 1 .. n : s[i] \in Element
  OBVIOUS
<1> HIDE DEF n
<1>2. /\ a[0] = l /\ \A i \in 1 .. n : a[i] = After(a[i - 1], s[i])
      /\ b[0] = m /\ \A i \in 1 .. n : b[i] = After(b[i - 1], s[i])
  BY <1>1, StagesAre
<1> HIDE DEF a, b
<1> DEFINE Same(i) == a[i] \in Both /\ b[i] \in Both /\ a[i][k] = b[i][k]
           S == {i \in Nat : i <= n => Same(i)}
<1>3. 0 \in S
  BY <1>2
<1>4. ASSUME NEW i \in Nat, i \in S PROVE i + 1 \in S
  <2>1. ASSUME i + 1 <= n PROVE Same(i + 1)
    <3>1. i + 1 \in 1 .. n /\ i + 1 - 1 = i /\ i <= n
      BY <1>1, <2>1
    <3>2. Same(i) /\ s[i + 1] \in Element
      BY <1>1, <1>4, <3>1
    <3> DEFINE u == a[i]
               v == b[i]
               e == s[i + 1]
    <3>3. a[i + 1] = After(u, e) /\ b[i + 1] = After(v, e)
      BY <1>2, <3>1
    <3>4. u \in Both /\ v \in Both /\ u[k] = v[k] /\ e \in Element
      BY <3>2
    <3> HIDE DEF u, v, e
    <3>5. After(u, e) \in Both /\ After(v, e) \in Both /\ After(u, e)[k] = After(v, e)[k]
      <4>1. /\ After(u, e) \in Both
            /\ \A j \in {0, 1} : j # e.ctrl => After(u, e)[j] = u[j]
            /\ IsByte(e) => After(u, e)[e.ctrl] = Execute(u[e.ctrl], e.rs, ByteOf(e))
            /\ ~IsByte(e) => After(u, e) = u
        BY <3>4, AfterIs
      <4>2. /\ After(v, e) \in Both
            /\ \A j \in {0, 1} : j # e.ctrl => After(v, e)[j] = v[j]
            /\ IsByte(e) => After(v, e)[e.ctrl] = Execute(v[e.ctrl], e.rs, ByteOf(e))
            /\ ~IsByte(e) => After(v, e) = v
        BY <3>4, AfterIs
      <4> QED
        BY <3>4, <4>1, <4>2
    <3> QED
      BY <3>3, <3>5
  <2> HIDE DEF Same
  <2> QED
    BY <2>1
<1> HIDE DEF S
<1>5. n \in S
  BY <1>1, <1>3, <1>4, Induction
<1>6. a[n][k] = b[n][k]
  BY <1>1, <1>5 DEF S
<1> QED
  BY <1>6 DEF Run, a, b, n

\* And on nothing that is sent to the other one.
LEMMA RunOthers ==
    ASSUME NEW l \in Both, NEW s \in Seq(Element), NEW k \in {0, 1},
           \A i \in 1 .. Len(s) : s[i].ctrl # k
    PROVE  Run(l, s)[k] = l[k]
<1> DEFINE Q == {q \in Both : q[k] = l[k]}
<1>1. l \in Q
  OBVIOUS
<1>2. ASSUME NEW q \in Q, NEW i \in 1 .. Len(s) PROVE After(q, s[i]) \in Q
  <2> DEFINE e == s[i]
  <2>1. e \in Element /\ e.ctrl # k /\ q \in Both
    OBVIOUS
  <2> HIDE DEF e
  <2>2. After(q, e) \in Both /\ \A j \in {0, 1} : j # e.ctrl => After(q, e)[j] = q[j]
    BY <2>1, AfterIs
  <2>3. After(q, e)[k] = q[k]
    BY <2>1, <2>2
  <2> QED
    BY <2>2, <2>3 DEF e
<1> HIDE DEF Q
<1>3. Run(l, s) \in Q
  BY <1>1, <1>2, RunStays
<1> QED
  BY <1>3 DEF Q

\* The lines a controller is set to (_initCtrl 149-198).
Chosen == IF type \in {"LCD8x1", "LCD8x2B"} THEN 1 ELSE 2

\* A controller is told its lines when it is started, whatever it was told before.
LEMMA FunctionIs ==
    ASSUME NEW k, k \in {0, 1}
    PROVE  \E s \in Seq(Element) : \E b \in 32 .. 63 :
              /\ FunctionSet(k) = s \o <<WriteCommand(k, b)>>
              /\ \A i \in 1 .. Len(s) : s[i].ctrl = k
              /\ 1 + ((b \div 8) % 2) = Chosen
<1>1. \A b \in {32, 40, 42, 46, 9} :
        WriteCommand(k, b) \in Element /\ WriteCommand(k, b).ctrl = k
  <2> TAKE b \in {32, 40, 42, 46, 9}
  <2>1. b \in 0 .. 255
    OBVIOUS
  <2> QED
    BY <2>1, CommandIs
<1>2. /\ 1 + ((32 \div 8) % 2) = 1 /\ 1 + ((40 \div 8) % 2) = 2
      /\ 1 + ((42 \div 8) % 2) = 2
      /\ 32 \in 32 .. 63 /\ 40 \in 32 .. 63 /\ 42 \in 32 .. 63
  OBVIOUS
<1>o. ASSUME NEW b \in {32, 40}, FunctionSet(k) = <<WriteCommand(k, b)>>,
             1 + ((b \div 8) % 2) = Chosen
      PROVE  \E s \in Seq(Element) : \E c \in 32 .. 63 :
                /\ FunctionSet(k) = s \o <<WriteCommand(k, c)>>
                /\ \A i \in 1 .. Len(s) : s[i].ctrl = k
                /\ 1 + ((c \div 8) % 2) = Chosen
  <2> DEFINE w == WriteCommand(k, b)
  <2>1. w \in Element /\ b \in 32 .. 63
    BY <1>1
  <2> HIDE DEF w
  <2>2. <<>> \in Seq(Element) /\ <<w>> = <<>> \o <<w>> /\ \A i \in 1 .. Len(<<>>) : <<>>[i].ctrl = k
    BY <2>1
  <2>3. FunctionSet(k) = <<>> \o <<WriteCommand(k, b)>>
    BY <1>o, <2>2 DEF w
  <2> HIDE DEF Chosen
  <2> QED
    BY <1>o, <2>1, <2>2, <2>3
<1>3. CASE type \in {"LCD8x1", "LCD8x2B"}
  <2>1. FunctionSet(k) = <<WriteCommand(k, 32)>> /\ Chosen = 1
    BY <1>3 DEF FunctionSet, Chosen
  <2> QED
    BY <1>2, <1>o, <2>1
<1>4. CASE type = "LCD24x4"
  <2> DEFINE u == WriteCommand(k, 42)
             v == WriteCommand(k, 46)
             w == WriteCommand(k, 9)
  <2>1. FunctionSet(k) = <<u, v, w, u>> /\ Chosen = 2
    BY <1>4 DEF FunctionSet, Chosen
  <2>2. /\ u \in Element /\ v \in Element /\ w \in Element
        /\ u.ctrl = k /\ v.ctrl = k /\ w.ctrl = k
    BY <1>1
  <2> HIDE DEF u, v, w
  <2>3. /\ <<u, v, w>> \in Seq(Element) /\ <<u, v, w, u>> = <<u, v, w>> \o <<u>>
        /\ \A i \in 1 .. Len(<<u, v, w>>) : <<u, v, w>>[i].ctrl = k
    BY <2>2
  <2>4. FunctionSet(k) = <<u, v, w>> \o <<WriteCommand(k, 42)>>
    BY <2>1, <2>3 DEF u
  <2> QED
    BY <1>2, <2>1, <2>3, <2>4
<1>5. CASE type \notin {"LCD8x1", "LCD8x2B", "LCD24x4"}
  <2>1. FunctionSet(k) = <<WriteCommand(k, 40)>> /\ Chosen = 2
    BY <1>5 DEF FunctionSet, Chosen
  <2> QED
    BY <1>2, <1>o, <2>1
<1> QED
  BY <1>3, <1>4, <1>5

LEMMA FunctionDoes ==
    ASSUME NEW c, NEW b \in 32 .. 63
    PROVE  Execute(c, FALSE, b) = [c EXCEPT !.lines = 1 + ((b \div 8) % 2)]
<1>1. ~(b >= 128) /\ ~(b \in 64 .. 127)
  OBVIOUS
<1> DEFINE n == 1 + ((b \div 8) % 2)
<1>2. Execute(c, FALSE, b) = [c EXCEPT !.lines = n]
  <2> HIDE DEF n
  <2> QED
    BY <1>1 DEF Execute, n
<1> QED
  BY <1>2

LEMMA FunctionRuns ==
    ASSUME NEW l \in Both, NEW k \in {0, 1}
    PROVE  LET g == Run(l, FunctionSet(k))
           IN  /\ FunctionSet(k) \in Seq(Element)
               /\ g \in Both /\ g[k].lines = Chosen
               /\ \A j \in {0, 1} : j # k => g[j] = l[j]
<1>1. PICK s \in Seq(Element) : \E b \in 32 .. 63 :
              /\ FunctionSet(k) = s \o <<WriteCommand(k, b)>>
              /\ \A i \in 1 .. Len(s) : s[i].ctrl = k
              /\ 1 + ((b \div 8) % 2) = Chosen
  BY FunctionIs
<1>2. PICK b \in 32 .. 63 : /\ FunctionSet(k) = s \o <<WriteCommand(k, b)>>
                            /\ \A i \in 1 .. Len(s) : s[i].ctrl = k
                            /\ 1 + ((b \div 8) % 2) = Chosen
  BY <1>1
<1> DEFINE w == WriteCommand(k, b)
           h == Run(l, s)
           g == After(h, w)
           c == h[k]
<1>3. b \in 0 .. 255
  OBVIOUS
<1>4. w \in Element /\ <<w>> \in Seq(Element)
  <2>1. w \in Element
    BY <1>3, CommandIs
  <2> HIDE DEF w
  <2> QED
    BY <2>1
<1>5. h \in Both
  BY RunTyped
<1>6. Run(l, s \o <<w>>) = g /\ s \o <<w>> \in Seq(Element)
  <2> HIDE DEF w
  <2>1. Run(l, s \o <<w>>) = Run(Run(l, s), <<w>>)
    BY <1>4, RunConcat
  <2> QED
    BY <1>4, <2>1, RunOne, ConcatProperties
<1>7. \A j \in {0, 1} : j # k => h[j] = l[j]
  <2> TAKE j \in {0, 1}
  <2>1. ASSUME j # k PROVE h[j] = l[j]
    <3>1. \A i \in 1 .. Len(s) : s[i].ctrl # j
      BY <1>2, <2>1
    <3> QED
      BY <3>1, RunOthers
  <2> QED
    BY <2>1
<1> HIDE DEF h
<1>8. /\ g \in Both /\ g[k] = Execute(c, FALSE, b)
      /\ \A j \in {0, 1} : j # k => g[j] = h[j]
  BY <1>3, <1>5, CommandRuns, Zenon
<1>9. c \in Controller
  BY <1>5 DEF Both
<1> HIDE DEF g, c, w
<1>10. g[k].lines = Chosen
  <2>1. Execute(c, FALSE, b) = [c EXCEPT !.lines = 1 + ((b \div 8) % 2)]
    BY FunctionDoes
  <2>2. Execute(c, FALSE, b) = [c EXCEPT !.lines = Chosen]
    BY <1>2, <2>1
  <2> HIDE DEF Chosen
  <2> QED
    BY <1>8, <1>9, <2>2 DEF Controller
<1>11. FunctionSet(k) = s \o <<w>>
  BY <1>2 DEF w
<1>12. \A j \in {0, 1} : j # k => g[j] = l[j]
  BY <1>7, <1>8
<1> QED
  BY <1>6, <1>8, <1>10, <1>11, <1>12

\* Nothing but the display is touched.
Unmoved(l, g) == \A j \in {0, 1} : g[j].address = l[j].address /\ g[j].cg = l[j].cg

\* A mode is set: the cursor is shown by controller k alone.
LEMMA ModeRuns ==
    ASSUME NEW l \in Both, NEW k \in Used, NEW mode \in {0, 4}, NEW cursor \in 0 .. 3
    PROVE  LET g == Run(l, ModeBytes(k, mode, cursor))
           IN  /\ g \in Both /\ Alike(l, g) /\ Unmoved(l, g)
               /\ Shows(g, k, mode, cursor)
<1>1. 0 \in 0 .. 3 /\ mode + 0 = mode /\ mode \in {0, 4} /\ cursor \in 0 .. 3
      /\ 0 \in {0, 1} /\ 1 \in {0, 1}
  OBVIOUS
<1>2. CASE type = "LCD40x4"
  <2> DEFINE p == IF k = 0 THEN cursor ELSE 0
             q == IF k = 1 THEN cursor ELSE 0
             e == Display(0, mode, p)
             f == Display(1, mode, q)
             h == After(l, e)
             g == After(h, f)
  <2>1. p \in 0 .. 3 /\ q \in 0 .. 3
    OBVIOUS
  <2>2. Used = {0, 1} /\ ModeBytes(k, mode, cursor) = <<e, f>>
    BY <1>2 DEF Used, ModeBytes
  <2> HIDE DEF p, q
  <2>3. e \in Sent /\ f \in Sent
    BY <1>1, <2>1, <2>2, DisplayIs
  <2>4. /\ h \in Both /\ Alike(l, h) /\ h[0].display = mode + p /\ h[0].address = l[0].address
        /\ h[0].cg = l[0].cg /\ \A j \in {0, 1} : j # 0 => h[j] = l[j]
    BY <1>1, <2>1, DisplaySets
  <2>5. Run(l, ModeBytes(k, mode, cursor)) = g
    <3> HIDE DEF e, f
    <3> QED
      BY <2>2, <2>3, SentIs, RunTwo
  <2> HIDE DEF h
  <2>6. /\ g \in Both /\ Alike(h, g) /\ g[1].display = mode + q /\ g[1].address = h[1].address
        /\ g[1].cg = h[1].cg /\ \A j \in {0, 1} : j # 1 => g[j] = h[j]
    BY <1>1, <2>1, <2>4, DisplaySets
  <2> HIDE DEF g
  <2>7. Alike(l, g) /\ Unmoved(l, g)
    BY <2>4, <2>6 DEF Alike, Unmoved
  <2>8. g[0].display = mode + p /\ g[1].display = mode + q
    BY <2>4, <2>6
  <2>9. Shows(g, k, mode, cursor)
    BY <1>1, <2>2, <2>8 DEF Shows, p, q
  <2> QED
    BY <2>5, <2>6, <2>7, <2>9
<1>3. CASE type # "LCD40x4"
  <2> DEFINE e == Display(0, mode, cursor)
             g == After(l, e)
  <2>1. Used = {0} /\ k = 0 /\ ModeBytes(k, mode, cursor) = <<e>>
    BY <1>3 DEF Used, ModeBytes
  <2>2. /\ g \in Both /\ Alike(l, g) /\ g[0].display = mode + cursor
        /\ g[0].address = l[0].address
        /\ g[0].cg = l[0].cg /\ \A j \in {0, 1} : j # 0 => g[j] = l[j]
    BY <1>1, DisplaySets
  <2>3. Run(l, ModeBytes(k, mode, cursor)) = g
    <3> HIDE DEF e
    <3> QED
      BY <2>1, RunOne
  <2> HIDE DEF g
  <2>4. Unmoved(l, g) /\ Shows(g, k, mode, cursor)
    BY <2>1, <2>2 DEF Unmoved, Shows
  <2> QED
    BY <2>2, <2>3, <2>4
<1> QED
  BY <1>2, <1>3

\* Controller k is cleared.
LEMMA ClearRuns ==
    ASSUME NEW l \in Both, NEW k \in {0, 1}
    PROVE  LET g == After(l, WriteCommand(k, 1))
           IN  /\ g \in Both /\ Cleared(l[k], g[k])
               /\ \A j \in {0, 1} : j # k => g[j] = l[j]
<1> DEFINE b == 1
           g == After(l, WriteCommand(k, b))
           c == l[k]
<1>1. b \in 0 .. 255
  OBVIOUS
<1>2. c \in Controller
  BY DEF Both
<1>3. Cleared(c, Execute(c, FALSE, b))
  BY <1>2, ClearDoes
<1> HIDE DEF b
<1>4. /\ g \in Both /\ g[k] = Execute(c, FALSE, b)
      /\ \A j \in {0, 1} : j # k => g[j] = l[j]
  BY <1>1, CommandRuns, Zenon
<1> HIDE DEF g
<1>5. g \in Both /\ Cleared(c, g[k]) /\ \A j \in {0, 1} : j # k => g[j] = l[j]
  BY <1>3, <1>4
<1> QED
  BY <1>5 DEF g, b, c

\* What _initCtrl sends after the prelude.
InitRest(k, mode) ==
    FunctionSet(k) \o <<WriteCommand(k, 6), Display(k, mode, 0)>> \o ModeBytes(k, 4, 0)

LEMMA RestRuns ==
    ASSUME NEW l \in Both, NEW k \in Used, NEW mode \in {0, 4}
    PROVE  LET g == Run(l, InitRest(k, mode))
           IN  /\ InitRest(k, mode) \in Seq(Element) /\ g \in Both
               /\ g[k].lines = Chosen /\ \A j \in Used : g[j].display = 4
               /\ \A j \in {0, 1} : j # k =>
                     /\ g[j].text = l[j].text /\ g[j].lines = l[j].lines
                     /\ g[j].address = l[j].address /\ g[j].cg = l[j].cg
<1> DEFINE s == FunctionSet(k)
           e == WriteCommand(k, 6)
           d == Display(k, mode, 0)
           m == ModeBytes(k, 4, 0)
           h1 == Run(l, s)
           h2 == After(h1, e)
           h3 == After(h2, d)
           g == Run(h3, m)
<1>1. k \in {0, 1} /\ 0 \in 0 .. 3 /\ 6 \in 0 .. 255 /\ 4 \in {0, 4}
  BY UsedIs
<1>2. s \in Seq(Element) /\ <<e, d>> \in Seq(Element) /\ m \in Seq(Element)
  <2>1. e \in Element
    BY <1>1, CommandIs
  <2>2. d \in Element
    BY <1>1, DisplayIs, SentIs
  <2>3. s \in Seq(Element) /\ m \in Seq(Element)
    BY <1>1, InitParts, SentIs
  <2> HIDE DEF e, d, s, m
  <2> QED
    BY <2>1, <2>2, <2>3
<1>3. Run(l, InitRest(k, mode)) = g /\ InitRest(k, mode) \in Seq(Element)
  <2>1. InitRest(k, mode) = (s \o <<e, d>>) \o m
    BY DEF InitRest
  <2>2. e \in Element /\ d \in Element
    BY <1>1, CommandIs, DisplayIs, SentIs
  <2> HIDE DEF e, d, s, m
  <2>3. s \o <<e, d>> \in Seq(Element)
    BY <1>2, ConcatProperties
  <2>4. (s \o <<e, d>>) \o m \in Seq(Element)
    BY <1>2, <2>3, ConcatProperties
  <2>5. Run(l, (s \o <<e, d>>) \o m) = Run(Run(l, s \o <<e, d>>), m)
    BY <1>2, <2>3, RunConcat
  <2>6. Run(l, s \o <<e, d>>) = Run(Run(l, s), <<e, d>>)
    BY <1>2, RunConcat
  <2>7. Run(h1, <<e, d>>) = After(After(h1, e), d)
    BY <2>2, RunTwo
  <2> QED
    BY <2>1, <2>4, <2>5, <2>6, <2>7
<1>4. h1 \in Both /\ h1[k].lines = Chosen /\ \A j \in {0, 1} : j # k => h1[j] = l[j]
  BY <1>1, FunctionRuns
<1> HIDE DEF h1
<1>5. h2 \in Both /\ h2[k] = h1[k] /\ \A j \in {0, 1} : j # k => h2[j] = h1[j]
  <2> DEFINE b == 6
             c == h1[k]
  <2>1. Execute(c, FALSE, b) = c
    BY DEF Execute
  <2>2. b \in 0 .. 255 /\ k \in {0, 1} /\ h1 \in Both
    BY <1>1, <1>4
  <2> HIDE DEF b
  <2>3. /\ After(h1, WriteCommand(k, b)) \in Both
        /\ After(h1, WriteCommand(k, b))[k] = Execute(c, FALSE, b)
        /\ \A j \in {0, 1} : j # k => After(h1, WriteCommand(k, b))[j] = h1[j]
    BY <2>2, CommandRuns, Zenon
  <2> HIDE DEF c
  <2>4. /\ After(h1, WriteCommand(k, b)) \in Both
        /\ After(h1, WriteCommand(k, b))[k] = c
        /\ \A j \in {0, 1} : j # k => After(h1, WriteCommand(k, b))[j] = h1[j]
    BY <2>1, <2>3
  <2> QED
    BY <2>4 DEF b, c
<1> HIDE DEF h2
<1>6. /\ h3 \in Both /\ Alike(h2, h3) /\ \A j \in {0, 1} : j # k => h3[j] = h2[j]
  BY <1>1, <1>5, DisplaySets
<1> HIDE DEF h3
<1>7. g \in Both /\ Alike(h3, g) /\ Unmoved(h3, g) /\ Shows(g, k, 4, 0)
  BY <1>1, <1>6, ModeRuns
<1> HIDE DEF g
<1>8. g[k].lines = Chosen
  BY <1>1, <1>4, <1>5, <1>6, <1>7 DEF Alike
<1>9. \A j \in Used : g[j].display = 4
  <2>1. 4 + 0 = 4
    OBVIOUS
  <2> QED
    BY <1>7, <2>1 DEF Shows
<1>10. \A j \in {0, 1} : j # k => h3[j] = l[j]
  BY <1>4, <1>5, <1>6
<1>11. \A j \in {0, 1} : /\ g[j].text = h3[j].text /\ g[j].lines = h3[j].lines
                         /\ g[j].address = h3[j].address /\ g[j].cg = h3[j].cg
  BY <1>7 DEF Alike, Unmoved
<1> QED
  BY <1>3, <1>7, <1>8, <1>9, <1>10, <1>11

\* A controller as a start leaves it.
Anew(c) == c.text = {} /\ c.lines = Chosen /\ c.display = 4 /\ At(c, 0)

\* What is sent to start controller k, from the prelude on.
Opening(k, mode) == InitRest(k, mode) \o <<WriteCommand(k, 1)>>

LEMMA OpeningRuns ==
    ASSUME NEW l \in Both, NEW k \in Used, NEW mode \in {0, 4}
    PROVE  LET g == Run(l, Opening(k, mode))
           IN  /\ Opening(k, mode) \in Seq(Element) /\ g \in Both /\ Anew(g[k])
               /\ \A j \in Used : j # k /\ Anew(l[j]) => Anew(g[j])
<1> DEFINE r == InitRest(k, mode)
           w == WriteCommand(k, 1)
           h == Run(l, r)
           g == After(h, w)
<1>1. k \in {0, 1} /\ 1 \in 0 .. 255 /\ \A j \in Used : j \in {0, 1}
  BY UsedIs
<1>2. r \in Seq(Element) /\ w \in Element
  BY <1>1, RestRuns, CommandIs
<1>3. Run(l, Opening(k, mode)) = g /\ Opening(k, mode) \in Seq(Element)
  <2>1. Opening(k, mode) = r \o <<w>>
    BY DEF Opening
  <2> HIDE DEF r, w
  <2>2. <<w>> \in Seq(Element)
    BY <1>2
  <2>3. r \o <<w>> \in Seq(Element)
    BY <1>2, <2>2, ConcatProperties
  <2>4. Run(l, r \o <<w>>) = Run(Run(l, r), <<w>>)
    BY <1>2, <2>2, RunConcat
  <2> QED
    BY <2>1, <2>3, <2>4, RunOne
<1>4. /\ h \in Both /\ h[k].lines = Chosen /\ \A j \in Used : h[j].display = 4
      /\ \A j \in {0, 1} : j # k =>
            /\ h[j].text = l[j].text /\ h[j].lines = l[j].lines
            /\ h[j].address = l[j].address /\ h[j].cg = l[j].cg
  BY RestRuns
<1> HIDE DEF h, r
<1>5. g \in Both /\ Cleared(h[k], g[k]) /\ \A j \in {0, 1} : j # k => g[j] = h[j]
  BY <1>1, <1>4, ClearRuns
<1> HIDE DEF g, w
<1>6. Anew(g[k])
  <2>1. h[k].display = 4 /\ h[k].lines = Chosen
    BY <1>4
  <2> QED
    BY <1>5, <2>1 DEF Cleared, Anew
<1>7. ASSUME NEW j \in Used, j # k, Anew(l[j]) PROVE Anew(g[j])
  <2>1. g[j] = h[j] /\ h[j].display = 4
    BY <1>1, <1>4, <1>5, <1>7
  <2>2. /\ h[j].text = l[j].text /\ h[j].lines = l[j].lines
        /\ h[j].address = l[j].address /\ h[j].cg = l[j].cg
    BY <1>1, <1>4, <1>7
  <2> QED
    BY <1>7, <2>1, <2>2 DEF Anew, At
<1> QED
  BY <1>3, <1>5, <1>6, <1>7

LEMMA ConsTail ==
    ASSUME NEW e \in Element, NEW r \in Seq(Element)
    PROVE  /\ <<e>> \o r \in Seq(Element) /\ <<e>> \o r # <<>>
           /\ Head(<<e>> \o r) = e /\ Tail(<<e>> \o r) = r
<1> DEFINE h == <<e>>
           u == h \o r
<1>1. h \in Seq(Element) /\ Len(h) = 1 /\ h[1] = e /\ Len(r) \in Nat
  OBVIOUS
<1> HIDE DEF h
<1>2. /\ u \in Seq(Element) /\ Len(u) = 1 + Len(r)
      /\ \A i \in 1 .. 1 + Len(r) : u[i] = IF i <= 1 THEN h[i] ELSE r[i - 1]
  BY <1>1, ConcatProperties, SMTT(30)
<1> HIDE DEF u
<1>3. u # <<>> /\ u[1] = e
  BY <1>1, <1>2
<1>4. /\ Tail(u) \in Seq(Element) /\ Len(Tail(u)) = Len(r)
      /\ \A i \in 1 .. Len(r) : Tail(u)[i] = u[i + 1]
  BY <1>1, <1>2, <1>3, HeadTailProperties
<1>5. \A i \in 1 .. Len(r) : u[i + 1] = r[i]
  <2> TAKE i \in 1 .. Len(r)
  <2>1. i + 1 \in 1 .. 1 + Len(r) /\ ~(i + 1 <= 1) /\ i + 1 - 1 = i
    BY <1>1
  <2> QED
    BY <1>2, <2>1
<1>6. Tail(u) = r
  BY <1>4, <1>5, SeqEqual
<1>7. Head(u) = e
  BY <1>2, <1>3
<1> QED
  BY <1>2, <1>3, <1>6, <1>7 DEF h, u

LEMMA ConcatTail ==
    ASSUME NEW s \in Seq(Element), s # <<>>, NEW u \in Seq(Element)
    PROVE  Tail(s \o u) = Tail(s) \o u
<1> DEFINE e == Head(s)
           t == Tail(s)
<1>1. s = <<e>> \o t /\ <<e>> \in Seq(Element) /\ t \in Seq(Element)
  BY HeadThenTail
<1>2. e \in Element
  BY HeadTailProperties
<1> HIDE DEF e, t
<1>3. (<<e>> \o t) \o u = <<e>> \o (t \o u) /\ t \o u \in Seq(Element)
  BY <1>1, ConcatAssociative, ConcatProperties
<1>4. Tail(<<e>> \o (t \o u)) = t \o u
  BY <1>2, <1>3, ConsTail
<1> QED
  BY <1>1, <1>3, <1>4 DEF t

\* No prelude of controller k.
BytesFor(s, k) == \A i \in DOMAIN s : s[i].ctrl = k => IsByte(s[i])

LEMMA ConcatBytes ==
    ASSUME NEW s \in Seq(Element), NEW t \in Seq(Element), NEW k,
           BytesFor(s, k), BytesFor(t, k)
    PROVE  BytesFor(s \o t, k)
<1>1. /\ DOMAIN s = 1 .. Len(s) /\ DOMAIN t = 1 .. Len(t)
      /\ Len(s) \in Nat /\ Len(t) \in Nat /\ DOMAIN (s \o t) = 1 .. Len(s) + Len(t)
  OBVIOUS
<1>2. ASSUME NEW i \in DOMAIN (s \o t)
      PROVE  \/ i \in DOMAIN s /\ (s \o t)[i] = s[i]
             \/ i - Len(s) \in DOMAIN t /\ (s \o t)[i] = t[i - Len(s)]
  BY <1>1
<1> QED
  BY <1>2 DEF BytesFor

LEMMA TextBytes ==
    ASSUME NEW s \in Seq(Text), NEW k
    PROVE  BytesFor(s, k)
BY DEF BytesFor, Text, Plain

LEMMA OpeningIs ==
    ASSUME NEW k \in Used, NEW mode \in {0, 4}
    PROVE  /\ Opening(k, mode) \in Seq(Element) /\ \A j : BytesFor(Opening(k, mode), j)
           /\ Prelude(k) \in Element /\ Prelude(k).ctrl = k /\ ~IsByte(Prelude(k))
           /\ InitCtrl(k, mode) \o <<WriteCommand(k, 1)>> = <<Prelude(k)>> \o Opening(k, mode)
<1> DEFINE s == FunctionSet(k)
           m == <<WriteCommand(k, 6), Display(k, mode, 0)>>
           t == ModeBytes(k, 4, 0)
           w == <<WriteCommand(k, 1)>>
           p == <<Prelude(k)>>
<1>1. k \in {0, 1} /\ 0 \in 0 .. 3 /\ 4 \in {0, 4}
  BY UsedIs
<1>2. /\ p \in Seq(Element) /\ s \in Seq(Element) /\ m \in Seq(Element)
      /\ t \in Seq(Element)
  BY InitParts, SentIs
<1>3. w \in Seq(Text) /\ w \in Seq(Element) /\ m \in Seq(Text) /\ t \in Seq(Text)
  <2>1. WriteCommand(k, 1) \in Text
    BY ClearIs
  <2>2. WriteCommand(k, 6) \in Text
    <3>1. 6 \in 0 .. 255 /\ 6 \notin 32 .. 63
      OBVIOUS
    <3> QED
      BY <3>1, CommandPlain
  <2>3. Display(k, mode, 0) \in Text
    BY <1>1, DisplayIs
  <2>4. t \in Seq(Text)
    BY <1>1, ModeBytesIs
  <2>5. w \in Seq(Text) /\ m \in Seq(Text)
    BY <2>1, <2>2, <2>3
  <2> HIDE DEF w, m, t
  <2> QED
    BY <2>4, <2>5, SentIs
<1>4. \A j : BytesFor(s, j)
  <2>1. \A b \in {32, 40, 42, 46, 9} : IsByte(WriteCommand(k, b))
    <3> TAKE b \in {32, 40, 42, 46, 9}
    <3>1. b \in 0 .. 255
      OBVIOUS
    <3> QED
      BY <1>1, <3>1, CommandIs
  <2> QED
    BY <2>1 DEF BytesFor, FunctionSet
<1>5. \A j : BytesFor(m, j) /\ BytesFor(t, j) /\ BytesFor(w, j)
  BY <1>3, TextBytes
<1>6. Opening(k, mode) = ((s \o m) \o t) \o w /\ InitCtrl(k, mode) = ((p \o s) \o m) \o t
  BY DEF Opening, InitRest, InitCtrl
<1>7. Prelude(k) \in Element /\ Prelude(k).ctrl = k /\ ~IsByte(Prelude(k))
  <2>1. Prelude(k).ctrl = k /\ ~IsByte(Prelude(k))
    BY DEF Prelude, Nibbles, IsByte
  <2>2. p \in Seq(Element) /\ Len(p) = 1 /\ p[1] = Prelude(k)
    BY <1>2
  <2> HIDE DEF p
  <2> QED
    BY <2>1, <2>2
<1> HIDE DEF s, m, t, w, p
<1> DEFINE sm  == s \o m
           smt == sm \o t
<1>8. sm \in Seq(Element) /\ \A j : BytesFor(sm, j)
  BY <1>2, <1>4, <1>5, ConcatBytes, ConcatProperties
<1>9. p \o sm = (p \o s) \o m
  BY <1>2, ConcatAssociative, SMTT(30)
<1> HIDE DEF sm
<1>10. smt \in Seq(Element) /\ \A j : BytesFor(smt, j)
  BY <1>2, <1>5, <1>8, ConcatBytes, ConcatProperties
<1>11. p \o smt = ((p \o s) \o m) \o t
  <2>1. p \o (sm \o t) = (p \o sm) \o t
    BY <1>2, <1>8, ConcatAssociative, SMTT(30)
  <2> QED
    BY <1>9, <2>1
<1>12. Opening(k, mode) = smt \o w
  BY <1>6 DEF sm
<1> HIDE DEF smt
<1>13. smt \o w \in Seq(Element) /\ \A j : BytesFor(smt \o w, j)
  BY <1>3, <1>5, <1>10, ConcatBytes, ConcatProperties
<1>14. p \o (smt \o w) = (p \o smt) \o w
  BY <1>2, <1>3, <1>10, ConcatAssociative, SMTT(30)
<1>15. InitCtrl(k, mode) \o w = p \o (smt \o w)
  BY <1>6, <1>11, <1>14
<1> QED
  BY <1>7, <1>12, <1>13, <1>15 DEF p, w

\* What is left of a start: the prelude of controller k is still to come, and
\* all that counts for it comes after that.
Starting(o, k) ==
    \E s \in Seq(Element), r \in Seq(Element) :
        /\ o = s \o (<<Prelude(k)>> \o r) /\ BytesFor(r, k)
        /\ \A l \in Both : Anew(Run(l, r)[k])

LEMMA StartingRuns ==
    ASSUME NEW k \in Used, NEW o, Starting(o, k), NEW l \in Both
    PROVE  Anew(Run(l, o)[k])
<1>1. PICK s \in Seq(Element), r \in Seq(Element) :
        /\ o = s \o (<<Prelude(k)>> \o r) /\ BytesFor(r, k)
        /\ \A q \in Both : Anew(Run(q, r)[k])
  BY DEF Starting
<1> DEFINE p == <<Prelude(k)>>
<1>2. p \in Seq(Element)
  <2>1. Prelude(k) \in Element
    BY OpeningIs
  <2> QED
    BY <2>1
<1>3. o = s \o (p \o r)
  BY <1>1
<1> HIDE DEF p
<1>4. p \o r \in Seq(Element)
  BY <1>2, ConcatProperties
<1>5. Run(l, o) = Run(Run(Run(l, s), p), r)
  <2>1. Run(l, s \o (p \o r)) = Run(Run(l, s), p \o r)
    BY <1>4, RunConcat
  <2>2. Run(Run(l, s), p \o r) = Run(Run(Run(l, s), p), r)
    BY <1>2, RunConcat
  <2> QED
    BY <1>3, <2>1, <2>2
<1>6. Run(Run(l, s), p) \in Both
  BY <1>2, RunTyped
<1> QED
  BY <1>1, <1>5, <1>6

\* The first is sent: it was the prelude, or the prelude is still to come.
LEMMA StartingTail ==
    ASSUME NEW k \in Used, NEW o, Starting(o, k)
    PROVE  \/ Starting(Tail(o), k)
           \/ BytesFor(Tail(o), k) /\ \A l \in Both : Anew(Run(l, Tail(o))[k])
<1>1. PICK s \in Seq(Element), r \in Seq(Element) :
        /\ o = s \o (<<Prelude(k)>> \o r) /\ BytesFor(r, k)
        /\ \A l \in Both : Anew(Run(l, r)[k])
  BY DEF Starting
<1> DEFINE u == <<Prelude(k)>> \o r
<1>2. u \in Seq(Element) /\ Tail(u) = r
  <2>1. Prelude(k) \in Element
    BY OpeningIs
  <2> QED
    BY <2>1, ConsTail
<1>3. o = s \o u
  BY <1>1
<1>4. CASE s = <<>>
  <2> HIDE DEF u
  <2>1. o = u
    BY <1>2, <1>3, <1>4, ConcatEmptySeq
  <2> QED
    BY <1>1, <1>2, <2>1
<1>5. CASE s # <<>>
  <2> HIDE DEF u
  <2>1. Tail(o) = Tail(s) \o u
    BY <1>2, <1>3, <1>5, ConcatTail
  <2>2. Tail(s) \in Seq(Element)
    BY <1>5, HeadTailProperties
  <2>3. Tail(o) = Tail(s) \o (<<Prelude(k)>> \o r)
    BY <2>1 DEF u
  <2> QED
    BY <1>1, <2>2, <2>3 DEF Starting
<1> QED
  BY <1>4, <1>5

\* A start starts every controller of the panel.
LEMMA InitStarts ==
    ASSUME NEW k \in Used
    PROVE  Starting(InitBytes, k)
<1>0. <<>> \in Seq(Element) /\ 0 \in Used /\ 0 \in {0, 4} /\ 4 \in {0, 4}
  BY UsedIs
<1>1. CASE type = "LCD40x4"
  <2> DEFINE a == InitCtrl(1, 0)
             b == <<WriteCommand(1, 1)>>
             c == InitCtrl(0, 4)
             d == <<WriteCommand(0, 1)>>
             r1 == Opening(1, 0)
             r0 == Opening(0, 4)
             p1 == <<Prelude(1)>>
             p0 == <<Prelude(0)>>
             u1 == p1 \o r1
             u0 == p0 \o r0
             rest == r1 \o u0
  <2>1. Used = {0, 1} /\ InitBytes = ((a \o b) \o c) \o d
    BY <1>1 DEF Used, InitBytes
  <2>2. a \o b = u1 /\ c \o d = u0
    BY <1>0, <2>1, OpeningIs
  <2>3. /\ r1 \in Seq(Element) /\ r0 \in Seq(Element)
        /\ BytesFor(r1, 1) /\ BytesFor(r0, 1) /\ BytesFor(r0, 0)
        /\ Prelude(0) \in Element /\ Prelude(1) \in Element /\ Prelude(0).ctrl = 0
    BY <1>0, <2>1, OpeningIs
  <2>4. p1 \in Seq(Element) /\ p0 \in Seq(Element) /\ BytesFor(p0, 1)
    <3>1. p1 \in Seq(Element) /\ p0 \in Seq(Element)
      BY <2>3
    <3>2. p0[1].ctrl # 1 /\ DOMAIN p0 = {1}
      BY <2>3
    <3> HIDE DEF p0, p1
    <3> QED
      BY <3>1, <3>2 DEF BytesFor
  <2>5. /\ a \in Seq(Element) /\ b \in Seq(Element)
        /\ c \in Seq(Element) /\ d \in Seq(Element)
    <3>1. 1 \in Used
      BY <2>1
    <3>2. a \in Seq(Element) /\ c \in Seq(Element)
      BY <1>0, <3>1, InitCtrlIs, SentIs
    <3>3. WriteCommand(1, 1) \in Element /\ WriteCommand(0, 1) \in Element
      BY <1>0, <3>1, ClearIs, SentIs
    <3> QED
      BY <3>2, <3>3
  <2>6. \A l \in Both : Anew(Run(l, r0)[0])
    BY <1>0, OpeningRuns
  <2>7. \A l \in Both : Run(l, r1) \in Both /\ Anew(Run(l, r1)[1])
    BY <1>0, <2>1, OpeningRuns
  <2>8. \A l \in Both : Anew(l[1]) => Anew(Run(l, r0)[1])
    <3>1. \A l \in Both : \A j \in Used : j # 0 /\ Anew(l[j]) => Anew(Run(l, r0)[j])
      BY <1>0, OpeningRuns
    <3> QED
      BY <2>1, <3>1
  <2> HIDE DEF a, b, c, d, r1, r0, p0, p1
  <2>9. u0 \in Seq(Element) /\ u1 \in Seq(Element) /\ BytesFor(u0, 1)
    BY <2>3, <2>4, ConcatBytes, ConcatProperties
  <2>10. InitBytes = u1 \o u0
    <3>1. a \o b \in Seq(Element)
      BY <2>5, ConcatProperties
    <3>2. ((a \o b) \o c) \o d = (a \o b) \o (c \o d)
      BY <2>5, <3>1, ConcatAssociative, SMTT(30)
    <3> HIDE DEF u0, u1
    <3> QED
      BY <2>1, <2>2, <3>2
  <2>11. u1 \o u0 = p1 \o rest
    <3> HIDE DEF u0
    <3> QED
      BY <2>3, <2>4, <2>9, ConcatAssociative, SMTT(30)
  <2>12. rest \in Seq(Element) /\ BytesFor(rest, 1)
    <3> HIDE DEF u0
    <3> QED
      BY <2>3, <2>9, ConcatBytes, ConcatProperties
  <2>13. \A l \in Both : Anew(Run(l, rest)[1])
    <3> TAKE l \in Both
    <3> DEFINE g == Run(l, r1)
               h == Run(g, p0)
    <3>1. g \in Both /\ Anew(g[1])
      BY <2>7
    <3>2. Run(l, rest) = Run(g, u0) /\ Run(g, u0) = Run(h, r0)
      <4> HIDE DEF g
      <4>1. Run(g, p0 \o r0) = Run(Run(g, p0), r0)
        BY <2>3, <2>4, RunConcat
      <4>2. Run(l, r1 \o u0) = Run(Run(l, r1), u0)
        <5> HIDE DEF u0
        <5> QED
          BY <2>3, <2>9, RunConcat
      <4> QED
        BY <4>1, <4>2 DEF g
    <3> HIDE DEF g
    <3>3. h \in Both /\ h[1] = g[1]
      <4>1. \A i \in 1 .. Len(p0) : p0[i].ctrl # 1
        <5>1. Len(p0) = 1 /\ p0[1].ctrl = 0
          BY <2>3 DEF p0
        <5> QED
          BY <5>1
      <4>2. 1 \in {0, 1}
        OBVIOUS
      <4> QED
        BY <2>4, <3>1, <4>1, <4>2, RunOthers, RunTyped
    <3> HIDE DEF h, rest, u0
    <3> QED
      BY <2>8, <3>1, <3>2, <3>3
  <2> HIDE DEF rest
  <2>14. Starting(InitBytes, 1)
    <3>1. p1 \o rest \in Seq(Element)
      BY <2>4, <2>12, ConcatProperties
    <3>2. InitBytes = <<>> \o (p1 \o rest)
      BY <2>10, <2>11, <3>1, ConcatEmptySeq
    <3> QED
      BY <1>0, <2>12, <2>13, <3>2 DEF Starting, p1
  <2>15. Starting(InitBytes, 0)
    <3>1. InitBytes = u1 \o (p0 \o r0)
      BY <2>10
    <3> HIDE DEF u1, u0
    <3> QED
      BY <2>3, <2>6, <2>9, <3>1 DEF Starting, p0
  <2> QED
    BY <2>1, <2>14, <2>15
<1>2. CASE type # "LCD40x4"
  <2> DEFINE r == Opening(0, 0)
             p == <<Prelude(0)>>
  <2>1. k = 0 /\ InitBytes = InitCtrl(0, 0) \o <<WriteCommand(0, 1)>>
    BY <1>2 DEF Used, InitBytes
  <2>2. InitBytes = p \o r /\ r \in Seq(Element) /\ BytesFor(r, 0) /\ Prelude(0) \in Element
    BY <1>0, <2>1, OpeningIs
  <2>3. \A l \in Both : Anew(Run(l, r)[0])
    BY <1>0, OpeningRuns
  <2> HIDE DEF r
  <2>4. p \o r \in Seq(Element)
    BY <2>2, ConsTail
  <2> HIDE DEF p
  <2>5. InitBytes = <<>> \o (p \o r)
    BY <2>2, <2>4, ConcatEmptySeq
  <2> QED
    BY <1>0, <2>1, <2>2, <2>3, <2>5 DEF Starting, p
<1> QED
  BY <1>1, <1>2

-----------------------------------------------------------------------------
(* What one will see when everything has arrived *)

\* The controllers agree with the driver: the memory that was chosen, one cursor,
\* and the address of a cell.
Settled(l, x, y, mode, cursor) ==
    /\ \A k \in Used : l[k].lines = Chosen
    /\ Shows(l, CtrlOf(type, y), mode, cursor)
    /\ At(l[CtrlOf(type, y)], Address(type, x, y))

AtStart ==
    column = 0 /\ row = 0 /\ ctrl_idx = 0 /\ currentMode = 4 /\ currentCursor = 0

FinalInv ==
    intact => /\ Settled(Final, column, row, currentMode, currentCursor)
              /\ \A k \in Used : Ready(k) \/ (Starting(out, k) /\ AtStart)

\* The panel stays the same one, so that all of this means what it meant.
LEMMA FinalNext ==
    ASSUME type' = type
    PROVE  Final' = Run(lcd', out')
<1>1. Final' = (Run(lcd, out))'
  BY DEF Final, Run, Stages
<1>2. (Run(lcd, out))' = Run(lcd', out')
  BY SMT DEF Run, Stages, After, Execute, Store, Memory
<1> QED
  BY <1>1, <1>2

LEMMA SettledNext ==
    ASSUME type' = type,
           Settled(Final', column', row', currentMode', currentCursor')
    PROVE  (Settled(Final, column, row, currentMode, currentCursor))'
BY DEF Settled, Shows, At, Used, Chosen, CtrlOf, Address, Columns

LEMMA RunNext ==
    ASSUME type' = type, NEW CONSTANT l, NEW CONSTANT r
    PROVE  (Run(l, r))' = Run(l, r)
BY SMT DEF Run, Stages, After, Execute, Store, Memory

LEMMA StartingNext ==
    ASSUME type' = type, NEW CONSTANT k, Starting(out', k)
    PROVE  (Starting(out, k))'
<1>1. PICK s \in Seq(Element), r \in Seq(Element) :
        /\ out' = s \o (<<Prelude(k)>> \o r) /\ BytesFor(r, k)
        /\ \A l \in Both : Anew(Run(l, r)[k])
  BY DEF Starting
<1>2. ASSUME NEW l \in Both PROVE (Anew(Run(l, r)[k]))'
  <2>1. (Run(l, r))' = Run(l, r)
    BY RunNext
  <2>2. Anew(Run(l, r)[k])
    BY <1>1
  <2>3. (Anew(Run(l, r)[k]))'
    BY <2>1, <2>2 DEF Anew, Chosen, At
  <2> QED
    BY <2>3
<1> QED
  BY <1>1, <1>2 DEF Starting

LEMMA FreshSettles ==
    ASSUME NEW l, \A k \in Used : Anew(l[k])
    PROVE  Settled(l, 0, 0, 4, 0)
<1>1. CtrlOf(type, 0) = 0 /\ Address(type, 0, 0) = 0
  BY DEF CtrlOf, Address, Columns
<1>2. 4 + 0 = 4 /\ 0 \in Used
  BY UsedIs
<1> QED
  BY <1>1, <1>2 DEF Settled, Shows, Anew

LEMMA StartRuns ==
    ASSUME NEW l \in Both
    PROVE  /\ Settled(Run(l, InitBytes), 0, 0, 4, 0)
           /\ \A k \in Used : Run(l, InitBytes)[k].text = {}
<1>1. \A k \in Used : Anew(Run(l, InitBytes)[k])
  BY InitStarts, StartingRuns
<1> QED
  BY <1>1, FreshSettles DEF Anew

\* What a settled panel is, in terms of the driver's own controller.
LEMMA SettledIs ==
    ASSUME TypeOK, NEW l, Settled(l, column, row, currentMode, currentCursor)
    PROVE  /\ \A k \in Used : l[k].lines = Chosen
           /\ Shows(l, ctrl_idx, currentMode, currentCursor)
           /\ At(l[ctrl_idx], Here)
BY DEF Settled, TypeOK, Here

\* A call that moves the cursor.
LEMMA GotoSettles ==
    ASSUME TypeOK, NEW l \in Both, \A k \in Used : l[k].lines = Chosen,
           Shows(l, ctrl_idx, currentMode, currentCursor),
           NEW x \in 0 .. Columns(type) - 1, NEW y \in 0 .. Rows(type) - 1
    PROVE  LET g == Run(l, Goto(ctrl_idx, x, y))
           IN  Alike(l, g) /\ Settled(g, x, y, currentMode, currentCursor)
<1> DEFINE g == Run(l, Goto(ctrl_idx, x, y))
<1>1. ctrl_idx \in Used /\ \A k \in Used : k \in {0, 1}
  BY CellIs, UsedIs
<1>2. /\ Alike(l, g) /\ At(g[CtrlOf(type, y)], Address(type, x, y))
      /\ Shows(g, CtrlOf(type, y), currentMode, currentCursor)
  BY <1>1, GotoDoes
<1> HIDE DEF g
<1>3. \A k \in Used : g[k].lines = Chosen
  BY <1>1, <1>2 DEF Alike
<1>4. Settled(g, x, y, currentMode, currentCursor)
  BY <1>2, <1>3 DEF Settled
<1> QED
  BY <1>2, <1>4 DEF g

\* Byte b takes the place of what was at address a, if there is memory.
Replaces(c, g, a, b) ==
    g.text = {p \in c.text : p[1] # a} \cup (IF a \in Memory(c) THEN {<<a, b>>} ELSE {})

\* A character is written, and the cursor moves.
LEMMA PutSettles ==
    ASSUME TypeOK, NEW l \in Both, Settled(l, column, row, currentMode, currentCursor),
           NEW c \in 0 .. 255,
           NEW x \in 0 .. Columns(type) - 1, NEW y \in 0 .. Rows(type) - 1
    PROVE  LET g == Run(l, <<WriteData(ctrl_idx, c)>> \o Goto(ctrl_idx, x, y))
           IN  /\ Settled(g, x, y, currentMode, currentCursor)
               /\ Replaces(l[ctrl_idx], g[ctrl_idx], Here, c)
               /\ \A k \in Used : k # ctrl_idx => g[k].text = l[k].text
<1> DEFINE d == ctrl_idx
           w == WriteData(d, c)
           t == Goto(d, x, y)
           h == After(l, w)
           g == Run(h, t)
           u == l[d]
<1>1. d \in Used /\ d \in {0, 1} /\ \A k \in Used : k \in {0, 1}
  BY CellIs, UsedIs
<1>2. /\ \A k \in Used : l[k].lines = Chosen
      /\ Shows(l, d, currentMode, currentCursor) /\ At(u, Here)
  BY SettledIs
<1>3. Run(l, <<w>> \o t) = g
  <2>1. w \in Element /\ t \in Seq(Element)
    BY <1>1, CommandIs, GotoIs, SentIs
  <2> HIDE DEF w, t
  <2>2. <<w>> \in Seq(Element)
    BY <2>1
  <2>3. Run(l, <<w>> \o t) = Run(Run(l, <<w>>), t)
    BY <2>1, <2>2, RunConcat
  <2> QED
    BY <2>3, RunOne
<1>4. u \in Controller
  BY <1>1 DEF Both
<1>5. Written(u, Execute(u, TRUE, c), c)
  <2> HIDE DEF u
  <2> QED
    BY <1>4, DataDoes
<1>6. h \in Both /\ h[d] = Execute(u, TRUE, c) /\ \A j \in {0, 1} : j # d => h[j] = l[j]
  <2>1. d \in {0, 1} /\ c \in 0 .. 255
    BY <1>1
  <2> HIDE DEF d
  <2> QED
    BY <2>1, DataRuns, Zenon
<1> HIDE DEF h
<1> DEFINE v == h[d]
<1>7. Written(u, v, c) /\ ~u.cg /\ u.address = Here
  BY <1>2, <1>5, <1>6 DEF At
<1> HIDE DEF u, v
<1>8. /\ v.lines = u.lines /\ v.display = u.display
      /\ v.text = {p \in u.text : p[1] # Here}
                     \cup (IF Here \in Memory(u) THEN {<<Here, c>>} ELSE {})
  <2>1. v.lines = u.lines /\ v.display = u.display
    BY <1>7 DEF Written
  <2>2. v.text = IF u.cg THEN u.text
                ELSE {p \in u.text : p[1] # u.address}
                       \cup (IF u.address \in Memory(u) THEN {<<u.address, c>>} ELSE {})
    BY <1>7 DEF Written
  <2> QED
    BY <1>7, <2>1, <2>2
<1>9. (\A k \in Used : h[k].lines = Chosen) /\ Shows(h, d, currentMode, currentCursor)
  <2>1. \A k \in Used : h[k].lines = l[k].lines /\ h[k].display = l[k].display
    BY <1>1, <1>6, <1>8 DEF u, v
  <2> QED
    BY <1>2, <2>1 DEF Shows
<1>10. Alike(h, g) /\ Settled(g, x, y, currentMode, currentCursor)
  BY <1>6, <1>9, GotoSettles
<1> HIDE DEF g
<1>11. g[d].text = v.text /\ \A k \in Used : k # d => g[k].text = l[k].text
  BY <1>1, <1>6, <1>10 DEF Alike, v
<1>12. Replaces(u, g[d], Here, c)
  BY <1>8, <1>11 DEF Replaces
<1> QED
  BY <1>3, <1>10, <1>11, <1>12 DEF u

\* The cursor takes another look.
LEMMA CursorSettles ==
    ASSUME TypeOK, NEW l \in Both, Settled(l, column, row, currentMode, currentCursor),
           NEW cursor \in 0 .. 3
    PROVE  LET g == Run(l, <<Display(ctrl_idx, currentMode, cursor)>>)
           IN  Alike(l, g) /\ Settled(g, column, row, currentMode, cursor)
<1> DEFINE d == ctrl_idx
           e == Display(d, currentMode, cursor)
           g == After(l, e)
<1>1. d \in Used /\ d \in {0, 1} /\ \A k \in Used : k \in {0, 1}
  BY CellIs, UsedIs
<1>2. /\ \A k \in Used : l[k].lines = Chosen
      /\ Shows(l, d, currentMode, currentCursor) /\ At(l[d], Here)
  BY SettledIs
<1>3. currentMode \in {0, 4} /\ d = CtrlOf(type, row)
  BY DEF TypeOK
<1>4. Run(l, <<e>>) = g
  <2> HIDE DEF e
  <2> QED
    BY RunOne
<1>5. /\ g \in Both /\ Alike(l, g) /\ g[d].display = currentMode + cursor
      /\ g[d].address = l[d].address /\ g[d].cg = l[d].cg
      /\ \A j \in {0, 1} : j # d => g[j] = l[j]
  BY <1>1, <1>3, DisplaySets
<1> HIDE DEF g
<1>6. \A k \in Used : g[k].lines = Chosen
  BY <1>1, <1>2, <1>5 DEF Alike
<1>7. Shows(g, d, currentMode, cursor)
  BY <1>1, <1>2, <1>5 DEF Shows
<1>8. At(g[d], Here)
  BY <1>2, <1>5 DEF At
<1>9. Settled(g, column, row, currentMode, cursor)
  BY <1>3, <1>6, <1>7, <1>8 DEF Settled, Here
<1> QED
  BY <1>4, <1>5, <1>9

\* The display is switched on or off.
LEMMA ModeSettles ==
    ASSUME TypeOK, NEW l \in Both, Settled(l, column, row, currentMode, currentCursor),
           NEW mode \in {0, 4}
    PROVE  LET g == Run(l, ModeBytes(ctrl_idx, mode, currentCursor))
           IN  Alike(l, g) /\ Settled(g, column, row, mode, currentCursor)
<1> DEFINE d == ctrl_idx
           g == Run(l, ModeBytes(d, mode, currentCursor))
<1>1. d \in Used /\ d \in {0, 1} /\ \A k \in Used : k \in {0, 1}
  BY CellIs, UsedIs
<1>2. (\A k \in Used : l[k].lines = Chosen) /\ At(l[d], Here)
  BY SettledIs
<1>3. currentCursor \in 0 .. 3 /\ d = CtrlOf(type, row)
  BY DEF TypeOK
<1>4. Alike(l, g) /\ Unmoved(l, g) /\ Shows(g, d, mode, currentCursor)
  BY <1>1, <1>3, ModeRuns
<1> HIDE DEF g
<1>5. (\A k \in Used : g[k].lines = Chosen) /\ At(g[d], Here)
  BY <1>1, <1>2, <1>4 DEF Alike, Unmoved, At
<1>6. Settled(g, column, row, mode, currentCursor)
  BY <1>3, <1>4, <1>5 DEF Settled, Here
<1> QED
  BY <1>4, <1>6 DEF g

\* A character of the user's is loaded into every controller.
LEMMA UdcSettles ==
    ASSUME TypeOK, NEW l \in Both, Settled(l, column, row, currentMode, currentCursor)
    PROVE  LET g == Run(l, IF type = "LCD40x4" THEN UdcBytes(0, 0) \o UdcBytes(1, 0)
                           ELSE UdcBytes(0, 0))
           IN  Alike(l, g) /\ Settled(g, column, row, currentMode, currentCursor)
<1>1. (\A k \in Used : k \in {0, 1}) /\ 0 \in Used /\ ctrl_idx = CtrlOf(type, row)
  BY UsedIs DEF TypeOK
<1>2. /\ \A k \in Used : l[k].lines = Chosen
      /\ Shows(l, ctrl_idx, currentMode, currentCursor)
  BY SettledIs
<1>3. ASSUME NEW q \in Both, NEW k \in Used, \A j \in Used : q[j].lines = Chosen,
             Shows(q, ctrl_idx, currentMode, currentCursor)
      PROVE  LET g == Run(q, UdcBytes(k, 0))
             IN  /\ g \in Both /\ Alike(q, g)
                 /\ Settled(g, column, row, currentMode, currentCursor)
  <2> DEFINE g == Run(q, UdcBytes(k, 0))
  <2>1. /\ g \in Both /\ Alike(q, g) /\ At(g[ctrl_idx], Here)
        /\ Shows(g, ctrl_idx, currentMode, currentCursor)
    BY <1>3, UdcRuns
  <2> HIDE DEF g
  <2>2. \A j \in Used : g[j].lines = Chosen
    BY <1>1, <1>3, <2>1 DEF Alike
  <2>3. Settled(g, column, row, currentMode, currentCursor)
    BY <1>1, <2>1, <2>2 DEF Settled, Here
  <2> QED
    BY <2>1, <2>3 DEF g
<1> DEFINE h == Run(l, UdcBytes(0, 0))
<1>4. h \in Both /\ Alike(l, h) /\ Settled(h, column, row, currentMode, currentCursor)
  BY <1>1, <1>2, <1>3
<1>5. CASE type = "LCD40x4"
  <2> DEFINE g == Run(h, UdcBytes(1, 0))
  <2>1. 1 \in Used
    BY <1>5, UsedIs
  <2>2. Run(l, UdcBytes(0, 0) \o UdcBytes(1, 0)) = g
    <3>1. UdcBytes(0, 0) \in Seq(Element) /\ UdcBytes(1, 0) \in Seq(Element)
      BY <1>1, <2>1, UdcBytesIs, SentIs
    <3> QED
      BY <3>1, RunConcat
  <2> HIDE DEF h
  <2>3. (\A k \in Used : h[k].lines = Chosen) /\ Shows(h, ctrl_idx, currentMode, currentCursor)
    BY <1>4, SettledIs
  <2>4. g \in Both /\ Alike(h, g) /\ Settled(g, column, row, currentMode, currentCursor)
    BY <1>3, <1>4, <2>1, <2>3
  <2> HIDE DEF g
  <2>5. Alike(l, g)
    BY <1>4, <2>4 DEF Alike
  <2> QED
    BY <1>5, <2>2, <2>4, <2>5
<1>6. CASE type # "LCD40x4"
  BY <1>4, <1>6
<1> QED
  BY <1>5, <1>6

\* Everything is cleared.
LEMMA ClearSettles ==
    ASSUME TypeOK, NEW l \in Both, Settled(l, column, row, currentMode, currentCursor)
    PROVE  LET g == Run(l, IF type = "LCD40x4"
                           THEN <<Display(1, currentMode, 0), WriteCommand(1, 1),
                                  WriteCommand(0, 1), Display(0, currentMode, currentCursor)>>
                           ELSE <<WriteCommand(0, 1)>>)
           IN  /\ Settled(g, 0, 0, currentMode, currentCursor)
               /\ \A k \in Used : g[k].text = {}
<1>1. /\ currentMode \in {0, 4} /\ currentCursor \in 0 .. 3 /\ 0 \in 0 .. 3
      /\ currentMode + 0 = currentMode
      /\ 0 \in {0, 1} /\ 1 \in {0, 1} /\ ctrl_idx = CtrlOf(type, row)
  BY DEF TypeOK
<1>2. /\ \A k \in Used : l[k].lines = Chosen
      /\ Shows(l, ctrl_idx, currentMode, currentCursor)
  BY SettledIs
<1>3. CtrlOf(type, 0) = 0 /\ Address(type, 0, 0) = 0
  BY DEF CtrlOf, Address, Columns
<1>4. CASE type = "LCD40x4"
  <2> DEFINE a == Display(1, currentMode, 0)
             b == WriteCommand(1, 1)
             c == WriteCommand(0, 1)
             d == Display(0, currentMode, currentCursor)
             h1 == After(l, a)
             h2 == After(h1, b)
             h3 == After(h2, c)
             g == After(h3, d)
  <2>1. Used = {0, 1}
    BY <1>4 DEF Used
  <2>2. a \in Element /\ b \in Element /\ c \in Element /\ d \in Element
    BY <1>1, <2>1, DisplayIs, ClearIs, SentIs
  <2>3. Run(l, <<a, b, c, d>>) = g
    <3> HIDE DEF a, b, c, d
    <3>1. <<a, b>> \in Seq(Element) /\ <<c, d>> \in Seq(Element)
          /\ <<a, b, c, d>> = <<a, b>> \o <<c, d>>
      BY <2>2
    <3>2. Run(l, <<a, b>> \o <<c, d>>) = Run(Run(l, <<a, b>>), <<c, d>>)
      BY <3>1, RunConcat
    <3>3. Run(l, <<a, b>>) = h2 /\ Run(h2, <<c, d>>) = g
      BY <2>2, RunTwo
    <3> QED
      BY <3>1, <3>2, <3>3
  <2>4. /\ h1 \in Both /\ Alike(l, h1) /\ h1[1].display = currentMode + 0
    BY <1>1, DisplaySets
  <2> HIDE DEF h1
  <2>5. h2 \in Both /\ Cleared(h1[1], h2[1]) /\ \A j \in {0, 1} : j # 1 => h2[j] = h1[j]
    BY <1>1, <2>4, ClearRuns
  <2> HIDE DEF h2
  <2>6. h3 \in Both /\ Cleared(h2[0], h3[0]) /\ \A j \in {0, 1} : j # 0 => h3[j] = h2[j]
    BY <1>1, <2>5, ClearRuns
  <2> HIDE DEF h3
  <2>7. /\ Alike(h3, g) /\ g[0].display = currentMode + currentCursor
        /\ g[0].address = h3[0].address /\ g[0].cg = h3[0].cg
        /\ \A j \in {0, 1} : j # 0 => g[j] = h3[j]
    BY <1>1, <2>6, DisplaySets
  <2> HIDE DEF g
  <2>8. g[1] = h2[1] /\ h2[1].display = h1[1].display /\ h2[1].lines = h1[1].lines /\ h2[1].text = {}
    BY <1>1, <2>5, <2>6, <2>7 DEF Cleared
  <2>9. g[0].text = {} /\ g[0].lines = h2[0].lines /\ At(g[0], 0)
    BY <1>1, <2>6, <2>7 DEF Cleared, Alike, At
  <2>10. h2[0] = h1[0] /\ h1[0].lines = l[0].lines /\ h1[1].lines = l[1].lines
    BY <1>1, <2>4, <2>5 DEF Alike
  <2>11. \A k \in Used : g[k].text = {} /\ g[k].lines = Chosen
    BY <1>2, <2>1, <2>8, <2>9, <2>10
  <2>12. Shows(g, 0, currentMode, currentCursor)
    BY <1>1, <2>1, <2>4, <2>7, <2>8 DEF Shows
  <2>13. Settled(g, 0, 0, currentMode, currentCursor)
    BY <1>3, <2>9, <2>11, <2>12 DEF Settled
  <2> QED
    BY <1>4, <2>3, <2>11, <2>13
<1>5. CASE type # "LCD40x4"
  <2> DEFINE c == WriteCommand(0, 1)
             g == After(l, c)
  <2>1. Used = {0} /\ ctrl_idx = 0
    BY <1>1, <1>5 DEF Used, CtrlOf
  <2>2. Run(l, <<c>>) = g
    <3> HIDE DEF c
    <3> QED
      BY RunOne
  <2>3. g \in Both /\ Cleared(l[0], g[0])
    BY <1>1, ClearRuns
  <2> HIDE DEF g
  <2>4. g[0].text = {} /\ g[0].lines = l[0].lines /\ At(g[0], 0) /\ g[0].display = l[0].display
    BY <2>3 DEF Cleared
  <2>5. Settled(g, 0, 0, currentMode, currentCursor)
    BY <1>2, <1>3, <2>1, <2>4 DEF Settled, Shows
  <2> QED
    BY <1>5, <2>1, <2>2, <2>4, <2>5
<1> QED
  BY <1>4, <1>5

SameText(l, g) == \A k \in Used : g[k].text = l[k].text

LEMMA InitFinal == Init => FinalInv
<1> SUFFICES ASSUME Init PROVE FinalInv
  OBVIOUS
<1>1. lcd \in Both /\ out = InitBytes /\ AtStart
  BY DEF Init, Started, Both, AtStart
<1>2. Settled(Final, column, row, currentMode, currentCursor)
  BY <1>1, FinalIs, StartRuns DEF AtStart
<1> QED
  BY <1>1, <1>2, InitStarts DEF FinalInv

LEMMA StartFinal ==
    ASSUME TypeOK, Start
    PROVE  /\ FinalInv' /\ intact' /\ \A k \in Used : Final'[k].text = {}
<1>1. /\ lcd' \in Both /\ out' = InitBytes /\ AtStart' /\ type' = type /\ intact' = TRUE
  BY DEF Start, Again, Both, AtStart
<1>2. Final' = Run(lcd', InitBytes)
  BY <1>1, FinalNext
<1>3. Settled(Final', column', row', currentMode', currentCursor')
      /\ \A k \in Used : Final'[k].text = {}
  BY <1>1, <1>2, StartRuns DEF AtStart
<1>4. (Settled(Final, column, row, currentMode, currentCursor))'
  BY <1>1, <1>3, SettledNext
<1>5. Used' = Used
  BY <1>1 DEF Used
<1>6. \A k \in Used : (Starting(out, k))'
  BY <1>1, InitStarts, StartingNext
<1>7. FinalInv'
  BY <1>1, <1>4, <1>5, <1>6 DEF FinalInv
<1> QED
  BY <1>1, <1>3, <1>7

\* A step that sends nothing new, be it that a byte arrives or that a controller
\* without its prelude takes noise for one, changes nothing of what one will see.
LEMMA CarriedFinal ==
    ASSUME TypeOK, FinalInv, intact, Deliver \/ Noise
    PROVE  FinalInv' /\ SameText(Final, Final')
<1> DEFINE g == Run(lcd, out)
           h == Run(lcd', out')
           Rest(k) == \A l \in Both : Anew(Run(l, out')[k])
           Kept(k) == h[k] = g[k] /\ BytesFor(out', k)
           Restarted(k) == /\ Anew(g[k]) /\ Anew(h[k]) /\ AtStart
                           /\ BytesFor(out', k) \/ Starting(out', k)
<1>1. /\ type' = type /\ intact' = intact /\ column' = column /\ row' = row
      /\ ctrl_idx' = ctrl_idx /\ currentMode' = currentMode /\ currentCursor' = currentCursor
      /\ lcd' \in Both
  BY DEF Deliver, Noise, driver, Both
<1>2. /\ lcd \in Both /\ out \in Seq(Element) /\ \A k \in Used : k \in {0, 1}
  BY UsedIs DEF TypeOK, Both, Element
<1>3. Final = g /\ Final' = h
  BY <1>1, FinalIs, FinalNext
<1>4. ASSUME NEW k \in Used PROVE Kept(k) \/ Restarted(k)
  <2>1. CASE Ready(k) /\ Noise
    <3>1. out' = out /\ lcd'[k] = lcd[k]
      BY <1>2, <2>1 DEF Noise
    <3>2. h[k] = g[k]
      BY <1>1, <1>2, <3>1, RunApart
    <3>3. BytesFor(out', k)
      BY <2>1, <3>1 DEF Ready, BytesFor
    <3> QED
      BY <3>2, <3>3
  <2>2. CASE Ready(k) /\ Deliver
    <3> DEFINE m == After(lcd, Head(out))
    <3>1. out # <<>> /\ out' = Tail(out) /\ lcd'[k] = m[k]
      BY <1>2, <2>2 DEF Deliver
    <3>2. Head(out) \in Element /\ Tail(out) \in Seq(Element)
      BY <1>2, <3>1, HeadTailProperties
    <3>3. m \in Both
      BY <1>2, <3>2, AfterIs
    <3>4. g = Run(m, Tail(out))
      BY <1>2, <3>1, RunHead
    <3> HIDE DEF m
    <3>5. h[k] = Run(m, Tail(out))[k]
      BY <1>1, <1>2, <3>1, <3>2, <3>3, RunApart
    <3>6. BytesFor(out', k)
      <4>1. /\ Len(out) \in Nat /\ Len(out) >= 1 /\ DOMAIN out = 1 .. Len(out)
            /\ DOMAIN out' = 1 .. Len(out) - 1
            /\ \A i \in 1 .. Len(out) - 1 : out'[i] = out[i + 1]
        BY <1>2, <3>1, HeadTailProperties
      <4>2. \A i \in 1 .. Len(out) - 1 : i + 1 \in DOMAIN out
        BY <4>1
      <4> QED
        BY <2>2, <4>1, <4>2 DEF Ready, BytesFor
    <3> QED
      BY <3>4, <3>5, <3>6
  <2>3. CASE ~Ready(k)
    <3>1. Starting(out, k) /\ AtStart
      BY <2>3 DEF FinalInv
    <3>2. Anew(g[k])
      BY <1>2, <3>1, StartingRuns
    <3>3. out' = out \/ out' = Tail(out)
      BY DEF Deliver, Noise
    <3>4. Starting(out', k) \/ (BytesFor(out', k) /\ Rest(k))
      BY <3>1, <3>3, StartingTail
    <3>5. Anew(h[k])
      <4>1. CASE Starting(out', k)
        BY <1>1, <4>1, StartingRuns
      <4>2. CASE Rest(k)
        BY <1>1, <4>2
      <4> QED
        BY <3>4, <4>1, <4>2
    <3> QED
      BY <3>1, <3>2, <3>4, <3>5
  <2> QED
    BY <2>1, <2>2, <2>3
<1>5. /\ \A k \in Used : g[k].lines = Chosen
      /\ Shows(g, CtrlOf(type, row), currentMode, currentCursor)
      /\ At(g[CtrlOf(type, row)], Here)
  BY <1>3 DEF FinalInv, Settled, Here
<1> HIDE DEF g, h
<1>6. \A k \in Used : h[k].lines = Chosen /\ h[k].text = g[k].text
                      /\ h[k].display = g[k].display
  BY <1>4, <1>5 DEF Anew
<1>7. At(h[CtrlOf(type, row)], Here)
  <2> DEFINE k == CtrlOf(type, row)
  <2>1. k \in Used
    BY UsedIs
  <2>2. CASE Kept(k)
    BY <1>5, <2>2 DEF At
  <2>3. CASE Restarted(k)
    <3>1. Here = 0
      BY <2>3 DEF AtStart, Here, Address, Columns
    <3> QED
      BY <2>3, <3>1 DEF Anew
  <2> QED
    BY <1>4, <2>1, <2>2, <2>3
<1>8. Settled(h, column, row, currentMode, currentCursor)
  BY <1>5, <1>6, <1>7 DEF Settled, Shows, Here
<1>9. (Settled(Final, column, row, currentMode, currentCursor))'
  BY <1>1, <1>3, <1>8, SettledNext
<1>10. \A k \in Used : Ready(k)' \/ ((Starting(out, k))' /\ AtStart')
  <2> TAKE k \in Used
  <2>1. BytesFor(out', k) \/ (Starting(out', k) /\ AtStart)
    BY <1>4
  <2>2. BytesFor(out', k) => Ready(k)'
    BY DEF Ready, BytesFor
  <2>3. Starting(out', k) => (Starting(out, k))'
    BY <1>1, StartingNext
  <2>4. AtStart => AtStart'
    BY <1>1 DEF AtStart
  <2> QED
    BY <2>1, <2>2, <2>3, <2>4
<1>11. Used' = Used
  BY <1>1 DEF Used
<1>12. FinalInv'
  BY <1>9, <1>10, <1>11 DEF FinalInv
<1> QED
  BY <1>3, <1>6, <1>12 DEF SameText

\* Before a call everything has arrived.
LEMMA IdleFinal ==
    ASSUME TypeOK, FinalInv, intact, out = <<>>
    PROVE  /\ Final = lcd /\ lcd \in Both
           /\ Settled(lcd, column, row, currentMode, currentCursor)
<1>1. Final = lcd
  BY FinalIs, RunNil
<1> QED
  BY <1>1 DEF FinalInv, TypeOK, Both

\* After it the panel is what its bytes make of it.
LEMMA CallFinal ==
    ASSUME TypeOK, Call, out' \in Seq(Text),
           Settled(Run(lcd, out'), column', row', currentMode', currentCursor')
    PROVE  Final' = Run(lcd, out') /\ FinalInv'
<1>1. type' = type /\ lcd' = lcd
  BY DEF Call
<1>2. Final' = Run(lcd, out')
  BY <1>1, FinalNext
<1>3. (Settled(Final, column, row, currentMode, currentCursor))'
  BY <1>1, <1>2, SettledNext
<1>4. \A k : Ready(k)'
  BY TextBytes DEF Ready, BytesFor
<1> QED
  BY <1>2, <1>3, <1>4 DEF FinalInv

\* A call that moves the cursor writes nothing.
LEMMA MoveDoes ==
    ASSUME TypeOK, FinalInv, intact,
           NEW x \in 0 .. Columns(type) - 1, NEW y \in 0 .. Rows(type) - 1, MoveTo(x, y, <<>>)
    PROVE  FinalInv' /\ SameText(Final, Final')
<1> DEFINE t == Goto(ctrl_idx, x, y)
           g == Run(lcd, t)
<1>1. out = <<>> /\ Call /\ column' = x /\ row' = y /\ UNCHANGED <<currentMode, currentCursor>>
      /\ out' = <<>> \o t
  BY DEF MoveTo, Call, Turn
<1>2. t \in Seq(Text)
  BY GotoIs, CellIs
<1>3. Final = lcd /\ lcd \in Both /\ Settled(lcd, column, row, currentMode, currentCursor)
  BY <1>1, IdleFinal
<1>4. (\A k \in Used : lcd[k].lines = Chosen) /\ Shows(lcd, ctrl_idx, currentMode, currentCursor)
  BY <1>3, SettledIs
<1>5. Alike(lcd, g) /\ Settled(g, x, y, currentMode, currentCursor)
  BY <1>3, <1>4, GotoSettles
<1> HIDE DEF t
<1>6. out' = t
  BY <1>1, <1>2, ConcatEmptySeq
<1>7. Final' = g /\ FinalInv'
  <2>1. Settled(Run(lcd, out'), column', row', currentMode', currentCursor')
    BY <1>1, <1>5, <1>6
  <2> QED
    BY <1>1, <1>2, <1>6, <2>1, CallFinal
<1> HIDE DEF g
<1>8. SameText(lcd, g)
  BY <1>5, UsedIs DEF SameText, Alike
<1> QED
  BY <1>3, <1>7, <1>8

\* What a character does: it replaces what was at the address.
LEMMA PutDoes ==
    ASSUME TypeOK, FinalInv, intact, NEW c \in Chars, Putc(c)
    PROVE  /\ FinalInv'
           /\ Final[ctrl_idx] \in Controller /\ Final[ctrl_idx].lines = Chosen
           /\ Replaces(Final[ctrl_idx], Final'[ctrl_idx], Here, c)
           /\ \A k \in Used : k # ctrl_idx => Final'[k].text = Final[k].text
<1> DEFINE end == column + 1 >= Columns(type)
           x == IF end THEN 0 ELSE column + 1
           y == IF end THEN NextRow ELSE row
           w == <<WriteData(ctrl_idx, c)>>
           t == Goto(ctrl_idx, x, y)
           g == Run(lcd, w \o t)
<1>1. x \in 0 .. Columns(type) - 1 /\ y \in 0 .. Rows(type) - 1
  BY CellIs
<1>2. MoveTo(x, y, w)
  BY Zenon DEF Putc
<1>3. c \in 0 .. 255 /\ ctrl_idx \in Used /\ ctrl_idx \in {0, 1}
  BY CellIs, LcdConstants
<1> HIDE DEF x, y
<1>4. w \in Seq(Text)
  <2>1. WriteData(ctrl_idx, c) \in Text
    BY <1>3, DataSent, SMTT(30)
  <2> QED
    BY <2>1
<1>5. t \in Seq(Text)
  BY <1>1, <1>3, GotoIs
<1>6. out = <<>> /\ Call /\ column' = x /\ row' = y /\ UNCHANGED <<currentMode, currentCursor>>
      /\ out' = w \o t
  BY <1>2 DEF MoveTo, Call, Turn
<1>7. Final = lcd /\ lcd \in Both /\ Settled(lcd, column, row, currentMode, currentCursor)
  BY <1>6, IdleFinal
<1>8. /\ Settled(g, x, y, currentMode, currentCursor)
      /\ Replaces(lcd[ctrl_idx], g[ctrl_idx], Here, c)
      /\ \A k \in Used : k # ctrl_idx => g[k].text = lcd[k].text
  BY <1>1, <1>3, <1>7, PutSettles
<1> HIDE DEF w, t
<1>9. out' \in Seq(Text)
  BY <1>4, <1>5, <1>6, ConcatProperties
<1>10. Final' = g /\ FinalInv'
  <2>1. Settled(Run(lcd, out'), column', row', currentMode', currentCursor')
    BY <1>6, <1>8
  <2>2. Final' = Run(lcd, out') /\ FinalInv'
    BY <1>6, <1>9, <2>1, CallFinal
  <2> QED
    BY <1>6, <2>2
<1>11. lcd[ctrl_idx] \in Controller /\ lcd[ctrl_idx].lines = Chosen
  BY <1>3, <1>7 DEF Both, Settled
<1> HIDE DEF g
<1> QED
  BY <1>7, <1>8, <1>10, <1>11

LEMMA ClearDone ==
    ASSUME TypeOK, FinalInv, intact, Cls
    PROVE  FinalInv' /\ \A k \in Used : Final'[k].text = {}
<1> DEFINE t == IF type = "LCD40x4"
                THEN <<Display(1, currentMode, 0), WriteCommand(1, 1),
                       WriteCommand(0, 1), Display(0, currentMode, currentCursor)>>
                ELSE <<WriteCommand(0, 1)>>
           g == Run(lcd, t)
<1>1. out = <<>> /\ Call /\ column' = 0 /\ row' = 0 /\ UNCHANGED <<currentMode, currentCursor>>
      /\ out' = t
  BY DEF Cls, Call, Turn
<1>2. out' \in Seq(Text)
  BY CallSends DEF AnyCall
<1>3. Final = lcd /\ lcd \in Both /\ Settled(lcd, column, row, currentMode, currentCursor)
  BY <1>1, IdleFinal
<1>4. Settled(g, 0, 0, currentMode, currentCursor) /\ \A k \in Used : g[k].text = {}
  BY <1>3, ClearSettles
<1> HIDE DEF t
<1>5. Settled(Run(lcd, out'), column', row', currentMode', currentCursor')
  BY <1>1, <1>4
<1>6. Final' = Run(lcd, out') /\ FinalInv'
  BY <1>1, <1>2, <1>5, CallFinal
<1> QED
  BY <1>1, <1>4, <1>6

LEMMA CursorDoes ==
    ASSUME TypeOK, FinalInv, intact, NEW cursor \in Cursors, SetCursor(cursor)
    PROVE  FinalInv' /\ SameText(Final, Final')
<1> DEFINE t == <<Display(ctrl_idx, currentMode, cursor)>>
           g == Run(lcd, t)
<1>1. out = <<>> /\ Call /\ UNCHANGED <<column, row, currentMode>> /\ currentCursor' = cursor
      /\ out' = t
  BY DEF SetCursor, Call, Turn
<1>2. out' \in Seq(Text)
  BY CallSends DEF AnyCall
<1>3. Final = lcd /\ lcd \in Both /\ Settled(lcd, column, row, currentMode, currentCursor)
  BY <1>1, IdleFinal
<1>4. Alike(lcd, g) /\ Settled(g, column, row, currentMode, cursor)
  BY <1>3, CursorSettles, LcdConstants
<1> HIDE DEF t
<1>5. Settled(Run(lcd, out'), column', row', currentMode', currentCursor')
  BY <1>1, <1>4
<1>6. Final' = Run(lcd, out') /\ FinalInv'
  BY <1>1, <1>2, <1>5, CallFinal
<1>7. SameText(lcd, g)
  BY <1>4, UsedIs DEF SameText, Alike
<1> QED
  BY <1>1, <1>3, <1>6, <1>7

LEMMA ModeDoes ==
    ASSUME TypeOK, FinalInv, intact, NEW mode \in {0, 4}, SetMode(mode)
    PROVE  FinalInv' /\ SameText(Final, Final')
<1> DEFINE t == ModeBytes(ctrl_idx, mode, currentCursor)
           g == Run(lcd, t)
<1>1. out = <<>> /\ Call /\ UNCHANGED <<column, row, currentCursor>> /\ currentMode' = mode
      /\ out' = t
  BY DEF SetMode, Call, Turn
<1>2. out' \in Seq(Text)
  BY CallSends DEF AnyCall
<1>3. Final = lcd /\ lcd \in Both /\ Settled(lcd, column, row, currentMode, currentCursor)
  BY <1>1, IdleFinal
<1>4. Alike(lcd, g) /\ Settled(g, column, row, mode, currentCursor)
  BY <1>3, ModeSettles
<1> HIDE DEF t
<1>5. Settled(Run(lcd, out'), column', row', currentMode', currentCursor')
  BY <1>1, <1>4
<1>6. Final' = Run(lcd, out') /\ FinalInv'
  BY <1>1, <1>2, <1>5, CallFinal
<1>7. SameText(lcd, g)
  BY <1>4, UsedIs DEF SameText, Alike
<1> QED
  BY <1>1, <1>3, <1>6, <1>7

LEMMA PatternDone ==
    ASSUME TypeOK, FinalInv, intact, SetUDC(0)
    PROVE  FinalInv' /\ SameText(Final, Final')
<1> DEFINE t == IF type = "LCD40x4" THEN UdcBytes(0, 0) \o UdcBytes(1, 0)
                ELSE UdcBytes(0, 0)
           g == Run(lcd, t)
<1>1. out = <<>> /\ Call /\ UNCHANGED <<column, row, currentMode, currentCursor>>
      /\ out' = t
  BY DEF SetUDC, Call, Turn
<1>2. out' \in Seq(Text)
  BY CallSends DEF AnyCall
<1>3. Final = lcd /\ lcd \in Both /\ Settled(lcd, column, row, currentMode, currentCursor)
  BY <1>1, IdleFinal
<1>4. Alike(lcd, g) /\ Settled(g, column, row, currentMode, currentCursor)
  BY <1>3, UdcSettles
<1> HIDE DEF t
<1>5. Settled(Run(lcd, out'), column', row', currentMode', currentCursor')
  BY <1>1, <1>4
<1>6. Final' = Run(lcd, out') /\ FinalInv'
  BY <1>1, <1>2, <1>5, CallFinal
<1>7. SameText(lcd, g)
  BY <1>4, UsedIs DEF SameText, Alike
<1> QED
  BY <1>1, <1>3, <1>6, <1>7

\* A call that sends nothing.
LEMMA LightDoes ==
    ASSUME TypeOK, FinalInv, type' = type, UNCHANGED <<driver, out, lcd, intact>>
    PROVE  FinalInv' /\ Final' = Final
<1>1. Final' = Final
  BY FinalNext, FinalIs DEF driver
<1>2. ASSUME intact PROVE (Settled(Final, column, row, currentMode, currentCursor))'
  BY <1>1, <1>2, SettledNext DEF FinalInv, driver
<1>3. ASSUME intact, NEW k \in Used PROVE Ready(k)' \/ ((Starting(out, k))' /\ AtStart')
  <2>1. Ready(k) => Ready(k)'
    BY DEF Ready
  <2>2. Starting(out, k) => (Starting(out, k))'
    BY StartingNext
  <2>3. AtStart => AtStart'
    BY DEF AtStart, driver
  <2> QED
    BY <1>3, <2>1, <2>2, <2>3 DEF FinalInv
<1>4. Used' = Used
  BY DEF Used
<1> QED
  BY <1>1, <1>2, <1>3, <1>4 DEF FinalInv

-----------------------------------------------------------------------------
(* From the memory of the controllers to what one sees *)

LEMMA CellsAre ==
    ASSUME type \in LCDTypes, NEW k \in {0, 1}, NEW a \in 0 .. 127
    PROVE  CellsAt[type][k][a]
              = {p \in Cells(type) : CtrlOf(type, p[2]) = k /\ Address(type, p[1], p[2]) = a}
BY Zenon DEF CellsAt

\* Each cell has an address of its own.
LEMMA CellAlone ==
    ASSUME type \in LCDTypes,
           NEW x \in 0 .. Columns(type) - 1, NEW y \in 0 .. Rows(type) - 1
    PROVE  CellsAt[type][CtrlOf(type, y)][Address(type, x, y)] = {<<x, y>>}
<1> DEFINE k == CtrlOf(type, y)
           a == Address(type, x, y)
           q == <<x, y>>
           C == {p \in Cells(type) : CtrlOf(type, p[2]) = k /\ Address(type, p[1], p[2]) = a}
<1>1. type \in AllTypes /\ k \in {0, 1}
  BY LcdConstants, UsedIs
<1>2. a \in 0 .. 127
  BY <1>1, AddressRange
<1>3. CellsAt[type][k][a] = C
  <2> HIDE DEF k, a
  <2> QED
    BY <1>1, <1>2, CellsAre
<1>4. q \in Cells(type) /\ q[1] = x /\ q[2] = y
  BY DEF Cells
<1>5. q \in C
  BY <1>4
<1>6. ASSUME NEW p \in C PROVE p = q
  <2>1. /\ p \in Cells(type) /\ CtrlOf(type, p[2]) = CtrlOf(type, q[2])
        /\ Address(type, p[1], p[2]) = Address(type, q[1], q[2])
    BY <1>4
  <2> HIDE DEF q, C
  <2> QED
    BY <1>1, <1>4, <2>1, CellsApart
<1> HIDE DEF C, q
<1>7. C = {q}
  BY <1>5, <1>6
<1> QED
  BY <1>3, <1>7 DEF q

Texts(l) == UNION {Characters(k, l[k]) : k \in Used}

\* Cell <<x, y>> shows b.
Holds(l, x, y, b) == <<Address(type, x, y), b>> \in l[CtrlOf(type, y)].text

LEMMA TextsHas ==
    ASSUME type \in LCDTypes, NEW l \in Both, NEW z
    PROVE  z \in Texts(l) <=>
             \E x \in 0 .. Columns(type) - 1, y \in 0 .. Rows(type) - 1, b \in 0 .. 255 :
                z = <<x, y, b>> /\ Holds(l, x, y, b)
<1>1. ASSUME NEW k \in Used
      PROVE  /\ k \in {0, 1} /\ l[k] \in Controller
             /\ \A e \in l[k].text : e[1] \in 0 .. 127 /\ e[2] \in 0 .. 255 /\ e = <<e[1], e[2]>>
  <2>1. k \in {0, 1}
    BY UsedIs
  <2>2. l[k] \in Controller
    BY <2>1 DEF Both
  <2>3. l[k].text \subseteq (0 .. 127) \X (0 .. 255)
    BY <2>2 DEF Controller
  <2> QED
    BY <2>1, <2>2, <2>3
<1>2. ASSUME z \in Texts(l)
      PROVE  \E x \in 0 .. Columns(type) - 1, y \in 0 .. Rows(type) - 1, b \in 0 .. 255 :
                z = <<x, y, b>> /\ Holds(l, x, y, b)
  <2>1. PICK k \in Used : z \in Characters(k, l[k])
    BY <1>2 DEF Texts
  <2>2. PICK e \in l[k].text : z \in {<<p[1], p[2], e[2]>> : p \in CellsAt[type][k][e[1]]}
    BY <2>1 DEF Characters
  <2>3. PICK p \in CellsAt[type][k][e[1]] : z = <<p[1], p[2], e[2]>>
    BY <2>2
  <2>4. k \in {0, 1} /\ e[1] \in 0 .. 127 /\ e[2] \in 0 .. 255 /\ e = <<e[1], e[2]>>
    BY <1>1
  <2>5. p \in Cells(type) /\ CtrlOf(type, p[2]) = k /\ Address(type, p[1], p[2]) = e[1]
    <3> DEFINE a == e[1]
    <3>1. a \in 0 .. 127 /\ p \in CellsAt[type][k][a]
      BY <2>3, <2>4, SMTT(30)
    <3> HIDE DEF a
    <3>2. p \in {r \in Cells(type) : CtrlOf(type, r[2]) = k /\ Address(type, r[1], r[2]) = a}
      BY <2>4, <3>1, CellsAre
    <3> QED
      BY <3>2 DEF a
  <2>6. p[1] \in 0 .. Columns(type) - 1 /\ p[2] \in 0 .. Rows(type) - 1
    BY <2>5 DEF Cells
  <2>7. Holds(l, p[1], p[2], e[2])
    BY <2>4, <2>5 DEF Holds
  <2> QED
    BY <2>3, <2>4, <2>6, <2>7
<1>3. ASSUME NEW x \in 0 .. Columns(type) - 1, NEW y \in 0 .. Rows(type) - 1,
             NEW b \in 0 .. 255, z = <<x, y, b>>, Holds(l, x, y, b)
      PROVE  z \in Texts(l)
  <2> DEFINE k == CtrlOf(type, y)
             e == <<Address(type, x, y), b>>
             p == <<x, y>>
  <2>1. k \in Used /\ e \in l[k].text
    BY <1>3, UsedIs DEF Holds
  <2>2. p \in CellsAt[type][k][e[1]]
    BY CellAlone
  <2>3. z = <<p[1], p[2], e[2]>>
    BY <1>3
  <2> HIDE DEF k, e, p
  <2>4. z \in Characters(k, l[k])
    BY <2>1, <2>2, <2>3 DEF Characters
  <2> QED
    BY <2>1, <2>4 DEF Texts
<1> QED
  BY <1>2, <1>3

LEMMA TextsSame ==
    ASSUME NEW l, NEW g, SameText(l, g)
    PROVE  Texts(g) = Texts(l)
<1>1. \A k \in Used : Characters(k, g[k]) = Characters(k, l[k])
  BY DEF SameText, Characters
<1> QED
  BY <1>1 DEF Texts

LEMMA TextsEmpty ==
    ASSUME NEW l, \A k \in Used : l[k].text = {}
    PROVE  Texts(l) = {}
<1>1. \A k \in Used : Characters(k, l[k]) = {}
  BY DEF Characters
<1> QED
  BY <1>1 DEF Texts

\* Text u is text t with c in cell <<x, y>>.
Overwrites(t, u, x, y, c) ==
    u = {p \in t : <<p[1], p[2]>> # <<x, y>>} \cup {<<x, y, c>>}

\* A character that is stored appears in its cell, and nothing else changes.
LEMMA TextsPut ==
    ASSUME type \in LCDTypes, NEW l \in Both, NEW g \in Both,
           NEW x \in 0 .. Columns(type) - 1, NEW y \in 0 .. Rows(type) - 1,
           NEW c \in 0 .. 255,
           Replaces(l[CtrlOf(type, y)], g[CtrlOf(type, y)], Address(type, x, y), c),
           Address(type, x, y) \in Memory(l[CtrlOf(type, y)]),
           \A k \in Used : k # CtrlOf(type, y) => g[k].text = l[k].text
    PROVE  Overwrites(Texts(l), Texts(g), x, y, c)
<1> DEFINE d == CtrlOf(type, y)
           a == Address(type, x, y)
<1>1. g[d].text = {p \in l[d].text : p[1] # a} \cup {<<a, c>>}
  BY DEF Replaces
<1>2. type \in AllTypes
  BY LcdConstants
<1>3. ASSUME NEW u \in 0 .. Columns(type) - 1, NEW v \in 0 .. Rows(type) - 1, NEW b \in 0 .. 255
      PROVE  Holds(g, u, v, b) <=> \/ Holds(l, u, v, b) /\ <<u, v>> # <<x, y>>
                                   \/ <<u, v>> = <<x, y>> /\ b = c
  <2> DEFINE j == CtrlOf(type, v)
             o == Address(type, u, v)
  <2>1. CASE <<u, v>> = <<x, y>>
    <3>1. j = d /\ o = a
      BY <2>1
    <3>2. <<a, b>> \in g[d].text <=> b = c
      <4> HIDE DEF d, a
      <4>1. <<a, b>>[1] = a
        OBVIOUS
      <4> QED
        BY <1>1, <4>1
    <3> QED
      BY <2>1, <3>1, <3>2 DEF Holds
  <2>2. CASE <<u, v>> # <<x, y>>
    <3>1. j # d \/ o # a
      <4> DEFINE p == <<u, v>>
                 q == <<x, y>>
      <4>1. p \in Cells(type) /\ q \in Cells(type) /\ p # q
            /\ p[1] = u /\ p[2] = v /\ q[1] = x /\ q[2] = y
        BY <2>2 DEF Cells
      <4> HIDE DEF p, q
      <4> QED
        BY <1>2, <4>1, CellsApart
    <3>2. CASE j # d
      <4>1. g[j].text = l[j].text
        BY <3>2, UsedIs
      <4> QED
        BY <2>2, <4>1 DEF Holds
    <3>3. CASE j = d /\ o # a
      <4>1. <<o, b>> \in g[d].text <=> <<o, b>> \in l[d].text
        <5> HIDE DEF d, a, o
        <5>1. <<o, b>>[1] = o /\ <<o, b>> # <<a, c>>
          BY <3>3
        <5> QED
          BY <1>1, <3>3, <5>1
      <4> QED
        BY <2>2, <3>3, <4>1 DEF Holds
    <3> QED
      BY <3>1, <3>2, <3>3
  <2> QED
    BY <2>1, <2>2
<1> DEFINE T == {p \in Texts(l) : <<p[1], p[2]>> # <<x, y>>} \cup {<<x, y, c>>}
<1>4. ASSUME NEW z, z \in Texts(g) PROVE z \in T
  <2>1. PICK u \in 0 .. Columns(type) - 1, v \in 0 .. Rows(type) - 1, b \in 0 .. 255 :
           z = <<u, v, b>> /\ Holds(g, u, v, b)
    BY <1>4, TextsHas
  <2>2. CASE <<u, v>> = <<x, y>>
    <3>1. b = c /\ u = x /\ v = y
      BY <1>3, <2>1, <2>2
    <3> QED
      BY <2>1, <3>1
  <2>3. CASE <<u, v>> # <<x, y>>
    <3>1. Holds(l, u, v, b)
      BY <1>3, <2>1, <2>3
    <3>2. z \in Texts(l)
      BY <2>1, <3>1, TextsHas
    <3>3. z[1] = u /\ z[2] = v
      BY <2>1
    <3> QED
      BY <2>3, <3>2, <3>3
  <2> QED
    BY <2>2, <2>3
<1>5. ASSUME NEW z \in T PROVE z \in Texts(g)
  <2>1. CASE z = <<x, y, c>>
    <3>1. Holds(g, x, y, c)
      BY <1>3
    <3> QED
      BY <2>1, <3>1, TextsHas
  <2>2. CASE z \in Texts(l) /\ <<z[1], z[2]>> # <<x, y>>
    <3>1. PICK u \in 0 .. Columns(type) - 1, v \in 0 .. Rows(type) - 1, b \in 0 .. 255 :
             z = <<u, v, b>> /\ Holds(l, u, v, b)
      BY <2>2, TextsHas
    <3>2. <<u, v>> # <<x, y>>
      BY <2>2, <3>1
    <3>3. Holds(g, u, v, b)
      BY <1>3, <3>1, <3>2
    <3> QED
      BY <3>1, <3>3, TextsHas
  <2> QED
    BY <2>1, <2>2
<1> HIDE DEF T
<1>6. Texts(g) = T
  BY <1>4, <1>5
<1> QED
  BY <1>6 DEF T, Overwrites

\* A settled panel shows one cursor, where the driver thinks it is.
Marks(x, y, cursor) == IF cursor = 0 THEN {} ELSE {<<x, y, cursor>>}

LEMMA SettledShows ==
    ASSUME type \in LCDTypes, NEW l,
           NEW x \in 0 .. Columns(type) - 1, NEW y \in 0 .. Rows(type) - 1,
           NEW mode \in {0, 4}, NEW cursor \in 0 .. 3, Settled(l, x, y, mode, cursor)
    PROVE  /\ UNION {CursorsOf(k, l[k]) : k \in Used} = Marks(x, y, cursor)
           /\ (\A k \in Used : l[k].display >= 4) <=> mode = 4
<1> DEFINE d == CtrlOf(type, y)
<1>1. /\ d \in Used /\ l[d].display = mode + cursor /\ l[d].address = Address(type, x, y)
      /\ \A k \in Used : k # d => l[k].display = mode
  BY UsedIs DEF Settled, Shows, At
<1>2. mode % 4 = 0 /\ (mode + cursor) % 4 = cursor
      /\ (mode >= 4 <=> mode = 4) /\ (mode + cursor >= 4 <=> mode = 4)
  OBVIOUS
<1>3. (\A k \in Used : l[k].display >= 4) <=> mode = 4
  <2> HIDE DEF d
  <2>1. \A k \in Used : l[k].display >= 4 <=> mode = 4
    BY <1>1, <1>2
  <2> QED
    BY <1>1, <2>1
<1>4. \A k \in Used : k # d => CursorsOf(k, l[k]) = {}
  BY <1>1, <1>2 DEF CursorsOf
<1>5. CursorsOf(d, l[d]) = Marks(x, y, cursor)
  <2>1. CASE cursor = 0
    BY <1>1, <1>2, <2>1 DEF CursorsOf, Marks
  <2>2. CASE cursor # 0
    <3> DEFINE C == CellsAt[type][d][l[d].address]
    <3>1. C = {<<x, y>>}
      BY <1>1, CellAlone
    <3>2. CursorsOf(d, l[d]) = {<<p[1], p[2], cursor>> : p \in C}
      <4> HIDE DEF C
      <4>1. l[d].display % 4 = cursor
        BY <1>1, <1>2
      <4>2. CursorsOf(d, l[d]) = {<<p[1], p[2], l[d].display % 4>> : p \in C}
        BY <2>2, <4>1 DEF CursorsOf, C
      <4> QED
        BY <4>1, <4>2
    <3> HIDE DEF C
    <3>3. {<<p[1], p[2], cursor>> : p \in C} = {<<x, y, cursor>>}
      BY <3>1
    <3> QED
      BY <2>2, <3>2, <3>3 DEF Marks
  <2> QED
    BY <2>1, <2>2
<1> HIDE DEF d
<1> QED
  BY <1>1, <1>3, <1>4, <1>5

Picture == [characters |-> Texts(Final),
            cursors    |-> Marks(column, row, currentCursor),
            lit        |-> currentMode = 4]

LEMMA ViewIs == TypeOK /\ FinalInv /\ intact => View = Picture
<1> SUFFICES ASSUME TypeOK, FinalInv, intact PROVE View = Picture
  OBVIOUS
<1>1. /\ UNION {CursorsOf(k, Final[k]) : k \in Used} = Marks(column, row, currentCursor)
      /\ (\A k \in Used : Final[k].display >= 4) <=> currentMode = 4
  BY CellIs, SettledShows DEF TypeOK, FinalInv
<1> QED
  BY <1>1, Zenon DEF View, Picture, Texts

LEMMA ViewIsNext == (TypeOK /\ FinalInv /\ intact => View = Picture)'
BY ViewIs, PTL

LEMMA TextsNext ==
    ASSUME type' = type
    PROVE  (Texts(Final))' = Texts(Final')
BY DEF Texts, Characters, Used

LEMMA NextFinal == TypeOK /\ FinalInv /\ [Next]_vars => FinalInv'
<1> SUFFICES ASSUME TypeOK, FinalInv, [Next]_vars PROVE FinalInv'
  OBVIOUS
<1>1. ASSUME AnyCall PROVE FinalInv'
  <2>1. intact' = intact
    BY <1>1, CallSends DEF Call
  <2>2. ASSUME intact PROVE FinalInv'
    <3>1. ASSUME NEW c \in Chars, Putc(c) PROVE FinalInv'
      BY <2>2, <3>1, PutDoes
    <3>2. ASSUME PutNewline PROVE FinalInv'
      <4>1. 0 \in 0 .. Columns(type) - 1 /\ NextRow \in 0 .. Rows(type) - 1
        BY CellIs
      <4> QED
        BY <2>2, <3>2, <4>1, MoveDoes DEF PutNewline
    <3>3. ASSUME NEW q \in Places, Locate(q[1], q[2]) PROVE FinalInv'
      <4>1. q[1] \in Int /\ q[2] \in Int
            /\ Columns(type) \in Nat \ {0} /\ Rows(type) \in Nat \ {0}
        BY CellIs, LcdConstants
      <4>2. Clamp(q[1], Columns(type)) \in 0 .. Columns(type) - 1
            /\ Clamp(q[2], Rows(type)) \in 0 .. Rows(type) - 1
        BY <4>1, ClampIs
      <4> QED
        BY <2>2, <3>3, <4>2, MoveDoes DEF Locate
    <3>4. ASSUME Cls PROVE FinalInv'
      BY <2>2, <3>4, ClearDone
    <3>5. ASSUME NEW k \in Cursors, SetCursor(k) PROVE FinalInv'
      BY <2>2, <3>5, CursorDoes
    <3>6. ASSUME NEW m \in {0, 4}, SetMode(m) PROVE FinalInv'
      BY <2>2, <3>6, ModeDoes
    <3>7. ASSUME SetUDC(0) PROVE FinalInv'
      BY <2>2, <3>7, PatternDone
    <3> QED
      BY <1>1, <3>1, <3>2, <3>3, <3>4, <3>5, <3>6, <3>7 DEF AnyCall
  <2>3. ASSUME ~intact PROVE FinalInv'
    BY <2>1, <2>3 DEF FinalInv
  <2> QED
    BY <2>2, <2>3
<1>2. ASSUME SetBacklight PROVE FinalInv'
  BY <1>2, LightDoes DEF SetBacklight, Call, driver
<1>3. ASSUME Start PROVE FinalInv'
  BY <1>3, StartFinal
<1>4. ASSUME Deliver PROVE FinalInv'
  BY <1>4, CarriedFinal DEF Deliver
<1>5. ASSUME Noise PROVE FinalInv'
  <2>1. ASSUME intact PROVE FinalInv'
    BY <1>5, <2>1, CarriedFinal
  <2>2. ASSUME ~intact PROVE FinalInv'
    BY <1>5, <2>2 DEF Noise, FinalInv
  <2> QED
    BY <2>1, <2>2
<1>6. ASSUME Garble PROVE FinalInv'
  BY <1>6 DEF Garble, FinalInv
<1>7. ASSUME UNCHANGED vars PROVE FinalInv'
  BY <1>7, LightDoes DEF vars, driver
<1> QED
  BY <1>1, <1>2, <1>3, <1>4, <1>5, <1>6, <1>7 DEF Next

LEMMA FinalHolds == Spec => [](TypeOK /\ FinalInv)
<1>1. Init => FinalInv
  BY InitFinal
<1>2. TypeOK /\ FinalInv /\ [Next]_vars => FinalInv'
  BY NextFinal
<1> QED
  BY <1>1, <1>2, TypeCorrect, PTL DEF Spec

\* AddressFollowsCursor, for every panel, every character, every place and any
\* number of calls, restarts and faults.
THEOREM AddressRight == Spec => []AddressFollowsCursor
<1>1. TypeOK /\ FinalInv => AddressFollowsCursor
  <2> SUFFICES ASSUME TypeOK, FinalInv, out = <<>>, intact PROVE AddressFollowsCursor
    BY DEF AddressFollowsCursor
  <2>1. At(lcd[CtrlOf(type, row)], Address(type, column, row))
    BY IdleFinal DEF Settled
  <2> QED
    BY <2>1 DEF TypeOK, At, AddressFollowsCursor
<1> QED
  BY <1>1, FinalHolds, PTL

\* So the cursor and the address agree on the bus as well.
THEOREM BusAddressRight == BusSpec => []AddressFollowsCursor
BY BytesArrive, AddressRight, PTL DEF ImplementsBytes

\* Between two calls each cell of the panel has memory of its own behind it:
\* whatever state the program found the controllers in when it started, and
\* whatever was called since (_initCtrl 149-198, getAddress 399).
HasMemory ==
    intact /\ out = <<>> =>
        \A p \in Cells(type) :
            Address(type, p[1], p[2]) \in Memory(lcd[CtrlOf(type, p[2])])

\* HasMemory, on every panel but LCD16x2B.
THEOREM CellsHaveMemory == Spec => [](type # "LCD16x2B" => HasMemory)
<1>1. ASSUME TypeOK, FinalInv, type # "LCD16x2B"
      PROVE  HasMemory
  <2> SUFFICES ASSUME intact, out = <<>>, NEW p \in Cells(type)
               PROVE  Address(type, p[1], p[2]) \in Memory(lcd[CtrlOf(type, p[2])])
    BY DEF HasMemory
  <2> DEFINE l == lcd[CtrlOf(type, p[2])]
  <2>1. CtrlOf(type, p[2]) \in Used /\ CtrlOf(type, p[2]) \in {0, 1}
    BY UsedIs
  <2>2. l \in Controller /\ l.lines = Chosen
    BY <1>1, <2>1, IdleFinal DEF Settled, Both
  <2>3. type \in AllTypes
    BY <1>1, LcdConstants DEF TypeOK
  <2> HIDE DEF l
  <2>4. Address(type, p[1], p[2]) \in Memory(l)
    BY <1>1, <2>2, <2>3, CellsInMemory DEF Chosen
  <2> QED
    BY <2>4 DEF l
<1> QED
  BY <1>1, FinalHolds, PTL

\* The doubt of the source about LCD16x2B ("seems wrong", TextLCD.cpp:469) is
\* justified: no cell of its second row has memory behind it, ever.
SecondRowLost ==
    type = "LCD16x2B" /\ intact /\ out = <<>> =>
        \A x \in 0 .. 15 : <<x, 1>> \in Cells(type) /\ Address(type, x, 1) \notin Memory(lcd[0])

\* SecondRowLost, whatever is called.
THEOREM SecondRowIsNowhere == Spec => []SecondRowLost
<1>1. ASSUME TypeOK, FinalInv
      PROVE  SecondRowLost
  <2> SUFFICES ASSUME type = "LCD16x2B", intact, out = <<>>, NEW x \in 0 .. 15
               PROVE  <<x, 1>> \in Cells(type) /\ Address(type, x, 1) \notin Memory(lcd[0])
    BY DEF SecondRowLost
  <2>1. lcd[0].lines = 2
    BY <1>1, UsedIs, IdleFinal DEF Settled, Chosen
  <2>2. Columns(type) = 16 /\ Rows(type) = 2 /\ Address(type, x, 1) = 40 * 1 + x
    BY DEF Columns, Rows, Address
  <2>3. Memory(lcd[0]) = 0 .. 39 \cup 64 .. 103
    BY <2>1 DEF Memory
  <2>4. 40 * 1 + x \notin 0 .. 39 \cup 64 .. 103 /\ 1 \in 0 .. 2 - 1 /\ x \in 0 .. 16 - 1
    OBVIOUS
  <2>5. <<x, 1>> \in Cells(type)
    BY <2>2, <2>4 DEF Cells
  <2> QED
    BY <2>2, <2>3, <2>4, <2>5, Zenon
<1> QED
  BY <1>1, FinalHolds, PTL

-----------------------------------------------------------------------------
(* The panel is a terminal *)

LEMMA ScreenShows ==
    ASSUME TypeOK, FinalInv, intact, TypeOK', FinalInv', intact', type' = type
    PROVE  /\ View = [characters |-> Texts(Final),
                      cursors    |-> Marks(column, row, currentCursor),
                      lit        |-> currentMode = 4]
           /\ View' = [characters |-> Texts(Final'),
                       cursors    |-> Marks(column', row', currentCursor'),
                       lit        |-> currentMode' = 4]
<1>1. View = Picture /\ View' = Picture'
  BY ViewIs, ViewIsNext
<1>2. (Texts(Final))' = Texts(Final')
  BY TextsNext
<1>3. (Marks(column, row, currentCursor))' = Marks(column', row', currentCursor')
  BY DEF Marks
<1> QED
  BY <1>1, <1>2, <1>3 DEF Picture

\* A step after which the caller sees the same text and has called nothing.
LEMMA StutterScreen ==
    ASSUME TypeOK, FinalInv, TypeOK', FinalInv',
           UNCHANGED <<type, column, row, currentMode, currentCursor, intact>>,
           intact => Texts(Final') = Texts(Final)
    PROVE  UNCHANGED Screen!vars
<1>1. ASSUME intact PROVE View' = View
  BY <1>1, ScreenShows
<1>2. Columns(type)' = Columns(type) /\ Rows(type)' = Rows(type)
  BY DEF Columns, Rows
<1> QED
  BY <1>1, <1>2 DEF Screen!vars

\* A call after a fault is not seen.
LEMMA BlindScreen ==
    ASSUME ~intact, intact' = intact, type' = type
    PROVE  UNCHANGED Screen!vars
<1>1. Columns(type)' = Columns(type) /\ Rows(type)' = Rows(type)
  BY DEF Columns, Rows
<1> QED
  BY <1>1 DEF Screen!vars

\* What a call shows, in the words of the terminal.
LEMMA ShowScreen ==
    ASSUME TypeOK, FinalInv, intact, TypeOK', FinalInv', intact', type' = type
    PROVE  Screen!Show(Texts(Final'), currentMode' = 4)
<1>1. View' = [characters |-> Texts(Final'),
               cursors    |-> Marks(column', row', currentCursor'),
               lit        |-> currentMode' = 4]
  BY ScreenShows
<1>2. Columns(type)' = Columns(type) /\ Rows(type)' = Rows(type)
  BY DEF Columns, Rows
<1>3. Screen!Marks' = Marks(column', row', currentCursor')
  BY DEF Screen!Marks, Marks
<1> QED
  BY <1>1, <1>2, <1>3 DEF Screen!Show

LEMMA NextRowIs ==
    ASSUME TypeOK, intact
    PROVE  NextRow = Screen!NextRow
<1>1. row \in 0 .. Rows(type) - 1 /\ Rows(type) \in 1 .. 4
  BY CellIs
<1>2. row + 1 >= Rows(type) <=> row + 1 = Rows(type)
  BY <1>1
<1> QED
  BY <1>2 DEF NextRow, Screen!NextRow

LEMMA PutScreen ==
    ASSUME TypeOK, FinalInv, intact, TypeOK', FinalInv', type # "LCD16x2B",
           NEW c \in Chars, Putc(c)
    PROVE  Screen!Put(c)
<1> DEFINE end == column + 1 >= Columns(type)
           x == IF end THEN 0 ELSE column + 1
           y == IF end THEN NextRow ELSE row
           u == Final[ctrl_idx]
<1>1. MoveTo(x, y, <<WriteData(ctrl_idx, c)>>)
  BY Zenon DEF Putc
<1>2. /\ type' = type /\ intact' /\ column' = x /\ row' = y
      /\ UNCHANGED <<currentMode, currentCursor>>
  BY <1>1 DEF MoveTo, Call
<1>3. /\ column \in 0 .. Columns(type) - 1 /\ row \in 0 .. Rows(type) - 1
      /\ Columns(type) \in 8 .. 40 /\ ctrl_idx = CtrlOf(type, row)
      /\ c \in 0 .. 255 /\ type \in LCDTypes /\ type \in AllTypes
  BY CellIs, LcdConstants DEF TypeOK
<1>4. /\ u \in Controller /\ u.lines = Chosen
      /\ Replaces(u, Final'[ctrl_idx], Here, c)
      /\ \A k \in Used : k # ctrl_idx => Final'[k].text = Final[k].text
  BY PutDoes
<1>5. Here \in Memory(u)
  <2>1. <<column, row>> \in Cells(type) /\ <<column, row>>[1] = column /\ <<column, row>>[2] = row
    BY DEF TypeOK
  <2> HIDE DEF u
  <2>2. \A p \in Cells(type) : Address(type, p[1], p[2]) \in Memory(u)
    BY <1>3, <1>4, CellsInMemory DEF Chosen
  <2> QED
    BY <2>1, <2>2 DEF Here
<1>6. Final \in Both /\ Final' \in Both
  <2>1. lcd \in Both /\ out \in Seq(Element) /\ lcd' \in Both /\ out' \in Seq(Element)
    BY DEF TypeOK, Both, Element
  <2> QED
    BY <1>2, <2>1, FinalIs, FinalNext, RunTyped
<1>7. Overwrites(Texts(Final), Texts(Final'), column, row, c)
  BY <1>3, <1>4, <1>5, <1>6, TextsPut DEF Here
<1>8. Screen!Show(Texts(Final'), currentMode' = 4)
  BY <1>2, ShowScreen
<1>9. View.characters = Texts(Final) /\ View.lit = (currentMode = 4)
  BY <1>2, ScreenShows
<1>10. IF column + 1 = Columns(type) THEN column' = 0 /\ row' = Screen!NextRow
                                     ELSE column' = column + 1 /\ row' = row
  <2>1. end <=> column + 1 = Columns(type)
    BY <1>3
  <2> QED
    BY <1>2, <2>1, NextRowIs
<1> HIDE DEF x, y, u
<1> DEFINE T == {p \in Texts(Final) : <<p[1], p[2]>> # <<column, row>>} \cup {<<column, row, c>>}
<1>11. Screen!Show(T, currentMode = 4)
  BY <1>2, <1>7, <1>8 DEF Overwrites
<1> QED
  BY <1>2, <1>9, <1>10, <1>11 DEF Screen!Put

\* The other calls that act.
LEMMA TextSeen ==
    ASSUME SameText(Final, Final')
    PROVE  Texts(Final') = Texts(Final)
BY TextsSame

LEMMA MoveScreen ==
    ASSUME TypeOK, FinalInv, intact, TypeOK', FinalInv',
           NEW x \in 0 .. Columns(type) - 1, NEW y \in 0 .. Rows(type) - 1, MoveTo(x, y, <<>>)
    PROVE  /\ Screen!GoTo
           /\ x = 0 /\ y = NextRow => Screen!NewLine
<1>1. /\ type' = type /\ intact' /\ column' = x /\ row' = y
      /\ UNCHANGED <<currentMode, currentCursor>>
  BY DEF MoveTo, Call
<1>2. Texts(Final') = Texts(Final)
  BY MoveDoes, TextSeen
<1>3. Screen!Show(Texts(Final), currentMode = 4)
  BY <1>1, <1>2, ShowScreen
<1>4. View.characters = Texts(Final) /\ View.lit = (currentMode = 4)
  BY <1>1, ScreenShows
<1>5. Screen!GoTo
  BY <1>1, <1>3, <1>4 DEF Screen!GoTo
<1>6. ASSUME x = 0, y = NextRow PROVE Screen!NewLine
  BY <1>1, <1>3, <1>4, <1>6, NextRowIs DEF Screen!NewLine
<1> QED
  BY <1>5, <1>6

LEMMA ClearScreen ==
    ASSUME TypeOK, FinalInv, intact, TypeOK', FinalInv', Cls
    PROVE  Screen!Clear
<1>1. /\ type' = type /\ intact' /\ column' = 0 /\ row' = 0
      /\ UNCHANGED <<currentMode, currentCursor>>
  BY DEF Cls, Call
<1>2. Texts(Final') = {}
  <2>1. \A k \in Used : Final'[k].text = {}
    BY ClearDone
  <2> QED
    BY <2>1, TextsEmpty
<1>3. Screen!Show({}, currentMode = 4)
  BY <1>1, <1>2, ShowScreen
<1>4. View.lit = (currentMode = 4)
  BY <1>1, ScreenShows
<1> QED
  BY <1>1, <1>3, <1>4 DEF Screen!Clear

LEMMA LookScreen ==
    ASSUME TypeOK, FinalInv, intact, TypeOK', FinalInv', type' = type, intact',
           UNCHANGED <<column, row>>, SameText(Final, Final')
    PROVE  Screen!Look
<1>1. Texts(Final') = Texts(Final)
  BY TextSeen
<1>2. Screen!Show(Texts(Final), currentMode' = 4)
  BY <1>1, ShowScreen
<1>3. View.characters = Texts(Final)
  BY ScreenShows
<1>4. currentCursor' \in 0 .. 3
  BY DEF TypeOK
<1> QED
  BY <1>2, <1>3, <1>4 DEF Screen!Look

LEMMA InitScreen == Init => Screen!Init
<1> SUFFICES ASSUME Init PROVE Screen!Init
  OBVIOUS
<1>1. TypeOK /\ FinalInv
  BY InitTypeOK, InitFinal
<1>2. /\ intact = TRUE /\ column = 0 /\ row = 0 /\ currentCursor = 0 /\ currentMode = 4
      /\ lcd \in Both /\ out = InitBytes
  BY DEF Init, Started, Both
<1>3. Texts(Final) = {}
  BY <1>2, FinalIs, StartRuns, TextsEmpty
<1>4. View = [characters |-> {}, cursors |-> {}, lit |-> TRUE]
  BY <1>1, <1>2, <1>3, ViewIs DEF Picture, Marks
<1> QED
  BY <1>2, <1>4 DEF Screen!Init

LEMMA StartScreen ==
    ASSUME TypeOK, TypeOK', FinalInv', Start
    PROVE  Screen!Start
<1>1. /\ intact' = TRUE /\ column' = 0 /\ row' = 0 /\ currentCursor' = 0
      /\ currentMode' = 4 /\ type' = type
  BY DEF Start, Again
<1>2. Texts(Final') = {}
  <2>1. \A k \in Used : Final'[k].text = {}
    BY StartFinal
  <2> QED
    BY <2>1, TextsEmpty
<1>3. View' = Picture' /\ (Texts(Final))' = Texts(Final')
  BY <1>1, ViewIsNext, TextsNext
<1>4. View' = [characters |-> {}, cursors |-> {}, lit |-> TRUE]
  BY <1>1, <1>2, <1>3 DEF Picture, Marks
<1>5. Columns(type)' = Columns(type) /\ Rows(type)' = Rows(type)
  BY <1>1 DEF Columns, Rows
<1> QED
  BY <1>1, <1>4, <1>5 DEF Screen!Start, Screen!Init

LEMMA NextScreen ==
    ASSUME TypeOK, FinalInv, TypeOK', FinalInv', [Next]_vars, type # "LCD16x2B"
    PROVE  [Screen!Next]_(Screen!vars) /\ type' = type
<1> DEFINE Goal == (Screen!Next \/ UNCHANGED Screen!vars) /\ type' = type
<1> SUFFICES Goal
  OBVIOUS
<1>s. ASSUME Screen!Next, type' = type PROVE Goal
  BY <1>s
<1>1. ASSUME AnyCall PROVE Goal
  <2>1. intact' = intact /\ type' = type
    BY <1>1, CallSends DEF Call
  <2>2. ASSUME ~intact PROVE Goal
    BY <2>1, <2>2, BlindScreen
  <2>3. ASSUME intact PROVE Screen!Next
    <3>1. ASSUME NEW c \in Chars, Putc(c) PROVE Screen!Next
      BY <2>3, <3>1, PutScreen DEF Screen!Next
    <3>2. ASSUME PutNewline PROVE Screen!Next
      <4>1. 0 \in 0 .. Columns(type) - 1 /\ NextRow \in 0 .. Rows(type) - 1
        BY CellIs
      <4>2. MoveTo(0, NextRow, <<>>)
        BY <3>2 DEF PutNewline
      <4>3. Screen!NewLine
        BY <2>3, <4>1, <4>2, MoveScreen
      <4> QED
        BY <4>3 DEF Screen!Next
    <3>3. ASSUME NEW q \in Places, Locate(q[1], q[2]) PROVE Screen!Next
      <4>1. q[1] \in Int /\ q[2] \in Int
            /\ Columns(type) \in Nat \ {0} /\ Rows(type) \in Nat \ {0}
        BY CellIs, LcdConstants
      <4>2. Clamp(q[1], Columns(type)) \in 0 .. Columns(type) - 1
            /\ Clamp(q[2], Rows(type)) \in 0 .. Rows(type) - 1
        BY <4>1, ClampIs
      <4>3. Screen!GoTo
        BY <2>3, <3>3, <4>2, MoveScreen DEF Locate
      <4> QED
        BY <4>3 DEF Screen!Next
    <3>4. ASSUME Cls PROVE Screen!Next
      BY <2>3, <3>4, ClearScreen DEF Screen!Next
    <3>5. ASSUME NEW k \in Cursors, SetCursor(k) PROVE Screen!Next
      <4>1. UNCHANGED <<column, row>> /\ SameText(Final, Final')
        BY <2>3, <3>5, CursorDoes DEF SetCursor
      <4>2. Screen!Look
        BY <2>1, <2>3, <4>1, LookScreen
      <4> QED
        BY <4>2 DEF Screen!Next
    <3>6. ASSUME NEW m \in {0, 4}, SetMode(m) PROVE Screen!Next
      <4>1. UNCHANGED <<column, row>> /\ SameText(Final, Final')
        BY <2>3, <3>6, ModeDoes DEF SetMode
      <4>2. Screen!Look
        BY <2>1, <2>3, <4>1, LookScreen
      <4> QED
        BY <4>2 DEF Screen!Next
    <3>7. ASSUME SetUDC(0) PROVE Screen!Next
      <4>1. UNCHANGED <<column, row>> /\ SameText(Final, Final')
        BY <2>3, <3>7, PatternDone DEF SetUDC
      <4>2. Screen!Look
        BY <2>1, <2>3, <4>1, LookScreen
      <4> QED
        BY <4>2 DEF Screen!Next
    <3> QED
      BY <1>1, <3>1, <3>2, <3>3, <3>4, <3>5, <3>6, <3>7 DEF AnyCall
  <2> QED
    BY <2>1, <2>2, <2>3
<1>2. ASSUME SetBacklight PROVE Goal
  <2>1. UNCHANGED <<type, column, row, ctrl_idx, currentMode, currentCursor, out, lcd, intact>>
    BY <1>2 DEF SetBacklight, Call, driver
  <2>2. Final' = Final
    BY <2>1, LightDoes DEF driver
  <2>3. UNCHANGED Screen!vars
    BY <2>1, <2>2, StutterScreen
  <2> QED
    BY <2>1, <2>3
<1>3. ASSUME Start PROVE Goal
  <2>1. Screen!Start /\ type' = type
    BY <1>3, StartScreen DEF Start, Again
  <2> QED
    BY <2>1 DEF Screen!Next
<1>4. ASSUME Deliver \/ Noise PROVE Goal
  <2>1. UNCHANGED <<type, column, row, currentMode, currentCursor, intact>>
    BY <1>4 DEF Deliver, Noise, driver
  <2>2. ASSUME intact PROVE Texts(Final') = Texts(Final)
    BY <1>4, <2>2, CarriedFinal, TextSeen
  <2>3. UNCHANGED Screen!vars
    BY <2>1, <2>2, StutterScreen
  <2> QED
    BY <2>1, <2>3
<1>5. ASSUME Garble PROVE Goal
  <2>1. intact' = FALSE /\ type' = type
    BY <1>5 DEF Garble, driver
  <2>2. Columns(type)' = Columns(type) /\ Rows(type)' = Rows(type)
    BY <2>1 DEF Columns, Rows
  <2>3. Screen!Fault
    BY <2>1, <2>2 DEF Screen!Fault
  <2> QED
    BY <2>1, <2>3 DEF Screen!Next
<1>6. ASSUME UNCHANGED vars PROVE Goal
  <2>1. UNCHANGED <<type, column, row, ctrl_idx, currentMode, currentCursor, out, lcd, intact>>
    BY <1>6 DEF vars
  <2>2. Final' = Final
    BY <2>1, LightDoes DEF driver
  <2>3. UNCHANGED Screen!vars
    BY <2>1, <2>2, StutterScreen
  <2> QED
    BY <2>1, <2>3
<1> HIDE DEF Goal
<1> QED
  BY <1>1, <1>2, <1>3, <1>4, <1>5, <1>6 DEF Next

\* ImplementsTerminal: on every panel but LCD16x2B the bytes of every sequence of
\* calls make the panel a terminal.
THEOREM PanelIsTerminal == Spec /\ type # "LCD16x2B" => ImplementsTerminal
<1>1. Init => Screen!Init
  BY InitScreen
<1>2. /\ TypeOK /\ FinalInv /\ TypeOK' /\ FinalInv' /\ [Next]_vars /\ type # "LCD16x2B"
      => [Screen!Next]_(Screen!vars) /\ (type # "LCD16x2B")'
  BY NextScreen
<1> QED
  BY <1>1, <1>2, FinalHolds, PTL DEF Spec, ImplementsTerminal, Screen!Spec

\* So it does when the bytes go over the bus, write by write.
THEOREM BusIsTerminal == BusSpec /\ type # "LCD16x2B" => ImplementsTerminal
BY BytesArrive, PanelIsTerminal, PTL DEF ImplementsBytes
=============================================================================
