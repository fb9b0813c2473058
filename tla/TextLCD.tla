------------------------------- MODULE TextLCD -------------------------------
(***************************************************************************)
(* Class TextLCD_Base: where the cursor is, which memory address belongs   *)
(* to it on each kind of panel, and the bytes that every call sends to one *)
(* or two HD44780 controllers.  A call is one action that appends its      *)
(* bytes to out; Deliver hands the first one to its controller.  The next  *)
(* call begins when all are out: one thread uses the display.              *)
(***************************************************************************)
EXTENDS Integers, Sequences

CONSTANTS
    LCDTypes,       \* the kinds of panel considered
    Chars,          \* codes of characters
    Cursors,        \* looks of the cursor, of 0 .. 3
    Places,         \* arguments of locate, <<column, row>>
    UdcRows,        \* rows of a user defined character: 8
    MaxCalls,       \* bound: calls after a start
    MaxBlind,       \* the same after a fault
    MaxStarts       \* bound: restarts of the program

AllTypes ==
    {"LCD8x1", "LCD8x2", "LCD8x2B", "LCD12x2", "LCD12x4", "LCD16x1",
     "LCD16x2", "LCD16x2B", "LCD16x4", "LCD20x2", "LCD20x4", "LCD24x2",
     "LCD24x4", "LCD40x2", "LCD40x4"}

ASSUME LcdConstants ==
    /\ LCDTypes \subseteq AllTypes /\ Chars \subseteq 0 .. 255
    /\ Cursors \subseteq 0 .. 3 /\ Places \subseteq Int \X Int
    /\ UdcRows \in Nat /\ MaxCalls \in Nat
    /\ MaxBlind \in Nat /\ MaxStarts \in Nat

VARIABLES
    type,                           \* _type
    column, row, ctrl_idx,          \* _column, _row, _ctrl_idx
    currentMode, currentCursor,     \* _currentMode, _currentCursor
    out,                            \* what is still to be sent
    lcd,                            \* the two controllers
    intact,                         \* history: no fault since the last start
    calls, starts                   \* counted for the bounds

driver == <<type, column, row, ctrl_idx, currentMode, currentCursor>>
vars   == <<type, column, row, ctrl_idx, currentMode, currentCursor,
            out, lcd, intact, calls, starts>>

-----------------------------------------------------------------------------
(* Panels *)

Columns(t) ==
    CASE t \in {"LCD8x1", "LCD8x2", "LCD8x2B"} -> 8
      [] t \in {"LCD12x2", "LCD12x4"} -> 12
      [] t \in {"LCD16x1", "LCD16x2", "LCD16x2B", "LCD16x4"} -> 16
      [] t \in {"LCD20x2", "LCD20x4"} -> 20
      [] t \in {"LCD24x2", "LCD24x4"} -> 24
      [] OTHER -> 40

Rows(t) ==
    CASE t \in {"LCD8x1", "LCD16x1"} -> 1
      [] t \in {"LCD12x4", "LCD16x4", "LCD20x4", "LCD24x4", "LCD40x4"} -> 4
      [] OTHER -> 2

\* getAddress(), apart from the bytes it sends.
Address(t, x, y) ==
    CASE t = "LCD8x2B"  -> 8 * y + x
      [] t = "LCD16x1"  -> IF x < 8 THEN x ELSE 64 + (x - 8)
      [] t = "LCD16x2B" -> 40 * y + x
      [] t = "LCD24x4"  -> 32 * y + x
      [] t \in {"LCD12x4", "LCD16x4", "LCD20x4"} ->
            64 * (y % 2) + Columns(t) * (y \div 2) + x
      [] OTHER -> 64 * (y % 2) + x

\* The controller of a row.
CtrlOf(t, y) == IF t = "LCD40x4" /\ y >= 2 THEN 1 ELSE 0

Cells(t) == (0 .. Columns(t) - 1) \X (0 .. Rows(t) - 1)

-----------------------------------------------------------------------------
(* The HD44780 (not code of the repository) *)

Controller ==
    [address : 0 .. 127, cg : BOOLEAN, display : 0 .. 7, lines : {1, 2},
     text : SUBSET ((0 .. 127) \X (0 .. 255))]

\* Memory behind the cells; LCD24x4 has a KS0078.
Memory(l) ==
    IF type = "LCD24x4" THEN 0 .. 127
    ELSE IF l.lines = 1 THEN 0 .. 79 ELSE 0 .. 39 \cup 64 .. 103

Store(l, b) ==
    IF l.cg THEN l
    ELSE [l EXCEPT !.text = {p \in @ : p[1] # l.address}
                \cup (IF l.address \in Memory(l) THEN {<<l.address, b>>} ELSE {})]

\* A byte arrives; the address counter then moves on, which the driver never
\* relies on.  Entry mode and shifts are left out.
Execute(l, rs, b) ==
    IF rs THEN [Store(l, b) EXCEPT !.address = (@ + 1) % 128]
    ELSE CASE b >= 128      -> [l EXCEPT !.address = b - 128, !.cg = FALSE]
           [] b \in 64 .. 127 -> [l EXCEPT !.address = b - 64, !.cg = TRUE]
           [] b \in 32 .. 63  -> [l EXCEPT !.lines = 1 + ((b \div 8) % 2)]
           [] b \in 8 .. 15   -> [l EXCEPT !.display = b - 8]
           [] b \in 2 .. 3    -> [l EXCEPT !.address = 0, !.cg = FALSE]
           [] b = 1         -> [l EXCEPT !.address = 0, !.cg = FALSE, !.text = {}]
           [] OTHER         -> l

-----------------------------------------------------------------------------
(* What is sent: nibbles in a row to one controller, two of them a byte *)

Nibbles(k, rs, n) == [ctrl |-> k, rs |-> rs, nibbles |-> n]
IsByte(e) == Len(e.nibbles) = 2
ByteOf(e) == 16 * e.nibbles[1] + e.nibbles[2]

WriteCommand(k, b) == Nibbles(k, FALSE, <<b \div 16, b % 16>>)
WriteData(k, b)    == Nibbles(k, TRUE, <<b \div 16, b % 16>>)

\* _setCursorAndDisplayMode()
Display(k, mode, cursor) == WriteCommand(k, 8 + mode + cursor)

\* Mutant: getAddress takes the other controller without a word.
NoSwitch(k, y) == <<>>

\* getAddress() for a row of the other controller takes the cursor there.
Switch(k, y) ==
    IF k = CtrlOf(type, y) THEN <<>>
    ELSE <<Display(k, currentMode, 0),
           Display(CtrlOf(type, y), currentMode, currentCursor)>>

Goto(k, x, y) ==
    Switch(k, y) \o <<WriteCommand(CtrlOf(type, y), 128 + Address(type, x, y))>>

\* Mutant: "8 bits" is sent twice only.
PreludeTwice(k) == Nibbles(k, FALSE, <<3, 3, 2>>)

\* Three times "8 bits", then "4 bits".
Prelude(k) == Nibbles(k, FALSE, <<3, 3, 3, 2>>)

FunctionSet(k) ==
    CASE type \in {"LCD8x1", "LCD8x2B"} -> <<WriteCommand(k, 32)>>
      [] type = "LCD24x4" -> <<WriteCommand(k, 42), WriteCommand(k, 46),
                               WriteCommand(k, 9), WriteCommand(k, 42)>>
      [] OTHER -> <<WriteCommand(k, 40)>>

\* setMode(): both controllers, the cursor on the current one only.
ModeBytes(k, mode, cursor) ==
    IF type = "LCD40x4"
    THEN <<Display(0, mode, IF k = 0 THEN cursor ELSE 0),
           Display(1, mode, IF k = 1 THEN cursor ELSE 0)>>
    ELSE <<Display(0, mode, cursor)>>

InitCtrl(k, mode) ==
    <<Prelude(k)>> \o FunctionSet(k) \o <<WriteCommand(k, 6), Display(k, mode, 0)>>
        \o ModeBytes(k, 4, 0)

\* _init(), with the members of a static object before it.
InitBytes ==
    IF type = "LCD40x4"
    THEN InitCtrl(1, 0) \o <<WriteCommand(1, 1)>>
            \o InitCtrl(0, 4) \o <<WriteCommand(0, 1)>>
    ELSE InitCtrl(0, 0) \o <<WriteCommand(0, 1)>>

-----------------------------------------------------------------------------
(* The calls *)

Turn ==
    /\ out = <<>> /\ calls' = calls + 1
    /\ calls < (IF intact THEN MaxCalls ELSE MaxBlind)

Call == Turn /\ UNCHANGED <<type, lcd, intact, starts>>

MoveTo(x, y, first) ==
    /\ Call
    /\ column' = x /\ row' = y /\ ctrl_idx' = CtrlOf(type, y)
    /\ out' = first \o Goto(ctrl_idx, x, y)
    /\ UNCHANGED <<currentMode, currentCursor>>

NextRow == IF row + 1 >= Rows(type) THEN 0 ELSE row + 1

\* _putc()
Putc(c) ==
    LET end == column + 1 >= Columns(type)
    IN  MoveTo(IF end THEN 0 ELSE column + 1, IF end THEN NextRow ELSE row,
               <<WriteData(ctrl_idx, c)>>)

PutNewline == MoveTo(0, NextRow, <<>>)

\* Mutant: the last column is taken for their number.
ClampOpen(i, n) == IF i < 0 THEN 0 ELSE IF i >= n THEN n ELSE i

Clamp(i, n) == IF i < 0 THEN 0 ELSE IF i >= n THEN n - 1 ELSE i

\* locate(), setAddress()
Locate(x, y) == MoveTo(Clamp(x, Columns(type)), Clamp(y, Rows(type)), <<>>)

Cls ==
    /\ Call
    /\ out' = IF type = "LCD40x4"
              THEN <<Display(1, currentMode, 0), WriteCommand(1, 1),
                     WriteCommand(0, 1), Display(0, currentMode, currentCursor)>>
              ELSE <<WriteCommand(0, 1)>>
    /\ ctrl_idx' = 0 /\ column' = 0 /\ row' = 0
    /\ UNCHANGED <<currentMode, currentCursor>>

SetCursor(cursor) ==
    /\ Call /\ currentCursor' = cursor
    /\ out' = <<Display(ctrl_idx, currentMode, cursor)>>
    /\ UNCHANGED <<column, row, ctrl_idx, currentMode>>

SetMode(mode) ==
    /\ Call /\ currentMode' = mode
    /\ out' = ModeBytes(ctrl_idx, mode, currentCursor)
    /\ UNCHANGED <<column, row, ctrl_idx, currentCursor>>

\* Mutant: the controllers are left in the memory of the patterns.
UdcStays(k, c) ==
    <<WriteCommand(k, 64 + 8 * (c % 8))>> \o [i \in 1 .. UdcRows |-> WriteData(k, 31)]

\* _setUDC() on controller k: its getAddress may change the controller.
UdcBytes(k, c) ==
    <<WriteCommand(k, 64 + 8 * (c % 8))>> \o [i \in 1 .. UdcRows |-> WriteData(k, 31)]
        \o Goto(k, column, row)

SetUDC(c) ==
    /\ Call
    /\ out' = IF type = "LCD40x4" THEN UdcBytes(0, c) \o UdcBytes(1, c)
              ELSE UdcBytes(0, c)
    /\ UNCHANGED <<column, row, ctrl_idx, currentMode, currentCursor>>

\* setBacklight() sends no byte.
SetBacklight == Call /\ UNCHANGED <<driver, out>>

AnyCall ==
    \/ \E c \in Chars : Putc(c)
    \/ \E p \in Places : Locate(p[1], p[2])
    \/ \E k \in Cursors : SetCursor(k)
    \/ \E m \in {0, 4} : SetMode(m)
    \/ PutNewline \/ Cls \/ SetUDC(0)

-----------------------------------------------------------------------------
(* Between the driver and the controllers *)

\* The program starts, for the first time or once more: it knows nothing of
\* the controllers, which have kept their power and their state.
Started ==
    /\ column = 0 /\ row = 0 /\ ctrl_idx = 0
    /\ currentMode = 4 /\ currentCursor = 0
    /\ out = InitBytes /\ intact = TRUE /\ calls = 0

Again ==
    /\ starts < MaxStarts /\ starts' = starts + 1
    /\ column' = 0 /\ row' = 0 /\ ctrl_idx' = 0
    /\ currentMode' = 4 /\ currentCursor' = 0
    /\ out' = InitBytes /\ intact' = TRUE /\ calls' = 0
    /\ UNCHANGED type

Start == Again /\ lcd' \in [{0, 1} -> Controller]

\* A controller whose prelude is still to come may take nibbles for anything.
Ready(k) == \A i \in DOMAIN out : out[i].ctrl = k => IsByte(out[i])

After(l, e) ==
    IF IsByte(e) THEN [l EXCEPT ![e.ctrl] = Execute(@, e.rs, ByteOf(e))] ELSE l

Deliver ==
    /\ out # <<>> /\ intact
    /\ out' = Tail(out)
    /\ lcd' \in [{0, 1} -> Controller]
    /\ \A k \in {0, 1} : Ready(k) => lcd'[k] = After(lcd, Head(out))[k]
    /\ UNCHANGED <<driver, intact, calls, starts>>

Noise ==
    /\ lcd' \in [{0, 1} -> Controller]
    /\ \A k \in {0, 1} : Ready(k) => lcd'[k] = lcd[k]
    /\ UNCHANGED <<driver, out, intact, calls, starts>>

\* A transfer has failed, or one did before and the controllers may be out
\* of step.
Garble ==
    /\ intact' = FALSE
    /\ out' = out \/ (out # <<>> /\ out' = Tail(out))
    /\ lcd' \in [{0, 1} -> Controller] /\ calls' \in {calls, calls + 1}
    /\ UNCHANGED <<driver, starts>>

Init ==
    /\ type \in LCDTypes /\ starts = 0 /\ Started
    /\ lcd \in [{0, 1} -> Controller]

Next == AnyCall \/ SetBacklight \/ Start \/ Deliver \/ Noise \/ Garble

Spec == Init /\ [][Next]_vars

-----------------------------------------------------------------------------
(* Properties *)

\* The cursor is on the panel, and the controller in use is that of its row.
TypeOK ==
    /\ type \in LCDTypes /\ <<column, row>> \in Cells(type)
    /\ ctrl_idx = CtrlOf(type, row)
    /\ currentMode \in {0, 4} /\ currentCursor \in 0 .. 3
    /\ lcd \in [{0, 1} -> Controller] /\ intact \in BOOLEAN
    /\ out \in Seq([ctrl : {0, 1}, rs : BOOLEAN, nibbles : Seq(0 .. 15)])
    /\ calls \in Nat /\ starts \in Nat

\* When a call is over, the current controller is in the text memory, at the
\* address of the cell of the cursor: after any sequence of calls, on each
\* kind of panel, and also after the patterns of a character were loaded into
\* both controllers of a 40x4 (TextLCD.cpp: _putc 287, setAddress, _setUDC).
AddressFollowsCursor ==
    out = <<>> /\ intact =>
        /\ lcd[ctrl_idx].address = Address(type, column, row)
        /\ ~lcd[ctrl_idx].cg

-----------------------------------------------------------------------------
(* What one sees when everything has been sent, as the terminal *)

Final ==
    LET f[i \in 0 .. Len(out)] == IF i = 0 THEN lcd ELSE After(f[i - 1], out[i])
    IN  f[Len(out)]

Used == IF type = "LCD40x4" THEN {0, 1} ELSE {0}

\* The cells of each panel that show an address of a controller.
CellsAt ==
    [t \in LCDTypes |-> [k \in {0, 1} |-> [a \in 0 .. 127 |->
        {p \in Cells(t) : CtrlOf(t, p[2]) = k /\ Address(t, p[1], p[2]) = a}]]]

Characters(k, l) ==
    UNION {{<<p[1], p[2], x[2]>> : p \in CellsAt[type][k][x[1]]} : x \in l.text}

CursorsOf(k, l) ==
    IF l.display % 4 = 0 THEN {}
    ELSE {<<p[1], p[2], l.display % 4>> : p \in CellsAt[type][k][l.address]}

View ==
    LET final == Final
    IN  [characters |-> UNION {Characters(k, final[k]) : k \in Used},
         cursors    |-> UNION {CursorsOf(k, final[k]) : k \in Used},
         lit        |-> \A k \in Used : final[k].display >= 4]

Screen == INSTANCE Terminal WITH
    known  <- intact,
    size   <- [columns |-> Columns(type), rows |-> Rows(type)],
    column <- IF intact THEN column ELSE 0,
    row    <- IF intact THEN row ELSE 0,
    style  <- IF intact THEN currentCursor ELSE 0,
    view   <- IF intact THEN View ELSE {}

\* The bytes sent make the panel a terminal: each character appears in the
\* cell of the cursor and nowhere else, all rows are reached, what loads
\* patterns or switches the controller changes no text, one cursor is shown
\* and a start makes an empty screen of whatever was there
\* (TextLCD.h:217-300, TextLCD.cpp: cls, _putc, setAddress, setUDC).
ImplementsTerminal == Screen!Spec
=============================================================================
