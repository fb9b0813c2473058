------------------------------- MODULE LcdBus -------------------------------
(***************************************************************************)
(* How the bytes of TextLCD reach the controllers: TextLCD_I2C keeps the   *)
(* lines of the port expander in _lcd_bus and writes all of them at each   *)
(* change, _writeNibble and _writeByte clock four bits at a time with the  *)
(* falling edge of E.  The result of an I2C write is not looked at, so     *)
(* that a write may be lost; the program may start again at any moment     *)
(* while the panel keeps its power.                                        *)
(***************************************************************************)
EXTENDS TextLCD

CONSTANTS
    MaxLosses,          \* bound: writes that are lost
    LastFault           \* bound: the last call a fault may fall into

ASSUME BusConstants == MaxLosses \in Nat /\ LastFault \in Nat

VARIABLES
    lcd_bus,            \* the mirror _lcd_bus
    port,               \* the outputs of the expander
    step,               \* writes done of the first element of out
    width,              \* bits the controllers take at a time, 8 or 4
    half,               \* the upper nibble of a byte, or -1
    losses

busVars == <<lcd_bus, port, step, width, half, losses>>

Lines == [rs : BOOLEAN, e : SUBSET {0, 1}, data : 0 .. 15, bl : BOOLEAN]

AllLow == [rs |-> FALSE, e |-> {}, data |-> 0, bl |-> FALSE]     \* D_LCD_BUS_DEF

-----------------------------------------------------------------------------
(* The controllers (not code of the repository) *)

\* A byte; the function set also sets the width.
Take(k, rs, b) ==
    /\ lcd' = [lcd EXCEPT ![k] = Execute(@, rs, b)]
    /\ width' = IF ~rs /\ b \in 32 .. 63
                THEN [width EXCEPT ![k] = IF b >= 48 THEN 8 ELSE 4] ELSE width

\* Four bits; in the wide mode the other four lines, not connected, read 1.
Clocked(k, rs, n) ==
    \/ width[k] = 8 /\ Take(k, rs, 16 * n + 15) /\ UNCHANGED half
    \/ /\ width[k] = 4 /\ half[k] >= 0
       /\ Take(k, rs, 16 * half[k] + n) /\ half' = [half EXCEPT ![k] = -1]
    \/ /\ width[k] = 4 /\ half[k] < 0
       /\ half' = [half EXCEPT ![k] = n] /\ UNCHANGED <<lcd, width>>

\* The lines change.  A controller whose E falls reads the others, which
\* may be changing too.
Drive(lines) ==
    /\ port' = lines
    /\ IF port.e \subseteq lines.e THEN UNCHANGED <<lcd, width, half>>
       ELSE \E k \in port.e \ lines.e, rs \in {port.rs, lines.rs},
               n \in {port.data, lines.data} : Clocked(k, rs, n)

-----------------------------------------------------------------------------
(* The driver *)

\* Mutant: the new bits are put on the bus after E has fallen.
LinesEarlyFall(s) ==
    LET e == Head(out)
    IN  CASE s = 0     -> [lcd_bus EXCEPT !.rs = e.rs]
          [] s % 3 = 1 -> [lcd_bus EXCEPT !.e = @ \cup {e.ctrl}]
          [] s % 3 = 2 -> [lcd_bus EXCEPT !.e = @ \ {e.ctrl}]
          [] OTHER     -> [lcd_bus EXCEPT !.data = e.nibbles[s \div 3]]

\* _lcd_bus after the s-th write of an element: _setRS(), then for each nibble
\* _setEnable(true), _setData() and _setEnable(false).
LinesAt(s) ==
    LET e == Head(out)
    IN  CASE s = 0     -> [lcd_bus EXCEPT !.rs = e.rs]
          [] s % 3 = 1 -> [lcd_bus EXCEPT !.e = @ \cup {e.ctrl}]
          [] s % 3 = 2 -> [lcd_bus EXCEPT !.data = e.nibbles[(s + 1) \div 3]]
          [] OTHER     -> [lcd_bus EXCEPT !.e = @ \ {e.ctrl}]

Proceed ==
    /\ out # <<>>
    /\ lcd_bus' = LinesAt(step)
    /\ IF step = 3 * Len(Head(out).nibbles)
       THEN out' = Tail(out) /\ step' = 0
       ELSE out' = out /\ step' = step + 1
    /\ UNCHANGED <<driver, calls, starts>>

Write == Proceed /\ Drive(LinesAt(step)) /\ UNCHANGED <<intact, losses>>

\* The next write repeats all lines: only E may come late.
Harmless(s) == s % 3 = 1 \/ LinesAt(s) = port

LoseWrite ==
    /\ losses < MaxLosses /\ losses' = losses + 1 /\ calls <= LastFault
    /\ Proceed /\ intact' = (intact /\ Harmless(step))
    /\ UNCHANGED <<port, lcd, width, half>>

BusCall == AnyCall /\ UNCHANGED busVars

\* setBacklight(), _setBL()
SwitchLight(on) ==
    /\ Turn
    /\ lcd_bus' = [lcd_bus EXCEPT !.bl = on] /\ Drive(lcd_bus')
    /\ UNCHANGED <<driver, out, intact, starts, step, losses>>

\* The constructor; its own write may be lost as well.
Restart ==
    /\ Again /\ calls <= LastFault
    /\ lcd_bus' = AllLow /\ step' = 0
    /\ \/ Drive(AllLow) /\ UNCHANGED losses
       \/ /\ losses < MaxLosses /\ losses' = losses + 1
          /\ UNCHANGED <<port, lcd, width, half>>

PowerOn ==
    [address |-> 0, cg |-> FALSE, display |-> 0, lines |-> 1,
     text |-> {<<0, 255>>}]

BusInit ==
    /\ type \in LCDTypes /\ starts = 0 /\ Started
    /\ lcd = [k \in {0, 1} |-> PowerOn]
    /\ lcd_bus = AllLow /\ port = AllLow /\ step = 0
    /\ width = [k \in {0, 1} |-> 8] /\ half = [k \in {0, 1} |-> -1]
    /\ losses = 0

BusNext ==
    \/ BusCall \/ (\E on \in BOOLEAN : SwitchLight(on))
    \/ Write \/ LoseWrite \/ Restart

BusSpec == BusInit /\ [][BusNext]_<<vars, busVars>>

-----------------------------------------------------------------------------
(* Properties *)

\* Between two elements a controller that has had its prelude waits for the
\* upper half of a byte, whatever it waited for when the program started: in
\* the wide mode, or for either half of a byte, with E high or low
\* (_initCtrl, TextLCD.cpp:80-90).
InStep ==
    intact /\ step = 0 =>
        \A k \in Used : Ready(k) => width[k] = 4 /\ half[k] = -1

\* Each byte arrives as it was sent, once and in order (TextLCD.cpp:344-384).
ImplementsBytes == Spec
=============================================================================
