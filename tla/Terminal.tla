------------------------------- MODULE Terminal -------------------------------
(***************************************************************************)
(* What a caller of TextLCD may rely on: a screen of characters, a cursor  *)
(* that is shown at most once, and calls that act at once.  After a fault  *)
(* of the bus nothing is known of the screen until the next start.         *)
(***************************************************************************)
EXTENDS Integers

CONSTANT Chars

VARIABLES
    known,          \* FALSE after a fault
    size,           \* [columns, rows] of the panel; never changes
    column, row,    \* the cell the next character goes to
    style,          \* look of the cursor, 0 for none
    view            \* what one sees: characters and cursors with their cells,
                    \* and whether the display is on

vars == <<known, size, column, row, style, view>>

Marks == IF style = 0 THEN {} ELSE {<<column, row, style>>}

\* Every call leaves one cursor, at the cell it is said to be at.
Show(characters, lit) ==
    /\ known /\ UNCHANGED <<known, size>>
    /\ view' = [characters |-> characters, cursors |-> Marks', lit |-> lit]

NextRow == IF row + 1 = size.rows THEN 0 ELSE row + 1

Put(c) ==
    /\ IF column + 1 = size.columns THEN column' = 0 /\ row' = NextRow
                                    ELSE column' = column + 1 /\ row' = row
    /\ UNCHANGED style
    /\ Show({p \in view.characters : <<p[1], p[2]>> # <<column, row>>}
                \cup {<<column, row, c>>}, view.lit)

NewLine ==
    /\ column' = 0 /\ row' = NextRow /\ UNCHANGED style
    /\ Show(view.characters, view.lit)

GoTo ==
    /\ column' \in 0 .. size.columns - 1 /\ row' \in 0 .. size.rows - 1
    /\ UNCHANGED style
    /\ Show(view.characters, view.lit)

Clear ==
    /\ column' = 0 /\ row' = 0 /\ UNCHANGED style
    /\ Show({}, view.lit)

Look ==
    /\ style' \in 0 .. 3 /\ UNCHANGED <<column, row>>
    /\ \E lit \in BOOLEAN : Show(view.characters, lit)

Init ==
    /\ known = TRUE /\ column = 0 /\ row = 0 /\ style = 0
    /\ view = [characters |-> {}, cursors |-> {}, lit |-> TRUE]

Start == Init' /\ UNCHANGED size

Fault == ~known' /\ UNCHANGED size

Next ==
    \/ \E c \in Chars : Put(c)
    \/ NewLine \/ GoTo \/ Clear \/ Look \/ Start \/ Fault

Spec == Init /\ [][Next]_vars
=============================================================================
