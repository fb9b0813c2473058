-------------------------------- MODULE Keypad --------------------------------
(***************************************************************************)
(* Class Keypad: the columns are energized, a key connects its column to   *)
(* its row, a rising row raises an interrupt.  The handler waits for the   *)
(* contacts to settle, switches the columns off one by one until the row   *)
(* falls, reports the key and switches the columns on again.  Contacts     *)
(* open and close at any moment of it.  Main runs only between handlers.   *)
(***************************************************************************)
EXTENDS Integers, FiniteSets

CONSTANTS NRow, NCol,   \* _nRow, _nCol
          MaxHeld,      \* bound: keys held at once
          None

ASSUME KeypadConstants ==
    NRow \in Nat /\ NCol \in Nat \ {0} /\ MaxHeld \in Nat /\ None \notin Nat

Rows == 0 .. NRow - 1
Cols == 0 .. NCol - 1
Keys == Rows \X Cols

VARIABLES pressed,      \* keys whose contacts are closed
          energized,    \* columns that drive a one
          pending,      \* rows whose interrupt waits
          pc, row, c,   \* the handler
          started,      \* history: start() was called, and no stop() since
          steady,       \* history: no contact moved since the row was read
          reported      \* the last index passed to the callback

vars == <<pressed, energized, pending, pc, row, c, started, steady, reported>>

High(on, keys) == {r \in Rows : \E col \in on : <<r, col>> \in keys}
IsHigh(r) == r \in High(energized, pressed)

\* A rising row latches its interrupt.  While the handler runs the flag may
\* be cleared with the one that is being served.
Latch(waiting) ==
    LET rising == High(energized', pressed') \ High(energized, pressed)
    IN  \E kept \in SUBSET rising :
            /\ pc = "idle" => kept = rising
            /\ pending' = waiting \cup kept

-----------------------------------------------------------------------------
(* The contacts (not code) *)

Contact(keys) ==
    /\ pressed' = keys /\ Cardinality(keys) <= MaxHeld
    /\ steady' = FALSE
    /\ UNCHANGED <<energized, pc, row, c, started, reported>>
    /\ Latch(pending)

Press(key) == key \notin pressed /\ Contact(pressed \cup {key})
Release(key) == key \in pressed /\ Contact(pressed \ {key})

(* The program *)

Energize == energized' = energized \cup Cols

Start ==
    /\ pc = "idle" /\ pending = {} /\ ~started
    /\ Energize /\ started' = TRUE
    /\ UNCHANGED <<pressed, pc, row, c, steady, reported>>
    /\ Latch(pending)

\* _cols[i++] under i++: every other column.
Stopped == {i \in Cols : i % 2 = 0}

Stop ==
    /\ pc = "idle" /\ pending = {} /\ started
    /\ energized' = energized \ Stopped /\ started' = FALSE
    /\ UNCHANGED <<pressed, pending, pc, row, c, steady, reported>>

-----------------------------------------------------------------------------
(* _checkIndex *)

\* Mutant: the last row has no handler.
EnterNotLast(r) ==
    /\ pc = "idle" /\ r \in pending /\ r # NRow - 1
    /\ pending' = pending \ {r} /\ pc' = "debounce" /\ row' = r
    /\ UNCHANGED <<pressed, energized, c, started, steady, reported>>

Enter(r) ==
    /\ pc = "idle" /\ r \in pending
    /\ pending' = pending \ {r} /\ pc' = "debounce" /\ row' = r
    /\ UNCHANGED <<pressed, energized, c, started, steady, reported>>

Bounced ==
    /\ pc = "debounce" /\ ~IsHigh(row) /\ pc' = "idle"
    /\ UNCHANGED <<pressed, energized, pending, row, c, started, steady, reported>>

Settled ==
    /\ pc = "debounce" /\ IsHigh(row)
    /\ pc' = "write" /\ c' = 0 /\ steady' = TRUE
    /\ UNCHANGED <<pressed, energized, pending, row, started, reported>>

\* Mutant: the column is not switched off.
WriteOne ==
    /\ pc = "write" /\ pc' = "read"
    /\ UNCHANGED <<pressed, energized, pending, row, c, started, steady, reported>>

Write ==
    /\ pc = "write" /\ energized' = energized \ {c} /\ pc' = "read"
    /\ UNCHANGED <<pressed, pending, row, c, started, steady, reported>>

\* Mutant: the scan stops only behind the column that was found.
ReadBehind ==
    /\ pc = "read" /\ c' = c + 1
    /\ pc' = IF IsHigh(row) /\ c + 1 < NCol THEN "write" ELSE "call"
    /\ UNCHANGED <<pressed, energized, pending, row, started, steady, reported>>

Read ==
    /\ pc = "read"
    /\ IF ~IsHigh(row) THEN pc' = "call" /\ c' = c
       ELSE c' = c + 1 /\ pc' = IF c + 1 < NCol THEN "write" ELSE "call"
    /\ UNCHANGED <<pressed, energized, pending, row, started, steady, reported>>

\* Mutant: the columns stay off after the scan.
ReportOnly ==
    /\ pc = "call" /\ pc' = "idle"
    /\ reported' = row * NCol + c
    /\ UNCHANGED <<pressed, energized, pending, row, c, started, steady>>

\* The callback and start().
Report ==
    /\ pc = "call" /\ pc' = "idle"
    /\ reported' = row * NCol + c
    /\ Energize
    /\ UNCHANGED <<pressed, row, c, started, steady>>
    /\ Latch(pending)

-----------------------------------------------------------------------------
Init ==
    /\ pressed = {} /\ energized = {} /\ pending = {}
    /\ pc = "idle" /\ row = 0 /\ c = 0
    /\ started = FALSE /\ steady = FALSE /\ reported = None

Handler ==
    \/ \E r \in Rows : Enter(r)
    \/ Bounced \/ Settled \/ Write \/ Read \/ Report

Next ==
    \/ \E key \in Keys : Press(key) \/ Release(key)
    \/ Start \/ Stop
    \/ Handler

Spec == Init /\ [][Next]_vars

\* Nothing keeps the processor from a handler.
FairSpec == Spec /\ WF_vars(Handler)

-----------------------------------------------------------------------------
(* Properties *)

TypeOK ==
    /\ pressed \in SUBSET Keys /\ energized \in SUBSET Cols
    /\ pending \in SUBSET Rows
    /\ pc \in {"idle", "debounce", "write", "read", "call"}
    /\ c \in 0 .. NCol
    /\ started \in BOOLEAN /\ steady \in BOOLEAN
    /\ pc # "idle" => row \in Rows

\* Between handlers every column is energized: no path through _checkIndex
\* leaves a key that can no longer be felt (Keypad.cpp:142-155).
Listens == pc = "idle" /\ started => energized = Cols

\* What the callback gets is an index of the key table, whatever the contacts
\* do during the scan (Keypad.cpp:145-154).
InTable == reported = None \/ reported \in 0 .. NRow * NCol - 1

\* Before stop(), when no contact moves during the scan, the key reported is one
\* that is held: the last one of its row, since the row falls with the last of
\* their columns (Keypad.cpp:146-153).
SteadyKey ==
    [][pc = "call" /\ pc' = "idle" /\ steady /\ started =>
         \E col \in Cols : /\ <<row, col>> \in pressed
                           /\ \A d \in Cols : <<row, d>> \in pressed => d <= col
                           /\ reported' = row * NCol + col]_vars

\* A key that has raised the interrupt before stop() and stays the only one held
\* is reported in the end (Keypad.cpp:130-156).
KeyAnswered ==
    \A key \in Keys :
        (pressed = {key} /\ key[1] \in pending /\ started)
            ~> (reported = key[1] * NCol + key[2] \/ pressed # {key})
=============================================================================
