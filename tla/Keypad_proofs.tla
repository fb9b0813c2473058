---------------------------- MODULE Keypad_proofs ----------------------------
(***************************************************************************)
(* Theorems about Keypad, for keypads of any size and any behaviour of the *)
(* contacts.                                                               *)
(***************************************************************************)
EXTENDS Keypad, TLAPS

\* The scan has switched off the columns before c, and at last all of them:
\* then no key can hold its row high, so that c never leaves the columns.
ScanInv ==
    /\ pc = "write" => c \in Cols /\ \A d \in energized : c <= d
    /\ pc = "read"  => c \in Cols /\ \A d \in energized : c < d
    /\ pc = "call"  => c \in Cols
    /\ pc \in {"idle", "debounce"} /\ started => energized = Cols

Inv == TypeOK /\ ScanInv /\ InTable

\* With the last column off every row is low.
LEMMA AllOff ==
    ASSUME TypeOK, pc = "read", c \in Cols, \A d \in energized : c < d, IsHigh(row)
    PROVE  c + 1 \in Cols
<1>1. PICK d \in energized : <<row, d>> \in pressed
  BY DEF IsHigh, High
<1>2. d \in Cols /\ c < d
  BY <1>1 DEF TypeOK
<1> QED
  BY <1>2, KeypadConstants DEF Cols

\* Row-major indices of the keys.
LEMMA IndexInTable ==
    ASSUME NEW r \in Rows, NEW d \in Cols
    PROVE  r * NCol + d \in 0 .. NRow * NCol - 1
<1>1. /\ r \in Nat /\ d \in Nat /\ NRow \in Nat /\ NCol \in Nat
      /\ r + 1 <= NRow /\ d + 1 <= NCol
  BY KeypadConstants DEF Rows, Cols
<1>2. (r + 1) * NCol <= NRow * NCol
  <2>1. PICK m \in Nat : NRow = (r + 1) + m
    <3>1. NRow - (r + 1) \in Nat /\ NRow = (r + 1) + (NRow - (r + 1))
      BY <1>1
    <3> QED
      BY <3>1
  <2>2. NRow * NCol = (r + 1) * NCol + m * NCol /\ m * NCol >= 0
    BY <1>1, <2>1
  <2> QED
    BY <1>1, <2>2
<1>3. (r + 1) * NCol = r * NCol + NCol
  BY <1>1
<1>4. r * NCol \in Nat /\ NRow * NCol \in Nat
  BY <1>1
<1> QED
  BY <1>1, <1>2, <1>3, <1>4

LEMMA InitInv == Init => Inv
<1> SUFFICES ASSUME Init PROVE Inv
  OBVIOUS
<1>1. 0 \in 0 .. NCol
  BY KeypadConstants
<1>2. TypeOK
  BY <1>1 DEF Init, TypeOK
<1>3. ScanInv /\ InTable
  BY DEF Init, ScanInv, InTable
<1> QED
  BY <1>2, <1>3 DEF Inv

LEMMA LatchType ==
    ASSUME NEW waiting \in SUBSET Rows, Latch(waiting)
    PROVE  pending' \in SUBSET Rows
BY DEF Latch, High

LEMMA ContactInv == ASSUME Inv, NEW keys \in SUBSET Keys, Contact(keys) PROVE Inv'
<1>1. pending' \in SUBSET Rows
  BY LatchType DEF Contact, Inv, TypeOK
<1> QED
  BY <1>1 DEF Contact, Inv, TypeOK, ScanInv, InTable

LEMMA MainInv == ASSUME Inv, Start \/ Stop PROVE Inv'
<1>1. pending' \in SUBSET Rows
  BY LatchType DEF Start, Stop, Inv, TypeOK
<1>2. UNCHANGED <<pressed, pc, row, c, steady, reported>> /\ pc = "idle"
  BY DEF Start, Stop
<1>3. CASE Start
  BY <1>1, <1>2, <1>3 DEF Start, Energize, Inv, TypeOK, ScanInv, InTable
<1>4. CASE Stop
  BY <1>1, <1>2, <1>4 DEF Stop, Inv, TypeOK, ScanInv, InTable
<1> QED
  BY <1>3, <1>4

LEMMA EnterInv ==
    ASSUME Inv, (\E r \in Rows : Enter(r)) \/ Bounced
    PROVE  Inv'
BY DEF Enter, Bounced, Inv, TypeOK, ScanInv, InTable

LEMMA ScanStepInv == ASSUME Inv, Settled \/ Write \/ Read PROVE Inv'
<1>1. CASE Settled
  <2>1. 0 \in Cols /\ 0 \in 0 .. NCol /\ \A d \in energized : 0 <= d
    BY KeypadConstants DEF Inv, TypeOK, Cols
  <2> QED
    BY <1>1, <2>1 DEF Settled, Inv, TypeOK, ScanInv, InTable
<1>2. CASE Write
  <2>1. \A d \in energized \ {c} : c < d
    BY <1>2, KeypadConstants DEF Write, Inv, TypeOK, ScanInv, Cols
  <2> QED
    BY <1>2, <2>1 DEF Write, Inv, TypeOK, ScanInv, InTable
<1>3. CASE Read
  <2>1. c \in Cols /\ pc = "read" /\ \A d \in energized : c < d
    BY <1>3 DEF Read, Inv, ScanInv
  <2>2. UNCHANGED <<pressed, energized, pending, row, started, steady, reported>>
    BY <1>3 DEF Read
  <2>3. CASE ~IsHigh(row)
    <3>1. pc' = "call" /\ c' = c
      BY <1>3, <2>3 DEF Read
    <3> QED
      BY <2>1, <2>2, <3>1 DEF Inv, TypeOK, ScanInv, InTable
  <2>4. CASE IsHigh(row)
    <3>1. c + 1 \in Cols
      BY <2>1, <2>4, AllOff DEF Inv
    <3>2. c' = c + 1 /\ pc' = "write"
      BY <1>3, <2>4, <3>1, KeypadConstants DEF Read, Cols
    <3>3. c' \in 0 .. NCol /\ c' \in Cols /\ \A d \in energized : c' <= d
      BY <2>1, <3>1, <3>2, KeypadConstants DEF Cols, Inv, TypeOK
    <3> QED
      BY <2>1, <2>2, <3>2, <3>3 DEF Inv, TypeOK, ScanInv, InTable
  <2> QED
    BY <2>3, <2>4
<1> QED
  BY <1>1, <1>2, <1>3

LEMMA ReportInv == ASSUME Inv, Report PROVE Inv'
<1>1. pending' \in SUBSET Rows
  BY LatchType DEF Report, Inv, TypeOK
<1>2. reported' \in 0 .. NRow * NCol - 1
  <2>1. row \in Rows /\ c \in Cols /\ reported' = row * NCol + c
    BY DEF Report, Inv, TypeOK, ScanInv
  <2> QED
    BY <2>1, IndexInTable
<1>3. energized' = Cols
  BY DEF Report, Energize, Inv, TypeOK
<1> QED
  BY <1>1, <1>2, <1>3 DEF Report, Inv, TypeOK, ScanInv, InTable

LEMMA InvHolds == Spec => []Inv
<1>1. Inv /\ [Next]_vars => Inv'
  <2> SUFFICES ASSUME Inv, [Next]_vars PROVE Inv'
    OBVIOUS
  <2>1. CASE UNCHANGED vars
    BY <2>1 DEF vars, Inv, TypeOK, ScanInv, InTable
  <2>2. ASSUME NEW key \in Keys, Press(key) \/ Release(key) PROVE Inv'
    <3>1. pressed \cup {key} \in SUBSET Keys /\ pressed \ {key} \in SUBSET Keys
      BY DEF Inv, TypeOK
    <3> QED
      BY <2>2, <3>1, ContactInv DEF Press, Release
  <2> QED
    BY <2>1, <2>2, MainInv, EnterInv, ScanStepInv, ReportInv DEF Next, Handler
<1> QED
  BY <1>1, InitInv, PTL DEF Spec

-----------------------------------------------------------------------------
\* The callback gets an index of the key table, however the contacts move
\* while the columns are scanned.
THEOREM IndexIsInTable == Spec => []InTable
<1>1. Inv => InTable
  BY DEF Inv
<1> QED
  BY <1>1, InvHolds, PTL

\* Between two handlers a started keypad energizes every column.
THEOREM AlwaysListens == Spec => []Listens
<1>1. Inv => Listens
  BY DEF Inv, ScanInv, Listens
<1> QED
  BY <1>1, InvHolds, PTL

-----------------------------------------------------------------------------
(* The key of a steady scan *)

\* The row was high before a column was switched off: a key of the columns that
\* are left, or of the one that was just switched off, holds it.
HeldFrom(d) == \E col \in Cols : col >= d /\ <<row, col>> \in pressed

SteadyInv ==
    steady /\ started =>
        /\ pc = "write" => energized = {d \in Cols : d >= c} /\ HeldFrom(c)
        /\ pc = "read"  => energized = {d \in Cols : d > c} /\ HeldFrom(c)
        /\ pc = "call"  => /\ <<row, c>> \in pressed
                          /\ \A d \in Cols : <<row, d>> \in pressed => d <= c

LEMMA SteadyInductive == Inv /\ SteadyInv /\ [Next]_vars => SteadyInv'
<1> SUFFICES ASSUME Inv, SteadyInv, [Next]_vars PROVE SteadyInv'
  OBVIOUS
<1>1. CASE UNCHANGED vars
  BY <1>1 DEF vars, SteadyInv, HeldFrom
<1>2. ASSUME NEW key \in Keys, Press(key) \/ Release(key) PROVE SteadyInv'
  BY <1>2 DEF Press, Release, Contact, SteadyInv
<1>3. CASE Start \/ Stop
  BY <1>3 DEF Start, Stop, SteadyInv
<1>4. CASE Bounced \/ Report \/ \E r \in Rows : Enter(r)
  BY <1>4 DEF Bounced, Report, Enter, SteadyInv
<1>5. CASE Settled
  <2> SUFFICES ASSUME started PROVE SteadyInv'
    BY <1>5 DEF Settled, SteadyInv
  <2>1. energized = Cols
    BY <1>5 DEF Settled, Inv, ScanInv
  <2>2. energized = {d \in Cols : d >= 0}
    BY <2>1, KeypadConstants DEF Cols
  <2>3. HeldFrom(0)
    BY <1>5, <2>2 DEF Settled, IsHigh, High, HeldFrom
  <2> QED
    BY <1>5, <2>2, <2>3 DEF Settled, SteadyInv, HeldFrom
<1>6. CASE Write
  <2>1. c \in Cols
    BY <1>6 DEF Write, Inv, ScanInv
  <2>2. {d \in Cols : d >= c} \ {c} = {d \in Cols : d > c}
    BY <2>1, KeypadConstants DEF Cols
  <2> QED
    BY <1>6, <2>2 DEF Write, SteadyInv, HeldFrom
<1>7. CASE Read
  <2> SUFFICES ASSUME steady, started PROVE SteadyInv'
    BY <1>7 DEF Read, SteadyInv
  <2>1. c \in Cols /\ energized = {d \in Cols : d > c} /\ HeldFrom(c)
    BY <1>7 DEF Read, Inv, ScanInv, SteadyInv
  <2>2. UNCHANGED <<pressed, energized, row, started, steady>>
    BY <1>7 DEF Read
  <2>3. CASE IsHigh(row)
    <3>1. c + 1 \in Cols
      <4>1. \A d \in energized : c < d
        BY <1>7 DEF Read, Inv, ScanInv
      <4> QED
        BY <1>7, <2>1, <2>3, <4>1, AllOff DEF Read, Inv
    <3>2. pc' = "write" /\ c' = c + 1
      BY <1>7, <2>3, <3>1, KeypadConstants DEF Read, Cols
    <3>3. energized = {d \in Cols : d >= c + 1}
      BY <2>1, KeypadConstants DEF Cols
    <3>4. HeldFrom(c + 1)
      BY <2>3, <3>3 DEF IsHigh, High, HeldFrom
    <3> QED
      BY <2>2, <3>2, <3>3, <3>4 DEF SteadyInv, HeldFrom
  <2>4. CASE ~IsHigh(row)
    <3>1. pc' = "call" /\ c' = c
      BY <1>7, <2>4 DEF Read
    <3>2. row \in Rows
      BY <1>7 DEF Read, Inv, TypeOK
    <3>3. \A d \in Cols : d > c => <<row, d>> \notin pressed
      BY <2>1, <2>4, <3>2 DEF IsHigh, High
    <3>4. \A d \in Cols : <<row, d>> \in pressed => d <= c
      BY <2>1, <3>3, KeypadConstants DEF Cols
    <3>5. <<row, c>> \in pressed
      BY <2>1, <3>4, KeypadConstants DEF HeldFrom, Cols
    <3> QED
      BY <2>2, <3>1, <3>4, <3>5 DEF SteadyInv
  <2> QED
    BY <2>3, <2>4
<1> QED
  BY <1>1, <1>2, <1>3, <1>4, <1>5, <1>6, <1>7 DEF Next, Handler

\* Before stop(), a scan during which no contact moves reports the last of the
\* keys held in its row, for keypads of any size, whichever keys are held.
THEOREM SteadyScanIsRight == Spec => SteadyKey
<1>1. Init => SteadyInv
  BY DEF Init, SteadyInv
<1>2. Inv /\ SteadyInv /\ [Next]_vars =>
        [pc = "call" /\ pc' = "idle" /\ steady /\ started =>
           \E col \in Cols : /\ <<row, col>> \in pressed
                             /\ \A d \in Cols : <<row, d>> \in pressed => d <= col
                             /\ reported' = row * NCol + col]_vars
  <2> SUFFICES ASSUME Inv, SteadyInv, Next, pc = "call", pc' = "idle", steady, started
               PROVE  \E col \in Cols :
                          /\ <<row, col>> \in pressed
                          /\ \A d \in Cols : <<row, d>> \in pressed => d <= col
                          /\ reported' = row * NCol + col
    OBVIOUS
  <2>1. Report
    BY DEF Next, Press, Release, Contact, Start, Stop, Handler, Enter, Bounced,
           Settled, Write, Read
  <2>2. reported' = row * NCol + c
    BY <2>1 DEF Report
  <2>3. c \in Cols
    BY DEF Inv, ScanInv
  <2> QED
    BY <2>2, <2>3 DEF SteadyInv
<1> QED
  BY <1>1, <1>2, SteadyInductive, InvHolds, PTL DEF Spec, SteadyKey

=============================================================================
