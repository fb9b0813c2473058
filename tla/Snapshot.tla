------------------------------- MODULE Snapshot -------------------------------
(***************************************************************************)
(* The main program takes copies of objects that an interrupt handler      *)
(* replaces, without ever disabling the interrupts: GPS::geodetic and      *)
(* GPS::vtg copy the object twice and compare the copies, timeNow of       *)
(* GPS_Time copies it once and compares the copy with the object. Between  *)
(* two words that main copies or compares a handler may run to its end.    *)
(***************************************************************************)
EXTENDS Integers, FiniteSets

CONSTANTS Words,        \* words of the object
          Value,        \* what a word may hold
          MaxIrqs       \* how often the object changes during one attempt

ASSUME SnapshotConstants == Words \in Nat \ {0} /\ MaxIrqs \in Nat

VARIABLES live,         \* the object that is copied; the handlers write it
          pc, call,     \* where main is, and in which function
          a, q,         \* the two copies; timeNow has no a
          k,            \* the next word
          irqs,         \* changes since the attempt began
          seen          \* history: values of live since the attempt began

vars == <<live, pc, call, a, q, k, irqs, seen>>

Calls == {"geodetic", "timeNow"}
Object == [1 .. Words -> Value]

\* A do loop begins: the first one of a call or another one.
Attempt(c) ==
    /\ pc' = IF c = "geodetic" THEN "copyA" ELSE "copyQ"
    /\ k' = 1 /\ irqs' = 0 /\ seen' = {live'}
    /\ UNCHANGED <<a, q>>

\* The next call may be for another object.
Call(c) == pc = "return" /\ call' = c /\ live' \in Object /\ Attempt(c)

\* Mutant: memcmp is given the size of a pointer, one word.
AdvanceOneWord(place) ==
    LET last == k = Words \/ place = "return"
    IN  /\ k' = IF last THEN 1 ELSE k + 1
        /\ pc' = IF last THEN place ELSE pc
        /\ UNCHANGED <<live, call, irqs, seen>>

\* memcpy and memcmp go on with the next word or leave for place.
Advance(place) ==
    /\ k' = IF k = Words THEN 1 ELSE k + 1
    /\ pc' = IF k = Words THEN place ELSE pc
    /\ UNCHANGED <<live, call, irqs, seen>>

CopyA ==
    /\ pc = "copyA" /\ a' = [a EXCEPT ![k] = live[k]]
    /\ Advance("copyQ") /\ UNCHANGED q

CopyQ ==
    /\ pc = "copyQ" /\ q' = [q EXCEPT ![k] = live[k]]
    /\ Advance("compare") /\ UNCHANGED a

\* Mutant: timeNow compares with an older copy.
OtherStale == a

\* Mutant: timeNow compares the copy with itself.
OtherSelf == IF call = "geodetic" THEN a ELSE q

Other == IF call = "geodetic" THEN a ELSE live

Equal ==
    /\ pc = "compare" /\ q[k] = Other[k]
    /\ Advance("return") /\ UNCHANGED <<a, q>>

Differ ==
    /\ pc = "compare" /\ q[k] # Other[k]
    /\ UNCHANGED <<call, live>> /\ Attempt(call)

\* ticktock or pps_irq changes the object.
Irq ==
    /\ live' \in Object /\ live' # live
    /\ IF pc = "return" THEN UNCHANGED <<irqs, seen>>
       ELSE irqs < MaxIrqs /\ irqs' = irqs + 1 /\ seen' = seen \cup {live'}
    /\ UNCHANGED <<pc, call, a, q, k>>

Init ==
    /\ live \in Object /\ a = live /\ q = live /\ seen = {live}
    /\ pc = "return" /\ call \in Calls /\ k = 1 /\ irqs = 0

Next ==
    \/ \E c \in Calls : Call(c)
    \/ CopyA \/ CopyQ \/ Equal \/ Differ \/ Irq

Spec == Init /\ [][Next]_vars

-----------------------------------------------------------------------------
(* Properties *)

TypeOK ==
    /\ live \in Object /\ a \in Object /\ q \in Object
    /\ pc \in {"return", "copyA", "copyQ", "compare"} /\ call \in Calls
    /\ k \in 1 .. Words /\ irqs \in 0 .. MaxIrqs /\ seen \in SUBSET Object

\* What a call returns is the object as it was at one moment of its last
\* attempt: never some words from before an update and some from after it
\* (GPS.cpp:102-106 and 118-122, GPS_Time.cpp:70-73).
NotTorn == pc = "return" => q \in seen

\* A copy is thrown away only if the object did change while it was made
\* (the same lines).
RetriesOnlyIfDisturbed ==
    [][pc = "compare" /\ pc' \notin {"compare", "return"} => irqs > 0]_vars
=============================================================================
