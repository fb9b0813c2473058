------------------------------- MODULE OneWire -------------------------------
(***************************************************************************)
(* OneWireCRC::search: the enumeration of the devices of a 1-Wire bus.     *)
(*                                                                         *)
(* After a reset and SEARCH_ROM all devices answer.  For every bit of the  *)
(* address each one that still answers sends its bit and then the          *)
(* complement; the bus is the AND of what they send, and idle it is one.   *)
(* The master writes the bit it takes, and the devices with the other one  *)
(* fall silent.  Devices may be plugged in or vanish at any moment; one    *)
(* that was plugged in answers from the next reset on.                     *)
(***************************************************************************)
EXTENDS Integers, FiniteSets

CONSTANTS Bits,         \* length of an address: 64
          Device,       \* the addresses there are
          MaxDevices    \* how many may be connected at once

Position == 0 .. Bits - 1
Address  == [Position -> {0, 1}]

ASSUME OneWireConstants ==
    Bits \in Nat \ {0} /\ Device \subseteq Address /\ MaxDevices \in Nat

VARIABLES
    present,            \* devices connected to the bus
    answering,          \* those that still answer this search
    address, searchJunction, searchExhausted,
    pc, i, lastJunction, done, a,
    asked,              \* history: devices that answered the reset
    steady,             \* history: no device came or went since resetSearch
    found               \* history: addresses returned since then

vars == <<present, answering, address, searchJunction, searchExhausted,
          pc, i, lastJunction, done, a, asked, steady, found>>

locals == <<pc, i, lastJunction, done, a, asked>>
object == <<address, searchJunction, searchExhausted>>

\* The local variables of search() begin and end with a call.
NoLocals ==
    i = 0 /\ lastJunction = -1 /\ done = TRUE /\ a = 0 /\ asked = {} /\ answering = {}
Return ==
    /\ pc' = "idle" /\ i' = 0 /\ lastJunction' = -1 /\ done' = TRUE /\ a' = 0
    /\ asked' = {} /\ answering' = {}

-----------------------------------------------------------------------------
(* The devices (not code of the repository) *)

Connect(d) ==
    /\ d \notin present /\ Cardinality(present) < MaxDevices
    /\ present' = present \cup {d} /\ steady' = FALSE /\ found' = {}
    /\ UNCHANGED <<answering, object, locals>>

Disconnect(d) ==
    /\ d \in present
    /\ present' = present \ {d} /\ answering' = answering \ {d}
    /\ steady' = FALSE /\ found' = {}
    /\ UNCHANGED <<object, locals>>

\* The bus while every device that answers sends its bit, or the complement.
Sent       == IF \A d \in answering : d[i] = 1 THEN 1 ELSE 0
Complement == IF \A d \in answering : d[i] = 0 THEN 1 ELSE 0

-----------------------------------------------------------------------------
ResetSearch ==
    /\ pc = "idle"
    /\ searchJunction' = -1 /\ searchExhausted' = FALSE
    /\ address' = [p \in Position |-> 0]
    /\ found' = {} /\ steady' = TRUE
    /\ UNCHANGED <<present, answering, locals>>

\* search() up to its loop; without a device, or after the last, it returns 0.
Search ==
    /\ pc = "idle" /\ ~searchExhausted /\ present # {}
    /\ pc' = "bit" /\ i' = 0 /\ lastJunction' = -1 /\ done' = TRUE
    /\ answering' = present /\ asked' = present
    /\ UNCHANGED <<present, object, a, found, steady>>

ReadBit ==
    /\ pc = "bit"
    /\ a' = Sent /\ pc' = "not"
    /\ UNCHANGED <<present, answering, object, i, lastJunction, done, asked,
                   found, steady>>

\* Mutant: the bit is stored but not written.
TakeUnwritten(bit) ==
    /\ address' = [address EXCEPT ![i] = bit]
    /\ i' = i + 1 /\ pc' = IF i + 1 = Bits THEN "end" ELSE "bit"
    /\ UNCHANGED <<present, answering, searchExhausted, a, asked, found, steady>>

\* The bit is taken, stored and written.
Take(bit) ==
    /\ address' = [address EXCEPT ![i] = bit]
    /\ answering' = {d \in answering : d[i] = bit}
    /\ i' = i + 1 /\ pc' = IF i + 1 = Bits THEN "end" ELSE "bit"
    /\ UNCHANGED <<present, searchExhausted, a, asked, found, steady>>

\* The second readBit(), and what the loop makes of the two.
Vanished ==
    /\ pc = "not" /\ a = 1 /\ Complement = 1 /\ Return
    /\ UNCHANGED <<present, object, found, steady>>

Agreed ==
    /\ pc = "not" /\ a # Complement /\ Take(a)
    /\ UNCHANGED <<searchJunction, lastJunction, done>>

Conflict == pc = "not" /\ a = 0 /\ Complement = 0 /\ lastJunction' = i

\* Mutant: the junction is kept when its second branch is taken.
OtherBranchAgain ==
    /\ Conflict /\ i = searchJunction /\ Take(1)
    /\ UNCHANGED <<searchJunction, done>>

OtherBranch ==
    /\ Conflict /\ i = searchJunction /\ Take(1)
    /\ searchJunction' = lastJunction /\ UNCHANGED done

\* Mutant: a branch that waits for its turn does not keep the search going.
SameBranchDone ==
    /\ Conflict /\ i < searchJunction /\ Take(address[i])
    /\ UNCHANGED <<done, searchJunction>>

\* lastJunction becomes i for a one as well (line 345).
SameBranch ==
    /\ Conflict /\ i < searchJunction /\ Take(address[i])
    /\ done' = (done /\ address[i] = 1)
    /\ UNCHANGED searchJunction

\* Mutant: the junction that is kept is the bit behind it.
NewBranchNext ==
    /\ Conflict /\ i > searchJunction /\ Take(0)
    /\ searchJunction' = i + 1 /\ done' = FALSE

NewBranch ==
    /\ Conflict /\ i > searchJunction /\ Take(0)
    /\ searchJunction' = i /\ done' = FALSE

\* The address is copied to newAddr and 1 is returned.
Found ==
    /\ pc = "end" /\ Return
    /\ searchExhausted' = (searchExhausted \/ done)
    /\ found' = found \cup {address}
    /\ UNCHANGED <<present, address, searchJunction, steady>>

-----------------------------------------------------------------------------
Init ==
    /\ present \in SUBSET Device /\ Cardinality(present) <= MaxDevices
    /\ found = {} /\ steady = TRUE
    /\ address = [p \in Position |-> 0]
    /\ searchJunction = -1 /\ searchExhausted = FALSE
    /\ pc = "idle" /\ NoLocals

Next ==
    \/ \E d \in Device : Connect(d) \/ Disconnect(d)
    \/ ResetSearch \/ Search \/ ReadBit \/ Vanished \/ Agreed
    \/ OtherBranch \/ SameBranch \/ NewBranch \/ Found

Spec == Init /\ [][Next]_vars

-----------------------------------------------------------------------------
(* Properties *)

TypeOK ==
    /\ present \in SUBSET Device /\ answering \in SUBSET Device
    /\ asked \in SUBSET Device
    /\ address \in Address /\ searchJunction \in -1 .. Bits - 1
    /\ searchExhausted \in BOOLEAN
    /\ pc \in {"idle", "bit", "not", "end"} /\ i \in 0 .. Bits
    /\ lastJunction \in -1 .. Bits - 1 /\ done \in BOOLEAN /\ a \in {0, 1}
    /\ found \in SUBSET Address /\ steady \in BOOLEAN

\* An address that search() returns is the one of a device that answered its
\* reset, never a mixture of two, whatever vanishes meanwhile
\* (OneWireCRC.cpp:307-358).
FoundIsDevice == pc = "end" => address \in asked

\* On a bus where nothing changes every search that returns 1 finds a device
\* that was not found before: "it has enumerated the next device"
\* (OneWireCRC.cpp:287).
NextIsNew == pc = "end" /\ steady => address \notin found

\* When the search ends, every device of a bus where nothing changed has been
\* found (searchExhausted, OneWireCRC.cpp:354).
AllAreFound == searchExhausted /\ steady => found = present
=============================================================================
