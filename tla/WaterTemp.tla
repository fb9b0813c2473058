------------------------------ MODULE WaterTemp ------------------------------
(***************************************************************************)
(* The thermometer with the search of initialize() slot by slot.  At most  *)
(* one device is at the cable, which is what the program expects (OneWire  *)
(* has the search among several).  A slot that a handler stretches reads   *)
(* a 1, writes a 0, or is a reset: then the device leaves the search and   *)
(* answers with a pulse.  A shorted line reads as a presence and as zeros. *)
(* The address is taken only if its CRC and its family are right.          *)
(***************************************************************************)
EXTENDS Thermometer, FiniteSets

CONSTANTS
    Bits,           \* length of an address: 64
    FamilyBits,     \* of which the first are the family code: 8
    Codes,          \* addresses with a right CRC
    RomOf,          \* address of each device
    PulseSlots      \* readings that one presence pulse may reach: 3

Position == 0 .. Bits - 1
Word     == [Position -> {0, 1}]
Zeros    == [p \in Position |-> 0]

SameFamily(v, w) == \A p \in 0 .. FamilyBits - 1 : v[p] = w[p]

\* One reset hides at most two bits, and Crc8 shows that two addresses differ in
\* more: with the CRC of the code this holds for a MaxNoise of one.  Zeros have a right CRC, and the family of no device.
ASSUME RomConstants ==
    /\ Bits \in Nat /\ FamilyBits \in 1 .. Bits - 1 /\ PulseSlots \in 0 .. 3
    /\ Codes \subseteq Word /\ Zeros \in Codes
    /\ RomOf \in [{"DS18B20", "other"} -> Codes]
    /\ ~SameFamily(RomOf["DS18B20"], RomOf["other"])
    /\ ~SameFamily(RomOf["DS18B20"], Zeros)
    /\ \A v, w \in Codes :
          v # w => Cardinality({p \in Position : v[p] # w[p]}) > 2 * MaxNoise

VARIABLES
    slot,           \* what search() does next, "none" outside of it
    i, a,           \* the bit it is at, and what it has read of it
    address,
    answers,        \* does the device still answer this search?
    pulse,          \* readings that a presence pulse may still reach
    touched         \* history: the cable has changed since the search began

search == <<slot, i, a, address, answers, pulse, touched>>
allVars == <<vars, search>>

Quiet == UNCHANGED <<cable, water, sensor, pc, resolution, readConfig, result, waters>>

NoSearch ==
    /\ slot = "none" /\ i = 0 /\ a = 0 /\ address = Zeros
    /\ answers = FALSE /\ pulse = 0 /\ touched = FALSE

\* search() has returned: its locals are gone, address is cleared by the next.
Over ==
    /\ slot' = "none" /\ i' = 0 /\ a' = 0 /\ address' = Zeros
    /\ answers' = FALSE /\ pulse' = 0 /\ touched' = FALSE

-----------------------------------------------------------------------------
(* The line (not code of the repository) *)

\* What a device that answers sends.
Sent == RomOf[plugged][i]

\* What can be read of the line when the device sends bit.
Line(bit) ==
    IF shorted THEN {0} ELSE IF pulse > 0 THEN {0, 1} ELSE {IF answers THEN bit ELSE 1}

InTime  == UNCHANGED <<noise, disturbed, answers>>
Late    == Garbled /\ UNCHANGED answers
Sampled == pulse' = IF pulse > 0 THEN pulse - 1 ELSE 0

\* A handler runs for as long as a reset takes, while the line is held low.
ResetHeard ==
    /\ Garbled /\ answers' = FALSE
    /\ pulse' = IF plugged # "none" /\ ~shorted THEN PulseSlots ELSE 0

\* A reading: in time, or of an idle line.
Reads(value, bit) ==
    \/ value \in Line(bit) /\ InTime /\ Sampled
    \/ value \in Line(1) /\ Late /\ Sampled
    \/ value \in Line(1) /\ ResetHeard

\* The cable changes: what is connected now has not heard this search, but
\* wakes up with a pulse.
CableMoves ==
    /\ \/ \E device \in {"DS18B20", "other", "none"} : Plug(device)
       \/ Short
    /\ IF slot = "none" THEN UNCHANGED <<answers, pulse, touched>>
       ELSE /\ answers' = FALSE /\ touched' = TRUE
            /\ pulse' = IF plugged' # "none" /\ ~shorted' THEN PulseSlots ELSE 0
    /\ UNCHANGED <<slot, i, a, address>>

-----------------------------------------------------------------------------
(* initialize() *)

\* resetSearch(), and search() up to its loop: a presence is read; the device
\* hears the command, or not.
StartSearch ==
    /\ pc = "initialize" /\ slot = "none"
    /\ shorted \/ plugged # "none"
    /\ slot' = "bit" /\ i' = 0 /\ a' = 0 /\ address' = Zeros /\ touched' = FALSE
    /\ \/ answers' = ~shorted /\ pulse' = 0 /\ UNCHANGED <<noise, disturbed>>
       \/ answers' = FALSE /\ pulse' = 0 /\ Garbled
       \/ ResetHeard
    /\ Quiet

\* There is none, or it is read too late.
NoPresence ==
    /\ slot = "none" /\ ~shorted /\ InitializeFails
    /\ UNCHANGED search

ReadBit ==
    /\ slot = "bit" /\ slot' = "not"
    /\ a' \in {0, 1} /\ Reads(a', Sent)
    /\ Quiet /\ UNCHANGED <<i, address, touched>>

\* Two ones: search() returns 0.  Two zeros: in a first search 0 is taken.
ReadComplement ==
    /\ slot = "not"
    /\ \E value \in {0, 1} :
          /\ Reads(value, 1 - Sent)
          /\ slot' = IF a = 1 /\ value = 1 THEN "failed" ELSE "write"
    /\ Quiet /\ UNCHANGED <<i, a, address, touched>>

\* Mutant: the loop runs once more.
WriteBitMore ==
    /\ slot = "write" /\ slot' = IF i = Bits THEN "end" ELSE "bit"
    /\ address' = [address EXCEPT ![i] = a] /\ i' = i + 1 /\ a' = 0
    /\ answers' = (answers /\ Sent = a)
    /\ UNCHANGED <<pulse, noise, disturbed>> /\ Quiet /\ UNCHANGED touched

\* The bit is stored and written: it is heard as it is, as 0, or as a reset.
WriteBit ==
    /\ slot = "write" /\ slot' = IF i + 1 = Bits THEN "end" ELSE "bit"
    /\ address' = [address EXCEPT ![i] = a] /\ i' = i + 1 /\ a' = 0
    /\ \/ /\ answers' = (answers /\ Sent = a)
          /\ UNCHANGED <<pulse, noise, disturbed>>
       \/ /\ answers' = (answers /\ Sent = 0) /\ Garbled
          /\ UNCHANGED pulse
       \/ ResetHeard
    /\ Quiet /\ UNCHANGED touched

\* Mutant: the CRC is not looked at.
AcceptedByFamily(word) == SameFamily(word, RomOf["DS18B20"])

Accepted(word) == word \in Codes /\ SameFamily(word, RomOf["DS18B20"])

\* Mutant: the resolution is not set.
AcceptUnset ==
    /\ slot = "end" /\ Accepted(address)
    /\ pc' = "convert" /\ disturbed' = (touched \/ ~Present) /\ Over
    /\ UNCHANGED <<cable, water, sensor, resolution, readConfig, result, noise, waters>>

Accept ==
    /\ slot = "end" /\ Accepted(address)
    /\ Initialize /\ disturbed' = (touched \/ ~Present) /\ Over

Reject ==
    /\ slot = "failed" \/ (slot = "end" /\ ~Accepted(address))
    /\ Over /\ UNCHANGED vars

-----------------------------------------------------------------------------
SearchSteps ==
    StartSearch \/ ReadBit \/ ReadComplement \/ WriteBit \/ Accept \/ Reject

SearchInit == Init /\ NoSearch

SearchNext ==
    \/ (\E w \in Water : Warm(w)) /\ UNCHANGED search
    \/ CableMoves
    \/ Measured /\ UNCHANGED search
    \/ GetTemp /\ UNCHANGED search
    \/ StartSearch \/ NoPresence \/ ReadBit \/ ReadComplement \/ WriteBit
    \/ Accept \/ Reject
    \/ Transfers /\ UNCHANGED search

\* main runs on, and the sensor completes its measurements.
SearchSpec ==
    /\ SearchInit /\ [][SearchNext]_allVars
    /\ WF_allVars(SearchSteps \/ (Transfers /\ UNCHANGED search))
    /\ WF_allVars(Measured /\ UNCHANGED search)

-----------------------------------------------------------------------------
(* Properties *)

SearchTypeOK ==
    /\ slot \in {"none", "bit", "not", "write", "end", "failed"}
    /\ slot # "none" => pc = "initialize"
    /\ i \in 0 .. Bits /\ a \in {0, 1} /\ address \in Word
    /\ slot \in {"bit", "not", "write"} => i \in Position
    /\ answers \in BOOLEAN /\ (answers => plugged # "none" /\ ~shorted)
    /\ pulse \in 0 .. PulseSlots /\ touched \in BOOLEAN

\* While the cable is left alone, initialize() succeeds only with the address
\* of the sensor, whichever slots are stretched, MaxNoise of them at most: an
\* address that was completed by the bits of a presence pulse or by a line at
\* ground is not taken, nor one of another family
\* (OneWireThermometer.cpp:63, 70).
AcceptedIsReal ==
    [][pc = "initialize" /\ pc' = "readConfig" /\ ~touched =>
         plugged = "DS18B20" /\ address = RomOf["DS18B20"]]_allVars

\* With its search, the call is still the call of Thermometer: a search that
\* is given up leaves nothing behind (OneWireThermometer.cpp:40-93).
ImplementsThermometer == Spec
=============================================================================
