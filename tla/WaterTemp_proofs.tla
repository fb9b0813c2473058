---------------------------- MODULE WaterTemp_proofs ----------------------------
(***************************************************************************)
(* The thermometer, first without its search: an undisturbed call returns  *)
(* a temperature of the water of that call.  The argument follows the      *)
(* call: the transfers of an undisturbed call are heard, so that the       *)
(* sensor measures with twelve bits when CONVERT comes; the object waits   *)
(* as long as that takes; what is read was measured between the two.       *)
(*                                                                         *)
(* Then with the search, which implements the one without: a slot that is  *)
(* heard is a step of the search alone, a stretched one a failure of       *)
(* initialize().  So what is proved of the call holds with the search.     *)
(***************************************************************************)
EXTENDS WaterTemp, FiniteSetTheorems, TLAPS

Talking == {"readConfig", "writeConfig", "convert", "wait", "read"}

CallInv ==
    /\ resolution = twelveBit
    /\ pc # "done" => water \in waters
    /\ ~disturbed =>
        /\ pc \in Talking => Present
        /\ pc \in {"convert", "wait", "read"} => config = twelveBit
        /\ pc = "wait" => converting \/ register \in waters
        /\ pc = "read" => register \in waters

\* The state is well typed: the configuration the sensor holds and the one the
\* object remembers stay resolutions (DS18B20::setResolution).
THEOREM TypeCorrect == Spec => []TypeOK
<1>1. Init => TypeOK
  <2>1. Failed \in Int /\ PowerOn \in Register /\ twelveBit \in Resolution /\ 0 \in Nat
    BY DEF Failed, PowerOn, Register, twelveBit, Resolution
  <2> QED
    BY <2>1, ThermometerConstants, Zenon DEF Init, TypeOK
<1>2. TypeOK /\ [Next]_vars => TypeOK'
  <2> SUFFICES ASSUME TypeOK, [Next]_vars PROVE TypeOK'
    OBVIOUS
  <2> USE DEF TypeOK
  <2>c. Failed \in Int /\ Calculated(0, 0) \in Int /\ Calculated(register, config) \in Int
    <3>1. \A reg \in Register : Signed(reg) \in Int
      BY DEF Signed, Register
    <3>2. \A conf \in Resolution : 2 ^ (3 - conf) \in {1, 2, 4, 8}
      <4>1. \A conf \in Resolution : 3 - conf \in {0, 1, 2, 3}
        BY DEF Resolution
      <4>2. 2 ^ 0 = 1 /\ 2 ^ 1 = 2 /\ 2 ^ 2 = 4 /\ 2 ^ 3 = 8
        OBVIOUS
      <4> QED
        BY <4>1, <4>2, Zenon
    <3>3. \A t \in Int, m \in {1, 2, 4, 8} : (t % 65536) - (t % m) \in Int
      OBVIOUS
    <3>4. \A reg \in Register, conf \in Resolution : Calculated(reg, conf) \in Int
      <4> SUFFICES ASSUME NEW reg \in Register, NEW conf \in Resolution
                   PROVE Calculated(reg, conf) \in Int
        OBVIOUS
      <4>1. PICK m \in {1, 2, 4, 8} : m = 2 ^ (3 - conf)
        BY <3>2
      <4>2. PICK t \in Int : t = Signed(reg)
        BY <3>1
      <4>3. (t % 65536) - (t % m) \in Int
        BY <3>3
      <4>4. Calculated(reg, conf) = IF conf = twelveBit THEN t ELSE (t % 65536) - (t % m)
        BY <4>1, <4>2 DEF Calculated
      <4> QED
        BY <4>3, <4>4
    <3>5. Failed \in Int /\ 0 \in Register /\ 0 \in Resolution
      BY DEF Failed, Register, Resolution
    <3> QED
      BY <3>4, <3>5, Zenon
  <2>v. /\ Water \subseteq Register /\ PowerOn \in Register
        /\ twelveBit \in Resolution /\ 0 \in Resolution /\ 0 \in Nat
    <3>1. PowerOn \in Register /\ twelveBit \in Resolution /\ 0 \in Resolution /\ 0 \in Nat
      BY DEF PowerOn, Register, twelveBit, Resolution
    <3> QED
      BY <3>1, ThermometerConstants, Zenon
  <2>g. Garbled => noise' \in Nat /\ disturbed' \in BOOLEAN
    <3>1. Garbled => noise' \in Nat
      BY DEF Garbled
    <3> QED
      BY <3>1, Zenon DEF Garbled
  <2>l. Clear \/ Lost \/ ReadsSensor \/ ReadsZeros \/ ReadFails
          => noise' \in Nat /\ disturbed' \in BOOLEAN
    BY <2>g, Zenon DEF Clear, Lost, ReadsSensor, ReadsZeros, ReadFails
  <2>r. \A t \in Int : Returned(t) => temp' \in Int /\ alarm' \in BOOLEAN /\ pc' = "done"
    <3>1. \A t \in Int : (t > MaxTemp) \in BOOLEAN
      BY ThermometerConstants
    <3> QED
      BY <3>1, Zenon DEF Returned
  <2>1. ASSUME NEW w \in Water, Warm(w) PROVE TypeOK'
    BY <2>1, Zenon DEF Warm, cable, sensor, result
  <2>2. ASSUME NEW device \in {"DS18B20", "other", "none"}, Plug(device) PROVE TypeOK'
    BY <2>2, <2>v, Zenon DEF Plug, result
  <2>3. CASE Short
    BY <2>3, Zenon DEF Short, sensor, result
  <2>4. CASE Measured
    BY <2>4, <2>v, Zenon DEF Measured, cable, result
  <2>5. CASE GetTemp
    BY <2>5, <2>v, Zenon DEF GetTemp, cable, sensor, result
  <2>6. CASE Initialize
    BY <2>6, Zenon DEF Initialize, cable, sensor, result
  <2>7. CASE InitializeFails
    BY <2>7, <2>l, Zenon DEF InitializeFails, cable, sensor, result
  <2>8. CASE ReadConfig
    BY <2>8, <2>l, <2>v, Zenon DEF ReadConfig, cable, sensor, result
  <2>9. CASE WriteConfig
    <3>1. config' \in Resolution /\ noise' \in Nat /\ disturbed' \in BOOLEAN
      BY <2>9, <2>g, <2>l, <2>v, Zenon DEF WriteConfig, NewConfig
    <3> QED
      BY <3>1, <2>9, <2>v, Zenon DEF WriteConfig, cable, result
  <2>10. CASE Convert
    BY <2>10, <2>l, Zenon DEF Convert, cable, result
  <2>11. CASE Waited
    BY <2>11, Zenon DEF Waited, cable, sensor, result
  <2>12. CASE Read
    BY <2>12, <2>c, <2>l, <2>r, Zenon DEF Read, cable, sensor
  <2>13. CASE UNCHANGED vars
    BY <2>13, Zenon DEF vars
  <2> QED
    BY <2>1, <2>2, <2>3, <2>4, <2>5, <2>6, <2>7, <2>8, <2>9, <2>10, <2>11, <2>12,
       <2>13, Zenon DEF Next, Transfers
<1> QED
  BY <1>1, <1>2, PTL DEF Spec

-----------------------------------------------------------------------------
\* The facts about an undisturbed call hold throughout.
LEMMA CallInvHolds == Spec => [](TypeOK /\ CallInv)
<1>1. Init => CallInv
  BY DEF Init, CallInv, Talking
<1>2. TypeOK /\ CallInv /\ [Next]_vars => CallInv'
  <2> SUFFICES ASSUME TypeOK, CallInv, [Next]_vars PROVE CallInv'
    OBVIOUS
  <2> USE DEF CallInv, Talking, Present
  <2>1. ASSUME NEW w \in Water, Warm(w) PROVE CallInv'
    BY <2>1 DEF Warm, cable, sensor, result
  <2>2. ASSUME NEW device \in {"DS18B20", "other", "none"}, Plug(device) PROVE CallInv'
    BY <2>2 DEF Plug, result
  <2>3. CASE Short
    BY <2>3 DEF Short, sensor, result
  <2>4. CASE Measured
    BY <2>4 DEF Measured, cable, result
  <2>5. CASE GetTemp
    BY <2>5 DEF GetTemp, cable, sensor, result
  <2>6. CASE Initialize
    BY <2>6 DEF Initialize, cable, sensor, result
  <2>7. CASE InitializeFails
    BY <2>7 DEF InitializeFails, Lost, Garbled, cable, sensor, result
  <2>8. CASE ReadConfig
    BY <2>8 DEF ReadConfig, ReadsSensor, ReadsZeros, ReadFails, Clear, Garbled,
                cable, sensor, result
  <2>9. CASE WriteConfig
    BY <2>9 DEF WriteConfig, Clear, Lost, Garbled, NewConfig, cable, result
  <2>10. CASE Convert
    BY <2>10 DEF Convert, Clear, Lost, Garbled, cable, result
  <2>11. CASE Waited
    <3>1. ~disturbed => ~converting
      <4>1. ASSUME ~disturbed PROVE ConversionTime(config) = ConversionTime(resolution)
        BY <4>1, <2>11 DEF Waited, ConversionTime
      <4>2. ConversionTime(resolution) \in Nat
        BY DEF ConversionTime, twelveBit
      <4> QED
        BY <4>1, <4>2, <2>11 DEF Waited
    <3> QED
      BY <3>1, <2>11 DEF Waited, cable, sensor, result
  <2>12. CASE Read
    BY <2>12 DEF Read, Returned, cable, sensor
  <2>13. CASE UNCHANGED vars
    BY <2>13 DEF vars
  <2> QED
    BY <2>1, <2>2, <2>3, <2>4, <2>5, <2>6, <2>7, <2>8, <2>9, <2>10, <2>11, <2>12,
       <2>13 DEF Next, Transfers
<1> QED
  BY <1>1, <1>2, TypeCorrect, PTL DEF Spec

\* The step that ends an undisturbed call has read what the sensor measured.
LEMMA UndisturbedRead ==
    ASSUME TypeOK, CallInv, Next, pc = "read", pc' = "done", ~disturbed'
    PROVE  register \in waters /\ Returned(Signed(register))
<1>1. Read
  BY DEF Next, Transfers, Warm, Plug, Short, Measured, GetTemp, InitializeFails,
         Initialize, ReadConfig, WriteConfig, Convert, Waited
<1>2. ~disturbed /\ ~ReadsZeros /\ ~ReadFails
  BY <1>1 DEF Read, ReadsSensor, ReadsZeros, ReadFails, Clear, Garbled, CallInv,
              Talking, Present
<1>3. Returned(Calculated(register, config))
  BY <1>1, <1>2 DEF Read
<1>4. config = twelveBit /\ register \in waters
  BY <1>2 DEF CallInv
<1>5. Calculated(register, config) = Signed(register)
  BY <1>4 DEF Calculated
<1> QED
  BY <1>3, <1>4, <1>5

\* An undisturbed call of getTemp returns a temperature of the water during
\* that call, with its sign (OneWireThermometer.cpp:138-167).
THEOREM UndisturbedCallIsRight == Spec => UndisturbedIsRight
<1>1. TypeOK /\ CallInv /\ [Next]_vars =>
        [pc = "read" /\ pc' = "done" /\ ~disturbed' =>
            \E w \in waters : temp' = Signed(w)]_vars
  BY UndisturbedRead DEF Returned
<1> QED
  BY <1>1, CallInvHolds, PTL DEF Spec, UndisturbedIsRight

\* Water that is too hot during all of an undisturbed call raises the alarm
\* (temperature.cpp:42-48).
THEOREM HotWaterIsAlarmed == Spec => HotIsAlarmed
<1>1. TypeOK /\ CallInv /\ [Next]_vars =>
        [pc = "read" /\ pc' = "done" /\ ~disturbed'
           /\ (\A w \in waters : Signed(w) > MaxTemp) => alarm']_vars
  <2> SUFFICES ASSUME TypeOK, CallInv, Next, pc = "read", pc' = "done", ~disturbed',
                      \A w \in waters : Signed(w) > MaxTemp
               PROVE alarm'
    OBVIOUS
  <2>1. Signed(register) > MaxTemp /\ alarm' = (Signed(register) > MaxTemp)
    BY UndisturbedRead DEF Returned
  <2> QED
    BY <2>1, Zenon
<1> QED
  BY <1>1, CallInvHolds, PTL DEF Spec, HotIsAlarmed

-----------------------------------------------------------------------------
(* The search *)

Within == slot # "none" => pc = "initialize"

\* A slot changes nothing the thermometer knows, or it is stretched.
LEMMA SlotIsQuiet ==
    ASSUME Quiet, pc = "initialize",
           UNCHANGED <<noise, disturbed>> \/ Garbled
    PROVE  InitializeFails \/ UNCHANGED vars
<1>1. CASE UNCHANGED <<noise, disturbed>>
  BY <1>1, Zenon DEF Quiet, vars, cable, sensor, result
<1>2. CASE Garbled
  BY <1>2, Zenon DEF Quiet, InitializeFails, Lost
<1> QED
  BY <1>1, <1>2

LEMMA ReadsIsQuiet ==
    ASSUME NEW value, NEW bit, Reads(value, bit)
    PROVE  UNCHANGED <<noise, disturbed>> \/ Garbled
BY Zenon DEF Reads, InTime, Late, ResetHeard

LEMMA StepIsThermometer ==
    ASSUME Within, SearchNext
    PROVE  Within' /\ (Next \/ UNCHANGED vars)
<1>1. CASE \E w \in Water : Warm(w) /\ UNCHANGED search
  <2>1. PICK w \in Water : Warm(w) /\ UNCHANGED search
    BY <1>1
  <2> QED
    BY <2>1, Zenon DEF Next, Within, Warm, search
<1>2. CASE CableMoves
  <2>1. UNCHANGED <<slot, pc>>
    BY <1>2, Zenon DEF CableMoves, Plug, Short
  <2> QED
    BY <1>2, <2>1, Zenon DEF CableMoves, Next, Within
<1>3. CASE Measured /\ UNCHANGED search
  BY <1>3, Zenon DEF Measured, Next, Within, search
<1>4. CASE GetTemp /\ UNCHANGED search
  BY <1>4, Zenon DEF GetTemp, Next, Within, search
<1>5. CASE StartSearch
  <2>1. UNCHANGED <<noise, disturbed>> \/ Garbled
    BY <1>5, Zenon DEF StartSearch, ResetHeard
  <2> QED
    BY <1>5, <2>1, SlotIsQuiet, Zenon DEF StartSearch, Quiet, Next, Within
<1>6. CASE NoPresence
  BY <1>6, Zenon DEF NoPresence, InitializeFails, Next, Within, search
<1>7. CASE ReadBit
  <2>1. pc = "initialize" /\ Quiet
    BY <1>7 DEF ReadBit, Within
  <2>2. UNCHANGED <<noise, disturbed>> \/ Garbled
    BY <1>7, ReadsIsQuiet, Zenon DEF ReadBit
  <2> QED
    BY <2>1, <2>2, SlotIsQuiet, Zenon DEF Quiet, Next, Within
<1>8. CASE ReadComplement
  <2>1. pc = "initialize" /\ Quiet
    BY <1>8 DEF ReadComplement, Within
  <2>2. UNCHANGED <<noise, disturbed>> \/ Garbled
    BY <1>8, ReadsIsQuiet, Zenon DEF ReadComplement
  <2> QED
    BY <2>1, <2>2, SlotIsQuiet, Zenon DEF Quiet, Next, Within
<1>9. CASE WriteBit
  <2>1. pc = "initialize" /\ Quiet
    BY <1>9 DEF WriteBit, Within
  <2>2. UNCHANGED <<noise, disturbed>> \/ Garbled
    BY <1>9, Zenon DEF WriteBit, ResetHeard
  <2> QED
    BY <2>1, <2>2, SlotIsQuiet, Zenon DEF Quiet, Next, Within
<1>10. CASE Accept
  BY <1>10, Zenon DEF Accept, Over, Next, Within
<1>11. CASE Reject
  BY <1>11, Zenon DEF Reject, Over, Within
<1>12. CASE Transfers /\ UNCHANGED search
  <2>1. slot = "none"
    BY <1>12 DEF Transfers, Within, ReadConfig, WriteConfig, Convert, Waited, Read
  <2> QED
    BY <1>12, <2>1, Zenon DEF Next, Within, search
<1> QED
  BY <1>1, <1>2, <1>3, <1>4, <1>5, <1>6, <1>7, <1>8, <1>9, <1>10, <1>11, <1>12,
     Zenon DEF SearchNext

\* The call with its search is the call of Thermometer: what the search leaves
\* behind, and where it is given up, makes no difference to it
\* (OneWireThermometer::initialize).
THEOREM SearchIsHidden == SearchSpec => ImplementsThermometer
<1>1. SearchInit => Init /\ Within
  BY DEF SearchInit, NoSearch, Within
<1>2. Within /\ [SearchNext]_allVars => Within' /\ [Next]_vars
  <2>1. Within /\ UNCHANGED allVars => Within' /\ UNCHANGED vars
    BY Zenon DEF allVars, search, vars, Within
  <2> QED
    BY <2>1, StepIsThermometer
<1> QED
  BY <1>1, <1>2, PTL DEF SearchSpec, ImplementsThermometer, Spec

\* With the search slot by slot as well, an undisturbed call returns a temperature
\* of the water during that call, and raises the alarm if it is too hot.
THEOREM CallWithSearchIsRight == SearchSpec => UndisturbedIsRight /\ HotIsAlarmed
BY SearchIsHidden, UndisturbedCallIsRight, HotWaterIsAlarmed DEF ImplementsThermometer

-----------------------------------------------------------------------------
(* The address: every stretched slot can hide two bits of it, no more *)

\* Bits that a pulse may still hide which reaches n readings.
Behind(n) == IF n = 3 THEN 2 ELSE IF n > 0 THEN 1 ELSE 0

Mistaken == IF a # Sent THEN 1 ELSE 0

\* Bits that may still be taken wrong.  A one that was read of an idle line is
\* followed by another one, and the search given up.
Pending ==
    CASE slot = "bit"   -> Behind(pulse)
      [] slot = "not"   -> IF a = 1 /\ pulse = 0 THEN 0 ELSE Mistaken + Behind(pulse - 1)
      [] slot = "write" -> Mistaken + Behind(pulse)
      [] OTHER          -> 0

Wrong == {p \in 0 .. i - 1 : address[p] # RomOf[plugged][p]}

SearchShape ==
    /\ SearchTypeOK
    /\ slot = "none" => ~answers
    /\ slot = "end" => i = Bits

\* Only a device that is there and not shorted hears, and only while search()
\* runs.
LEMMA ShapeStep ==
    ASSUME TypeOK, SearchShape, [SearchNext]_allVars
    PROVE  SearchShape'
<1> USE DEF SearchShape, SearchTypeOK, Position
<1>b. /\ Bits \in Nat /\ Bits > 0 /\ PulseSlots \in 0 .. 3
      /\ 0 \in 0 .. Bits /\ 0 \in 0 .. Bits - 1
      /\ 0 \in 0 .. PulseSlots /\ PulseSlots \in 0 .. PulseSlots
  BY RomConstants
<1>p. pulse \in 0 .. PulseSlots /\ Sampled => pulse' \in 0 .. PulseSlots
  BY <1>b DEF Sampled
<1>h. ResetHeard => pulse' \in 0 .. PulseSlots /\ answers' = FALSE
  BY <1>b DEF ResetHeard
<1>r. \A value, bit : Reads(value, bit) =>
        pulse' \in 0 .. PulseSlots /\ (answers' = FALSE \/ answers' = answers)
  BY <1>p, <1>h, Zenon DEF Reads, InTime, Late
<1>a. answers' = FALSE \/ answers' = answers
        => answers' \in BOOLEAN /\ (answers' => answers)
  <2>1. answers \in BOOLEAN
    OBVIOUS
  <2>2. ASSUME answers' = answers PROVE answers' \in BOOLEAN /\ (answers' => answers)
    <3>1. answers' \in BOOLEAN
      BY ONLY <2>1, <2>2, Zenon
    <3>2. answers' => answers
      BY ONLY <2>2, Zenon
    <3> QED
      BY <3>1, <3>2
  <2>3. ASSUME answers' = FALSE PROVE answers' \in BOOLEAN /\ (answers' => answers)
    BY ONLY <2>3, Zenon
  <2> QED
    BY <2>2, <2>3
<1>c. Quiet => UNCHANGED <<plugged, shorted, pc>>
  BY DEF Quiet, cable
<1>z. Zeros \in Word
  BY DEF Zeros, Word
<1>o. Over => slot' = "none" /\ SearchShape'
  BY <1>b, <1>z, Zenon DEF Over
<1>1. ASSUME UNCHANGED search, UNCHANGED cable, UNCHANGED pc \/ slot = "none"
      PROVE  SearchShape'
  <2>1. UNCHANGED <<slot, i, a, address, answers, pulse, touched, plugged, shorted>>
    BY <1>1 DEF search, cable
  <2> QED
    BY <1>1, <2>1
<1>2. CASE CableMoves
  <2>1. UNCHANGED <<slot, i, a, address, pc>>
    BY <1>2, Zenon DEF CableMoves, Plug, Short
  <2>2. CASE slot = "none"
    BY <1>2, <2>1, <2>2 DEF CableMoves
  <2>3. CASE slot # "none"
    BY <1>2, <1>b, <2>1, <2>3, Zenon DEF CableMoves
  <2> QED
    BY <2>2, <2>3
<1>3. CASE StartSearch
  <2>1. /\ slot' = "bit" /\ i' = 0 /\ a' = 0 /\ address' = Zeros /\ touched' = FALSE
        /\ pc = "initialize" /\ (shorted \/ plugged # "none")
        /\ pulse' \in 0 .. PulseSlots /\ (answers' = FALSE \/ answers' = ~shorted)
    BY <1>3, <1>b, <1>h DEF StartSearch
  <2>2. shorted \in BOOLEAN /\ UNCHANGED <<plugged, shorted, pc>>
    BY <1>3, <1>c DEF StartSearch, TypeOK
  <2> QED
    BY <1>b, <1>z, <2>1, <2>2, Zenon
<1>4. CASE ReadBit
  <2>1. pulse' \in 0 .. PulseSlots /\ (answers' = FALSE \/ answers' = answers)
    BY <1>4, <1>r, Zenon DEF ReadBit
  <2>2. /\ slot = "bit" /\ slot' = "not" /\ a' \in {0, 1}
        /\ UNCHANGED <<i, address, touched, plugged, shorted, pc>>
    BY <1>4, <1>c, Zenon DEF ReadBit
  <2>3. answers' \in BOOLEAN /\ (answers' => answers)
    BY <2>1, <1>a
  <2> QED
    BY <2>1, <2>2, <2>3
<1>5. CASE ReadComplement
  <2>1. pulse' \in 0 .. PulseSlots /\ (answers' = FALSE \/ answers' = answers)
    BY <1>5, <1>r, Zenon DEF ReadComplement
  <2>2. slot' \in {"failed", "write"}
    BY <1>5, Zenon DEF ReadComplement
  <2>3. slot = "not" /\ UNCHANGED <<i, a, address, touched, plugged, shorted, pc>>
    BY <1>5, <1>c, Zenon DEF ReadComplement
  <2>4. answers' \in BOOLEAN /\ (answers' => answers)
    BY <2>1, <1>a
  <2> QED
    BY <2>1, <2>2, <2>3, <2>4
<1>6. CASE WriteBit
  <2>1. /\ i \in Position /\ i' = i + 1 /\ a' = 0 /\ UNCHANGED touched
        /\ slot' = IF i + 1 = Bits THEN "end" ELSE "bit"
        /\ UNCHANGED <<plugged, shorted, pc>> /\ slot # "none"
    BY <1>6, <1>c DEF WriteBit
  <2>2. address' \in Word
    BY <1>6 DEF WriteBit, Word
  <2>3. pulse' \in 0 .. PulseSlots /\ answers' \in BOOLEAN /\ (answers' => answers)
    BY <1>6, <1>h DEF WriteBit
  <2> QED
    BY <1>b, <2>1, <2>2, <2>3
<1>7. CASE Accept
  BY <1>7, <1>o DEF Accept
<1>8. CASE Reject
  BY <1>8, <1>o DEF Reject
<1>9. CASE NoPresence
  BY <1>9, <1>1, Zenon DEF NoPresence, InitializeFails
<1>10. CASE \E w \in Water : Warm(w) /\ UNCHANGED search
  BY <1>10, <1>1, Zenon DEF Warm
<1>11. CASE Measured /\ UNCHANGED search
  BY <1>11, <1>1, Zenon DEF Measured
<1>12. CASE GetTemp /\ UNCHANGED search
  <2>1. slot = "none"
    BY <1>12 DEF GetTemp
  <2> QED
    BY <1>12, <1>1, <2>1, Zenon DEF GetTemp
<1>13. CASE Transfers /\ UNCHANGED search
  <2>1. slot = "none"
    BY <1>13 DEF Transfers, ReadConfig, WriteConfig, Convert, Waited, Read
  <2>2. UNCHANGED cable
    BY <1>13, Zenon DEF Transfers, ReadConfig, WriteConfig, Convert, Waited, Read, cable
  <2> QED
    BY <1>13, <1>1, <2>1, <2>2
<1>14. CASE UNCHANGED allVars
  <2>1. UNCHANGED search /\ UNCHANGED cable /\ UNCHANGED pc
    BY <1>14, Zenon DEF allVars, vars, search, cable
  <2> QED
    BY <2>1, <1>1
<1> QED
  BY <1>2, <1>3, <1>4, <1>5, <1>6, <1>7, <1>8, <1>9, <1>10, <1>11, <1>12, <1>13, <1>14,
     Zenon DEF SearchNext

\* The state of the search is well typed, and a bit is only read or written inside
\* the address (OneWireCRC::search).
THEOREM SearchTypeCorrect == SearchSpec => []SearchTypeOK
<1>1. SearchInit => SearchShape
  <2> SUFFICES ASSUME SearchInit PROVE SearchShape
    OBVIOUS
  <2>1. 0 \in 0 .. Bits /\ 0 \in 0 .. PulseSlots /\ Zeros \in Word
    BY RomConstants DEF Zeros, Word, Position
  <2> QED
    BY <2>1, Zenon DEF SearchInit, NoSearch, SearchShape, SearchTypeOK, Position
<1>2. TypeOK /\ SearchShape /\ [SearchNext]_allVars => SearchShape'
  BY ShapeStep
<1>3. SearchSpec => []TypeOK
  BY SearchIsHidden, TypeCorrect DEF ImplementsThermometer
<1>4. SearchShape => SearchTypeOK
  BY DEF SearchShape
<1> QED
  BY <1>1, <1>2, <1>3, <1>4, PTL DEF SearchSpec

AddressInv ==
    slot # "none" /\ ~touched =>
        IF shorted THEN address = Zeros /\ a = 0
        ELSE plugged # "none" /\ Cardinality(Wrong) + Pending <= 2 * noise

LEMMA RomIsWord ==
    ASSUME TypeOK, plugged # "none", i \in Position
    PROVE  Sent \in {0, 1}
<1>1. plugged \in {"DS18B20", "other"}
  BY DEF TypeOK
<1>2. RomOf[plugged] \in Word
  BY <1>1, RomConstants
<1> QED
  BY <1>2 DEF Word, Sent

LEMMA WrongIsFinite ==
    ASSUME i \in 0 .. Bits
    PROVE  IsFiniteSet(Wrong) /\ Cardinality(Wrong) \in Nat
<1>1. Bits \in Nat
  BY RomConstants
<1>2. IsFiniteSet(0 .. i - 1)
  BY <1>1, FS_Interval
<1>3. IsFiniteSet(Wrong)
  BY <1>2, FS_Subset DEF Wrong
<1> QED
  BY <1>3, FS_CardinalityType

\* Storing a bit adds it to the wrong ones, or not.
LEMMA WrongGrows ==
    ASSUME i \in Position, address \in Word, UNCHANGED plugged, i' = i + 1,
           address' = [address EXCEPT ![i] = a]
    PROVE  Cardinality(Wrong') = Cardinality(Wrong) + Mistaken
<1>1. Bits \in Nat /\ i \in 0 .. Bits
  BY RomConstants DEF Position
<1>2. IsFiniteSet(Wrong) /\ Cardinality(Wrong) \in Nat
  BY <1>1, WrongIsFinite
<1>3. i \notin Wrong
  BY <1>1 DEF Wrong
<1>4. address'[i] = a /\ \A p \in 0 .. i - 1 : address'[p] = address[p]
  BY <1>1 DEF Word, Position
<1>5. 0 .. i' - 1 = (0 .. i - 1) \cup {i}
  BY <1>1
<1>6. Wrong' = {p \in 0 .. i' - 1 : address'[p] # RomOf[plugged][p]}
  BY DEF Wrong
<1>7. CASE a = Sent
  <2>1. Wrong' = Wrong
    BY <1>4, <1>5, <1>6, <1>7 DEF Wrong, Sent
  <2> QED
    BY <1>2, <1>7, <2>1 DEF Mistaken
<1>8. CASE a # Sent
  <2>1. Wrong' = Wrong \cup {i}
    BY <1>4, <1>5, <1>6, <1>8 DEF Wrong, Sent
  <2>2. Cardinality(Wrong \cup {i}) = Cardinality(Wrong) + 1
    BY <1>2, <1>3, FS_AddElement
  <2> QED
    BY <1>8, <2>1, <2>2 DEF Mistaken
<1> QED
  BY <1>7, <1>8

\* What a reading of a line that is not shorted can be.
LEMMA ReadsCases ==
    ASSUME TypeOK, SearchShape, ~shorted, plugged # "none",
           NEW value \in {0, 1}, NEW bit \in {0, 1}, Reads(value, bit)
    PROVE  \/ pulse > 0 /\ pulse' = pulse - 1 /\ noise' \in {noise, noise + 1}
           \/ /\ pulse = 0 /\ pulse' = 0 /\ noise' \in {noise, noise + 1}
              /\ (value = bit /\ answers) \/ value = 1
           \/ pulse' \in 0 .. 3 /\ noise' = noise + 1 /\ (pulse = 0 => value = 1)
<1>1. noise \in Nat /\ pulse \in 0 .. 3 /\ PulseSlots \in 0 .. 3
  BY RomConstants DEF TypeOK, SearchShape, SearchTypeOK
<1>2. CASE value \in Line(bit) /\ InTime /\ Sampled
  BY <1>1, <1>2 DEF Line, InTime, Sampled
<1>3. CASE value \in Line(1) /\ Late /\ Sampled
  BY <1>1, <1>3 DEF Line, Late, Garbled, Sampled
<1>4. CASE value \in Line(1) /\ ResetHeard
  BY <1>1, <1>4 DEF Line, ResetHeard, Garbled
<1> QED
  BY <1>2, <1>3, <1>4 DEF Reads

LEMMA ShortedReadsZero ==
    ASSUME shorted, NEW value, NEW bit, Reads(value, bit)
    PROVE  value = 0
BY DEF Reads, Line

\* The line was not shorted, and is not by now: what the three kinds of slot do.
LEMMA SlotKeepsCount ==
    ASSUME TypeOK, SearchShape, AddressInv, ~touched, ~shorted, UNCHANGED plugged,
           ReadBit \/ ReadComplement \/ WriteBit
    PROVE  Cardinality(Wrong') + Pending' <= 2 * noise'
<1>0. /\ i \in Position /\ i \in 0 .. Bits /\ Bits \in Nat /\ slot # "none"
      /\ pulse \in 0 .. 3 /\ PulseSlots \in 0 .. 3 /\ a \in {0, 1}
      /\ noise \in Nat /\ address \in Word
  BY RomConstants DEF ReadBit, ReadComplement, WriteBit, SearchShape, SearchTypeOK,
     TypeOK, Position
<1>1. plugged # "none" /\ Cardinality(Wrong) + Pending <= 2 * noise
  BY <1>0 DEF AddressInv
<1>2. Cardinality(Wrong) \in Nat
  BY <1>0, WrongIsFinite
<1>3. Sent \in {0, 1}
  BY <1>0, <1>1, RomIsWord
<1>4. CASE ReadBit
  <2>1. /\ slot = "bit" /\ slot' = "not" /\ a' \in {0, 1} /\ Reads(a', Sent)
        /\ UNCHANGED <<i, address, plugged>>
    BY <1>4 DEF ReadBit
  <2>2. Wrong' = Wrong /\ Sent' = Sent
    BY <2>1 DEF Wrong, Sent
  <2>3. \/ pulse > 0 /\ pulse' = pulse - 1 /\ noise' \in {noise, noise + 1}
        \/ /\ pulse = 0 /\ pulse' = 0 /\ noise' \in {noise, noise + 1}
           /\ (a' = Sent /\ answers) \/ a' = 1
        \/ pulse' \in 0 .. 3 /\ noise' = noise + 1 /\ (pulse = 0 => a' = 1)
    BY <2>1, <1>1, <1>3, ReadsCases
  <2>4. Pending = Behind(pulse)
    BY <2>1 DEF Pending
  <2>5. /\ Pending' = IF a' = 1 /\ pulse' = 0 THEN 0 ELSE Mistaken' + Behind(pulse' - 1)
        /\ Mistaken' = IF a' # Sent THEN 1 ELSE 0
    BY <2>1, <2>2 DEF Pending, Mistaken
  <2> QED
    BY <2>2, <2>3, <2>4, <2>5, <1>0, <1>1, <1>2, <1>3 DEF Behind
<1>5. CASE ReadComplement
  <2>1. PICK value \in {0, 1} :
          /\ Reads(value, 1 - Sent)
          /\ slot' = IF a = 1 /\ value = 1 THEN "failed" ELSE "write"
    BY <1>5 DEF ReadComplement
  <2>2. slot = "not" /\ UNCHANGED <<i, a, address, plugged>>
    BY <1>5 DEF ReadComplement
  <2>3. Wrong' = Wrong /\ Mistaken' = Mistaken /\ Mistaken \in {0, 1}
    BY <2>2 DEF Wrong, Mistaken, Sent
  <2>4. \/ pulse > 0 /\ pulse' = pulse - 1 /\ noise' \in {noise, noise + 1}
        \/ pulse = 0 /\ pulse' = 0 /\ noise' \in {noise, noise + 1}
             /\ ((value = 1 - Sent /\ answers) \/ value = 1)
        \/ pulse' \in 0 .. 3 /\ noise' = noise + 1 /\ (pulse = 0 => value = 1)
    <3>1. 1 - Sent \in {0, 1}
      BY <1>3
    <3> QED
      BY <2>1, <3>1, <1>1, ReadsCases
  <2>5. Pending = IF a = 1 /\ pulse = 0 THEN 0 ELSE Mistaken + Behind(pulse - 1)
    BY <2>2 DEF Pending
  <2>6. CASE a = 1 /\ value = 1
    <3>1. Pending' = 0
      BY <2>1, <2>6 DEF Pending
    <3> QED
      BY <3>1, <2>3, <2>4, <2>5, <1>0, <1>1, <1>2 DEF Behind
  <2>7. CASE ~(a = 1 /\ value = 1)
    <3>1. Pending' = Mistaken + Behind(pulse')
      BY <2>1, <2>3, <2>7 DEF Pending
    <3>2. a = 1 /\ value = 1 - Sent => Mistaken = 0
      BY <2>7, <1>3 DEF Mistaken
    <3> QED
      BY <3>1, <3>2, <2>1, <2>3, <2>4, <2>5, <2>7, <1>0, <1>1, <1>2 DEF Behind
  <2> QED
    BY <2>6, <2>7
<1>6. CASE WriteBit
  <2>1. /\ slot = "write" /\ slot' \in {"bit", "end"} /\ i' = i + 1
        /\ address' = [address EXCEPT ![i] = a]
    BY <1>6 DEF WriteBit
  <2>2. Cardinality(Wrong') = Cardinality(Wrong) + Mistaken
    BY <2>1, <1>0, WrongGrows
  <2>3. Pending = Mistaken + Behind(pulse) /\ Mistaken \in {0, 1}
    BY <2>1 DEF Pending, Mistaken
  <2>4. Pending' = Behind(pulse') \/ Pending' = 0
    BY <2>1 DEF Pending
  <2>5. \/ pulse' = pulse /\ noise' \in {noise, noise + 1}
        \/ pulse' \in 0 .. 3 /\ noise' = noise + 1
    BY <1>6, <1>0 DEF WriteBit, Garbled, ResetHeard
  <2> QED
    BY <2>2, <2>3, <2>4, <2>5, <1>0, <1>1, <1>2 DEF Behind
<1> QED
  BY <1>4, <1>5, <1>6

LEMMA AddressStep ==
    ASSUME TypeOK, SearchShape, AddressInv, [SearchNext]_allVars
    PROVE  AddressInv'
<1>1. ASSUME UNCHANGED search, slot = "none" PROVE AddressInv'
  BY <1>1 DEF AddressInv, search
<1>2. ASSUME UNCHANGED search, UNCHANGED cable, UNCHANGED noise PROVE AddressInv'
  BY <1>2 DEF AddressInv, search, cable, Wrong, Pending, Mistaken, Sent
<1>3. CASE CableMoves
  BY <1>3 DEF CableMoves, AddressInv
<1>4. CASE StartSearch
  <2>1. /\ slot' = "bit" /\ i' = 0 /\ a' = 0 /\ address' = Zeros
        /\ UNCHANGED <<plugged, shorted>> /\ (shorted \/ plugged # "none")
    BY <1>4 DEF StartSearch, Quiet, cable
  <2>2. \/ pulse' = 0 /\ noise' \in {noise, noise + 1}
        \/ pulse' \in 0 .. 3 /\ noise' = noise + 1
    BY <1>4, RomConstants DEF StartSearch, Garbled, ResetHeard, TypeOK
  <2>3. Wrong' = {}
    BY <2>1 DEF Wrong
  <2>4. Cardinality(Wrong') = 0
    BY <2>3, FS_EmptySet
  <2>5. Pending' = Behind(pulse')
    BY <2>1 DEF Pending
  <2>6. Cardinality(Wrong') + Pending' <= 2 * noise'
    BY <2>2, <2>4, <2>5 DEF Behind, TypeOK
  <2> QED
    BY <2>1, <2>6 DEF AddressInv
<1>5. CASE ReadBit \/ ReadComplement \/ WriteBit
  <2>1. UNCHANGED <<plugged, shorted, touched>> /\ slot # "none"
    BY <1>5 DEF ReadBit, ReadComplement, WriteBit, Quiet, cable
  <2>2. CASE touched
    BY <2>1, <2>2 DEF AddressInv
  <2>3. CASE ~touched /\ shorted
    <3>1. address = Zeros /\ a = 0
      BY <2>1, <2>3 DEF AddressInv
    <3>2. CASE ReadBit
      BY <3>1, <3>2, <2>1, <2>3, ShortedReadsZero DEF ReadBit, AddressInv
    <3>3. CASE ReadComplement
      BY <3>1, <3>3, <2>1, <2>3 DEF ReadComplement, AddressInv
    <3>4. CASE WriteBit
      <4>1. i \in Position /\ address' = [Zeros EXCEPT ![i] = 0] /\ a' = 0
        BY <3>1, <3>4 DEF WriteBit, SearchShape, SearchTypeOK
      <4>2. address' = Zeros
        BY <4>1 DEF Zeros
      <4> QED
        BY <4>1, <4>2, <2>1, <2>3 DEF AddressInv
    <3> QED
      BY <1>5, <3>2, <3>3, <3>4
  <2>4. CASE ~touched /\ ~shorted
    <3>1. Cardinality(Wrong') + Pending' <= 2 * noise'
      BY <1>5, <2>1, <2>4, SlotKeepsCount
    <3>2. plugged' # "none"
      BY <2>1, <2>4 DEF AddressInv
    <3> QED
      BY <3>1, <3>2, <2>1, <2>4 DEF AddressInv
  <2> QED
    BY <2>2, <2>3, <2>4
<1>6. CASE Accept \/ Reject
  BY <1>6 DEF Accept, Reject, Over, AddressInv
<1>7. CASE NoPresence
  BY <1>7, <1>1 DEF NoPresence
<1>8. CASE \E w \in Water : Warm(w) /\ UNCHANGED search
  BY <1>8, <1>2 DEF Warm
<1>9. CASE Measured /\ UNCHANGED search
  BY <1>9, <1>2 DEF Measured
<1>10. CASE (GetTemp \/ Transfers) /\ UNCHANGED search
  <2>1. slot = "none"
    BY <1>10 DEF GetTemp, Transfers, ReadConfig, WriteConfig, Convert, Waited, Read,
       SearchShape, SearchTypeOK
  <2> QED
    BY <1>10, <1>1, <2>1
<1>11. CASE UNCHANGED allVars
  BY <1>11, <1>2, Zenon DEF allVars, vars, search, cable
<1> QED
  BY <1>3, <1>4, <1>5, <1>6, <1>7, <1>8, <1>9, <1>10, <1>11, Zenon DEF SearchNext

Bounded == noise <= MaxNoise

LEMMA BoundedStep ==
    ASSUME TypeOK, Bounded, [SearchNext]_allVars, Within
    PROVE  Bounded'
<1>0. MaxNoise \in Nat /\ noise \in Nat
  BY ThermometerConstants DEF TypeOK
<1>1. Garbled => Bounded'
  BY <1>0 DEF Garbled, Bounded
<1>2. UNCHANGED noise => Bounded'
  BY DEF Bounded
<1>3. GetTemp => Bounded'
  BY <1>0 DEF GetTemp, Bounded
<1>4. Next => UNCHANGED noise \/ Garbled \/ GetTemp
  BY Zenon DEF Next, Transfers, Warm, Plug, Short, Measured, Initialize,
     InitializeFails, ReadConfig, WriteConfig, Convert, Waited, Read, Clear, Lost,
     ReadsSensor, ReadsZeros, ReadFails
<1>5. UNCHANGED vars => UNCHANGED noise
  BY Zenon DEF vars
<1>6. UNCHANGED allVars => UNCHANGED vars
  BY Zenon DEF allVars
<1> QED
  BY <1>1, <1>2, <1>3, <1>4, <1>5, <1>6, StepIsThermometer

\* What is accepted when nobody has touched the cable is the sensor's address.
LEMMA AcceptedAddress ==
    ASSUME TypeOK, SearchShape, AddressInv, Bounded, ~touched, Accept
    PROVE  plugged = "DS18B20" /\ address = RomOf["DS18B20"]
<1>0. /\ slot = "end" /\ i = Bits /\ address \in Word /\ address \in Codes
      /\ SameFamily(address, RomOf["DS18B20"])
  BY DEF Accept, Accepted, SearchShape, SearchTypeOK
<1>1. ~shorted
  <2>1. CASE shorted
    <3>1. address = Zeros
      BY <1>0, <2>1 DEF AddressInv
    <3> QED
      BY <1>0, <3>1, RomConstants DEF SameFamily
  <2> QED
    BY <2>1
<1>2. plugged \in {"DS18B20", "other"} /\ RomOf[plugged] \in Codes
  <2>1. plugged \in {"DS18B20", "other"}
    BY <1>0, <1>1 DEF AddressInv, TypeOK
  <2> QED
    BY <2>1, RomConstants
<1>3. address = RomOf[plugged]
  <2>1. Cardinality(Wrong) <= 2 * MaxNoise
    <3>1. Cardinality(Wrong) + Pending <= 2 * noise /\ Pending = 0
      BY <1>0, <1>1 DEF AddressInv, Pending
    <3>2. Cardinality(Wrong) \in Nat /\ MaxNoise \in Nat /\ noise \in Nat
      BY <1>0, WrongIsFinite, RomConstants, ThermometerConstants DEF TypeOK, SearchShape,
         SearchTypeOK
    <3> QED
      BY <3>1, <3>2 DEF Bounded
  <2>2. Wrong = {p \in Position : address[p] # RomOf[plugged][p]}
    BY <1>0 DEF Wrong, Position
  <2>3. Cardinality(Wrong) \in Nat /\ 2 * MaxNoise \in Nat
    BY <1>0, WrongIsFinite, ThermometerConstants DEF SearchShape, SearchTypeOK
  <2>4. address # RomOf[plugged] => Cardinality(Wrong) > 2 * MaxNoise
    BY <1>0, <1>2, <2>2, RomConstants
  <2> QED
    BY <2>1, <2>3, <2>4
<1>4. plugged # "other"
  <2>1. CASE plugged = "other"
    <3>1. SameFamily(RomOf["DS18B20"], RomOf["other"])
      BY <1>0, <1>3, <2>1 DEF SameFamily
    <3> QED
      BY <3>1, RomConstants
  <2> QED
    BY <2>1
<1> QED
  BY <1>2, <1>3, <1>4

\* For addresses of every length and any set of words with a right CRC that differ
\* in more than two bits for each stretched slot of a call (RomConstants; with the
\* CRC of the code that is one slot): initialize() accepts only the sensor, unless the cable was touched during the search
\* (OneWireThermometer::initialize).
THEOREM AddressIsTheSensors == SearchSpec => AcceptedIsReal
<1>1. SearchInit => SearchShape /\ AddressInv /\ Bounded /\ Within
  <2> SUFFICES ASSUME SearchInit PROVE SearchShape /\ AddressInv /\ Bounded /\ Within
    OBVIOUS
  <2>1. 0 \in 0 .. Bits /\ 0 \in 0 .. PulseSlots /\ Zeros \in Word
    BY RomConstants DEF Zeros, Word, Position
  <2>2. SearchShape
    BY <2>1, Zenon DEF SearchInit, NoSearch, SearchShape, SearchTypeOK, Position
  <2>3. AddressInv /\ Within
    BY DEF SearchInit, NoSearch, AddressInv, Within
  <2>4. Bounded
    BY ThermometerConstants DEF SearchInit, Init, Bounded
  <2> QED
    BY <2>2, <2>3, <2>4
<1>2. TypeOK /\ SearchShape /\ AddressInv /\ Bounded /\ Within /\ [SearchNext]_allVars
        => SearchShape' /\ AddressInv' /\ Bounded' /\ Within'
  <2>1. Within /\ UNCHANGED allVars => Within'
    BY Zenon DEF allVars, search, vars, Within
  <2> QED
    BY <2>1, ShapeStep, AddressStep, BoundedStep, StepIsThermometer
<1>3. TypeOK /\ SearchShape /\ AddressInv /\ Bounded /\ Within /\ [SearchNext]_allVars
        => [pc = "initialize" /\ pc' = "readConfig" /\ ~touched =>
              plugged = "DS18B20" /\ address = RomOf["DS18B20"]]_allVars
  <2> SUFFICES ASSUME TypeOK, SearchShape, AddressInv, Bounded, ~touched, SearchNext,
                      pc = "initialize", pc' = "readConfig"
               PROVE  plugged = "DS18B20" /\ address = RomOf["DS18B20"]
    OBVIOUS
  <2>1. pc' # pc
    OBVIOUS
  <2>2. ~(UNCHANGED pc)
    BY <2>1
  <2>3. Accept
    BY <2>2, Zenon DEF SearchNext, Warm, CableMoves, Plug, Short, Measured, GetTemp,
       StartSearch, NoPresence, InitializeFails, ReadBit, ReadComplement, WriteBit,
       Quiet, Reject, vars, Transfers, ReadConfig, WriteConfig, Convert, Waited, Read
  <2> QED
    BY <2>3, AcceptedAddress
<1>4. SearchSpec => []TypeOK
  BY SearchIsHidden, TypeCorrect DEF ImplementsThermometer
<1> QED
  BY <1>1, <1>2, <1>3, <1>4, PTL DEF SearchSpec, AcceptedIsReal
=============================================================================
