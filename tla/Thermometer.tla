----------------------------- MODULE Thermometer -----------------------------
(***************************************************************************)
(* getTemp (tempMode is the same with the display): initialize until it    *)
(* works, set the resolution, read the temperature, compare it.  The       *)
(* transfers over the wire are one action each, the temperature, the       *)
(* cable and the interrupts that stretch a time slot change between them.  *)
(* WaterTemp has the search of initialize slot by slot.  The program has   *)
(* the object, but its one call, of tempMode, is commented out             *)
(* (main.cpp:219-228): this is what that call would rely on.               *)
(*                                                                         *)
(* A transfer that an interrupt has garbled is not heard by the sensor,    *)
(* or fails its CRC (which is idealized: it always tells, Crc8 says when). *)
(* A line that is shorted to ground reads as zeros, whose CRC is zero.     *)
(***************************************************************************)
EXTENDS Integers

CONSTANTS
    Water,              \* register values of the temperatures of the water
    MaxTemp,            \* maxThreshold, in sixteenths of a degree
    MaxNoise            \* bound: garbled transfers in one call

Register == 0 .. 65535
Resolution == 0 .. 3    \* nineBit, tenBit, elevenBit, twelveBit
twelveBit == 3
PowerOn == 1360         \* 85 degrees, 16 * 85

ASSUME ThermometerConstants ==
    Water \subseteq Register /\ Water # {} /\ MaxTemp \in Int /\ MaxNoise \in Nat

VARIABLES
    plugged,            \* which device is at the cable
    shorted,            \* is the data line shorted to ground?
    water,              \* the temperature now
    register, config,   \* scratchpad of the sensor
    converting,         \* the sensor is measuring
    pc,
    resolution,         \* what the object believes config to be
    readConfig,         \* what the first read has found there, until it is used
    temp, alarm,        \* *temp and the result of getTemp
    noise,              \* garbled transfers in this call
    disturbed,          \* history: since the search that initialize ended
                        \* with began, the cable included
    waters              \* history: temperatures since this call began

vars == <<plugged, shorted, water, register, config, converting, pc,
          resolution, readConfig, temp, alarm, noise, disturbed, waters>>

cable  == <<plugged, shorted>>
sensor == <<register, config, converting>>
result == <<temp, alarm>>

Present == plugged = "DS18B20" /\ ~shorted

-----------------------------------------------------------------------------
(* The water, the cable and the sensor (not code of the repository) *)

Warm(w) ==
    /\ water' = w
    /\ waters' = IF pc = "done" THEN waters ELSE waters \cup {w}
    /\ UNCHANGED <<cable, sensor, pc, resolution, readConfig, result, noise, disturbed>>

\* The sensor wakes up with 85 degrees and the resolution of its EEPROM,
\* which the program never writes.
Plug(device) ==
    /\ plugged # device /\ plugged' = device
    /\ register' = PowerOn /\ config' = twelveBit /\ converting' = FALSE
    /\ disturbed' = TRUE
    /\ UNCHANGED <<shorted, water, pc, resolution, readConfig, result, noise, waters>>

Short ==
    /\ shorted' = ~shorted /\ disturbed' = TRUE
    /\ UNCHANGED <<plugged, water, sensor, pc, resolution, readConfig, result,
                   noise, waters>>

Measured ==
    /\ converting /\ converting' = FALSE /\ register' = water
    /\ UNCHANGED <<cable, water, config, pc, resolution, readConfig, result,
                   noise, disturbed, waters>>

\* How long a conversion takes, in units of 94 ms (CONVERSION_TIME).
ConversionTime(r) == 2 ^ r

-----------------------------------------------------------------------------
(* A transfer that succeeds, and one that does not *)

Clear == Present /\ UNCHANGED <<noise, disturbed>>

Garbled ==
    /\ noise < MaxNoise
    /\ noise' = noise + 1 /\ disturbed' = TRUE

Lost == (~Present /\ UNCHANGED <<noise, disturbed>>) \/ Garbled

\* readAndValidateData returns true.
ReadsSensor == Clear
ReadsZeros  == shorted /\ UNCHANGED <<noise, disturbed>>
ReadFails   == (plugged # "DS18B20" /\ ~shorted /\ UNCHANGED <<noise, disturbed>>) \/ Garbled

\* The register as a signed number, and calculateTemperature.
Signed(reg) == IF reg >= 32768 THEN -((65535 - reg) + 1) ELSE reg

\* Mutant: the sign is not taken from the register.
CalculatedUnsigned(reg, conf) ==
    IF conf = twelveBit THEN reg ELSE (reg % 65536) - (reg % 2 ^ (3 - conf))

\* The masks clear the upper half of a negative number as well.
Calculated(reg, conf) ==
    LET t == Signed(reg)
    IN  IF conf = twelveBit THEN t ELSE (t % 65536) - (t % 2 ^ (3 - conf))

Failed == -16 * 999

-----------------------------------------------------------------------------
GetTemp ==
    /\ pc = "done" /\ pc' = "initialize"
    /\ noise' = 0 /\ waters' = {water}
    /\ UNCHANGED <<cable, water, sensor, resolution, readConfig, result, disturbed>>

\* Mutant: after one failure the address is not accepted any more.
InitializeOnce ==
    /\ pc = "initialize" /\ noise = 0
    /\ pc' = "readConfig" /\ disturbed' \in {TRUE, ~Present}
    /\ UNCHANGED <<cable, water, sensor, resolution, readConfig, result, noise, waters>>

\* The search has found an address whose CRC and family are right.  The
\* sensor may be gone by now; the call is disturbed if the cable has been
\* touched during the search.
Initialize ==
    /\ pc = "initialize"
    /\ pc' = "readConfig" /\ disturbed' \in {TRUE, ~Present}
    /\ UNCHANGED <<cable, water, sensor, resolution, readConfig, result, noise, waters>>

\* It does not: initialize returns false and is called again.
InitializeFails ==
    /\ pc = "initialize" /\ Lost
    /\ UNCHANGED <<cable, water, sensor, pc, resolution, readConfig, result, waters>>

\* setResolution(twelveBit) reads the scratchpad ...
ReadConfig ==
    /\ pc = "readConfig"
    /\ \/ ReadsSensor /\ readConfig' = config /\ pc' = "writeConfig"
       \/ ReadsZeros /\ readConfig' = 0 /\ pc' = "writeConfig"
       \/ ReadFails /\ pc' = "convert" /\ UNCHANGED readConfig
    /\ UNCHANGED <<cable, water, sensor, resolution, result, waters>>

\* Mutant: the old resolution is not cleared, the new one is added.
NewConfigAdded(read, new) == read + new

\* read & 0x9F clears the two bits, the exclusive or sets them.
NewConfig(read, new) == new

\* ... and writes it back; garbled, any configuration may arrive.
WriteConfig ==
    /\ pc = "writeConfig" /\ pc' = "convert"
    /\ \/ Clear /\ config' = NewConfig(readConfig, twelveBit)
       \/ ~Present /\ Lost /\ UNCHANGED config
       \/ Present /\ Garbled /\ config' \in Resolution
    /\ resolution' = twelveBit /\ readConfig' = twelveBit
    /\ UNCHANGED <<cable, water, register, converting, result, waters>>

\* readTemperature: CONVERT ...
Convert ==
    /\ pc = "convert" /\ pc' = "wait"
    /\ \/ Clear /\ converting' = TRUE
       \/ Lost /\ UNCHANGED converting
    /\ UNCHANGED <<cable, water, register, config, resolution, readConfig, result, waters>>

\* Mutant: the wait is only there for parasitic power.
WaitedNot ==
    /\ pc = "wait" /\ pc' = "read"
    /\ UNCHANGED <<cable, water, sensor, resolution, readConfig, result, noise,
                   disturbed, waters>>

\* ... the wait for the conversion, long enough if config is what the object
\* believes ...
Waited ==
    /\ pc = "wait" /\ pc' = "read"
    /\ converting => ConversionTime(config) > ConversionTime(resolution)
    /\ UNCHANGED <<cable, water, sensor, resolution, readConfig, result, noise,
                   disturbed, waters>>

\* Mutant: the temperature is rounded to degrees before it is compared.
ReturnedDegrees(t) ==
    /\ temp' = t /\ alarm' = (t \div 16 > MaxTemp) /\ pc' = "done"

\* ... and the reading, that getTemp compares.
Returned(t) ==
    /\ temp' = t /\ alarm' = (t > MaxTemp) /\ pc' = "done"

Read ==
    /\ pc = "read"
    /\ \/ ReadsSensor /\ Returned(Calculated(register, config))
       \/ ReadsZeros /\ Returned(Calculated(0, 0))
       \/ ReadFails /\ Returned(Failed)
    /\ UNCHANGED <<cable, water, sensor, resolution, readConfig, waters>>

-----------------------------------------------------------------------------
Init ==
    /\ plugged = "DS18B20" /\ shorted = FALSE /\ water \in Water
    /\ register = PowerOn /\ config = twelveBit /\ converting = FALSE
    /\ pc = "done" /\ resolution = twelveBit /\ readConfig = twelveBit
    /\ temp = Failed /\ alarm = FALSE
    /\ noise = 0 /\ disturbed = FALSE /\ waters = {}

Transfers == ReadConfig \/ WriteConfig \/ Convert \/ Waited \/ Read

Next ==
    \/ \E w \in Water : Warm(w)
    \/ \E device \in {"DS18B20", "other", "none"} : Plug(device)
    \/ Short \/ Measured
    \/ GetTemp \/ Initialize \/ InitializeFails \/ Transfers

Spec == Init /\ [][Next]_vars

-----------------------------------------------------------------------------
(* Properties *)

TypeOK ==
    /\ plugged \in {"DS18B20", "other", "none"} /\ shorted \in BOOLEAN
    /\ water \in Water /\ waters \in SUBSET Water
    /\ register \in Register /\ config \in Resolution /\ converting \in BOOLEAN
    /\ pc \in {"initialize", "readConfig", "writeConfig", "convert", "wait",
               "read", "done"}
    /\ resolution \in Resolution /\ readConfig \in Resolution
    /\ temp \in Int /\ alarm \in BOOLEAN
    /\ noise \in Nat /\ disturbed \in BOOLEAN

\* A call that, from its successful initialize on, has no transfer garbled and
\* the cable left alone returns a temperature that the water had during this
\* call, whatever went wrong in earlier ones or while it was waiting for the
\* sensor: no old measurement, no power-on value, no wrong sign
\* (OneWireThermometer.cpp:138-167, DS18B20.cpp:33-103).
UndisturbedIsRight ==
    [][pc = "read" /\ pc' = "done" /\ ~disturbed' =>
         \E w \in waters : temp' = Signed(w)]_vars

\* Water that is too hot all through an undisturbed call raises the alarm
\* (temperature.cpp:44-47).
HotIsAlarmed ==
    [][pc = "read" /\ pc' = "done" /\ ~disturbed'
         /\ (\A w \in waters : Signed(w) > MaxTemp) => alarm']_vars

\* "Keep calling until it works" (temperature.cpp:39): with a sensor on the
\* line a call returns in the end, even if transfers are garbled.
CallReturns == pc = "initialize" ~> (pc = "done" \/ ~Present)
=============================================================================
