--------------------------------- MODULE Crc8 ---------------------------------
(***************************************************************************)
(* crc8 of OneWireCRC: by its table, as it is compiled, and bit by bit, as *)
(* the other branch of ONEWIRE_CRC8_TABLE has it.  This is what WaterTemp  *)
(* supposes of the addresses whose CRC is right.                           *)
(***************************************************************************)
EXTENDS Integers, Sequences, Bitwise
LOCAL INSTANCE SequencesExt

Byte == 0 .. 255

dscrc_table == <<
      0, 94,188,226, 97, 63,221,131,194,156,126, 32,163,253, 31, 65,
    157,195, 33,127,252,162, 64, 30, 95,  1,227,189, 62, 96,130,220,
     35,125,159,193, 66, 28,254,160,225,191, 93,  3,128,222, 60, 98,
    190,224,  2, 92,223,129, 99, 61,124, 34,192,158, 29, 67,161,255,
     70, 24,250,164, 39,121,155,197,132,218, 56,102,229,187, 89,  7,
    219,133,103, 57,186,228,  6, 88, 25, 71,165,251,120, 38,196,154,
    101, 59,217,135,  4, 90,184,230,167,249, 27, 69,198,152,122, 36,
    248,166, 68, 26,153,199, 37,123, 58,100,134,216, 91,  5,231,185,
    140,210, 48,110,237,179, 81, 15, 78, 16,242,172, 47,113,147,205,
     17, 79,173,243,112, 46,204,146,211,141,111, 49,178,236, 14, 80,
    175,241, 19, 77,206,144,114, 44,109, 51,209,143, 12, 82,176,238,
     50,108,142,208, 83, 13,239,177,240,174, 76, 18,145,207, 45,115,
    202,148,118, 40,171,245, 23, 73,  8, 86,180,234,105, 55,213,139,
     87,  9,235,181, 54,104,138,212,149,203, 41,119,244,170, 72, 22,
    233,183, 85, 11,136,214, 52,106, 43,117,151,201, 74, 20,246,168,
    116, 42,200,150, 21, 75,169,247,182,232, 10, 84,215,137,107, 53>>

NextCrc(crc, byte) == dscrc_table[(crc ^^ byte) + 1]

crc8(bytes) == FoldLeft(NextCrc, 0, bytes)

\* The last byte is the CRC of the others.
CrcRight(bytes) == crc8(Front(bytes)) = Last(bytes)

\* One bit, and one byte, without the table.
ShiftIn(state, k) ==
    LET mix   == (state.crc ^^ state.inbyte) % 2
        crc   == state.crc \div 2
    IN  [crc |-> IF mix = 1 THEN crc ^^ 140 ELSE crc, inbyte |-> state.inbyte \div 2]

DirectCrc(crc, byte) ==
    FoldLeft(ShiftIn, [crc |-> crc, inbyte |-> byte], [j \in 1 .. 8 |-> j]).crc

-----------------------------------------------------------------------------
(* n bytes that are zero but for the bits p and q, the first bit being 0 *)

Mask(p, k) == IF p \div 8 = k - 1 THEN 2 ^ (p % 8) ELSE 0

Flipped(n, p, q) ==
    [k \in 1 .. n |-> Mask(p, k) + IF p = q THEN 0 ELSE Mask(q, k)]

ADDRESS_SIZE == 8
THERMOM_SCRATCHPAD_SIZE == 9

\* Both branches compute the same CRC (OneWireCRC.cpp:365-429).
ASSUME TableIsDirect ==
    \A byte \in Byte, crc \in {0} \cup {2 ^ k : k \in 0 .. 7} :
        NextCrc(crc, byte) = DirectCrc(crc, byte)

\* What two words with a right CRC differ in has a right CRC.
ASSUME TableIsLinear ==
    \A byte \in Byte, k \in 0 .. 7 :
        NextCrc(0, byte ^^ (2 ^ k)) = NextCrc(0, byte) ^^ NextCrc(0, 2 ^ k)

\* A shorted line reads as a right CRC, a line without a sensor does not.
ASSUME IdleLines ==
    \A n \in {ADDRESS_SIZE, THERMOM_SCRATCHPAD_SIZE} :
        CrcRight([k \in 1 .. n |-> 0]) /\ ~CrcRight([k \in 1 .. n |-> 255])

\* An address or a scratchpad with one or two wrong bits, wherever they are, is
\* told by its CRC (OneWireThermometer.cpp:63, 128).
ASSUME TwoBitsAreTold ==
    \A n \in {ADDRESS_SIZE, THERMOM_SCRATCHPAD_SIZE} :
        \A p, q \in 0 .. 8 * n - 1 : p <= q => ~CrcRight(Flipped(n, p, q))
=============================================================================
