-------------------------------- MODULE Nmea --------------------------------
(***************************************************************************)
(* Sentences of the GPS receiver and what strtok() makes of them.          *)
(*                                                                         *)
(* A byte is abstracted to a cell.  The six characters of an address       *)
(* ("$GPRMC") are one cell, a field is one cell and the checksum with its  *)
(* carriage return is one cell; a comma, a line feed, the NUL that strtok  *)
(* writes and the '0' that rx_irq inserts are cells of their own.  Losing  *)
(* a cell is losing the bytes it stands for.                               *)
(***************************************************************************)
EXTENDS Integers, Sequences, FiniteSets

CONSTANTS
    Comma, LF, Nul, Zero,   \* ',' '\n' '\0' '0'
    CheckSum,               \* "*hh\r"
    Data                    \* the addresses and the field texts

ASSUME CellsDistinct ==
    /\ Comma \notin {LF, Nul, Zero, CheckSum}
    /\ LF \notin {Nul, Zero, CheckSum}
    /\ Nul \notin {Zero, CheckSum}
    /\ Zero # CheckSum
    /\ {Comma, LF, Nul, Zero, CheckSum} \cap Data = {}

Cell == Data \cup {Comma, LF, Nul, Zero, CheckSum}

Empty == <<>>
Field == {Empty} \cup {<<c>> : c \in Data \cup {Zero}}

(***************************************************************************)
(* A sentence is an address and its fields, of which some may be empty.    *)
(* Line is what the receiver sends for it: the address, a comma before     *)
(* each field, the checksum, a line feed.  Filled puts a '0' into every    *)
(* empty field that commas enclose (the last field is followed by none).   *)
(***************************************************************************)
CommaAt(fields, i) ==
    1 + i + Cardinality({j \in 1 .. i - 1 : fields[j] # Empty})

Line(address, fields) ==
    LET end   == CommaAt(fields, Len(fields) + 1)
        at(k) == {i \in 1 .. Len(fields) :
                    CommaAt(fields, i) + 1 = k /\ fields[i] # Empty}
    IN  [k \in 1 .. end + 1 |->
            IF k = 1 THEN address
            ELSE IF k = end THEN CheckSum
            ELSE IF k = end + 1 THEN LF
            ELSE IF at(k) # {} THEN fields[CHOOSE i \in at(k) : TRUE][1]
            ELSE Comma]

Filled(fields) ==
    [i \in DOMAIN fields |->
        IF fields[i] = Empty /\ i < Len(fields) THEN <<Zero>> ELSE fields[i]]

-----------------------------------------------------------------------------
(***************************************************************************)
(* strtok(p, ",") called until it returns NULL, on the C string that       *)
(* starts at index p of the memory mem (a function on 0 .. n-1).  The      *)
(* string ends before its first NUL.  A token is a maximal run of          *)
(* characters that are not commas, so that ",," encloses no token.         *)
(***************************************************************************)
Text(mem, p) ==
    LET nuls == {i \in DOMAIN mem : i >= p /\ mem[i] = Nul}
    IN  {i \in DOMAIN mem : i >= p /\ \A z \in nuls : i < z}

Starts(mem, text, p) ==
    {i \in text : mem[i] # Comma /\ (i = p \/ mem[i - 1] = Comma)}

Ends(mem, text) ==
    {i \in text : mem[i] # Comma /\ (i + 1 \notin text \/ mem[i + 1] = Comma)}

Nth(S, n) == {i \in S : Cardinality({j \in S : j < i}) = n}

\* The token that the loop "while (token)" sees when token_counter = n; the
\* empty sequence when there are not that many (the pointer stays NULL).
Token(mem, starts, ends, n) ==
    LET spans == {s \in Nth(starts, n) \X Nth(ends, n) : s[1] <= s[2]}
    IN  IF spans = {} THEN Empty
        ELSE LET s == CHOOSE r \in spans : TRUE
             IN  [k \in 1 .. s[2] - s[1] + 1 |-> mem[s[1] + k - 1]]

\* The delimiter behind each token is overwritten by NUL, in place.
Strtoked(mem, p) ==
    LET text == Text(mem, p)
    IN  [i \in DOMAIN mem |->
            IF /\ i \in text /\ i > p
               /\ mem[i] = Comma /\ mem[i - 1] # Comma
            THEN Nul ELSE mem[i]]
=============================================================================
