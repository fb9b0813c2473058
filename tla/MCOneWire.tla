------------------------------- MODULE MCOneWire -------------------------------
(* Addresses for the runs of OneWire. *)
EXTENDS OneWire

AllDevices == [0 .. Bits - 1 -> {0, 1}]

\* The addresses 000, 010, 011 and 100: a junction below a junction.
FourDevices ==
    LET Rom(x, y, z) == [p \in 0 .. 2 |-> CASE p = 0 -> x [] p = 1 -> y [] p = 2 -> z]
    IN  {Rom(0, 0, 0), Rom(0, 1, 0), Rom(0, 1, 1), Rom(1, 0, 0)}
=============================================================================
