------------------------------- MODULE MCKeypad -------------------------------
(* Values for the runs of Keypad. *)
EXTENDS Keypad

MCNone == -1
=============================================================================
