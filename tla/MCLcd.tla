-------------------------------- MODULE MCLcd --------------------------------
(* Panels and arguments for the run of LcdBus. *)
EXTENDS LcdBus

\* All but LCD16x2B, whose addresses the source itself doubts.
MCTypes == AllTypes \ {"LCD16x2B"}

MCChars == {65}

\* The corners, and columns and rows that lie outside each panel.
MCPlaces == {<<-1, 1>>, <<7, 2>>, <<99, 0>>, <<99, 99>>}
=============================================================================
