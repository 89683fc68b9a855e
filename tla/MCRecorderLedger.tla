--------------------------- MODULE MCRecorderLedger ---------------------------
(***************************************************************************)
(* A small instance of RecorderLedger for TLC.                             *)
(***************************************************************************)
EXTENDS RecorderLedger

OnePress == [m \in Minutes |-> 1]
=============================================================================
