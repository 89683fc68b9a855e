---------------------------- MODULE MCMinuteStore ----------------------------
(***************************************************************************)
(* A small instance of MinuteStore for TLC.                                *)
(***************************************************************************)
EXTENDS MinuteStore

\* Four minutes around the epoch, so that blocks of two are cut at both ends and
\* times are negative, too.
MCTimes == -1 .. 2
=============================================================================
