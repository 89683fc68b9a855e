---------------------------- MODULE MCSingleInstance ----------------------------
(***************************************************************************)
(* A small instance of SingleInstance for TLC: the process that runs, one  *)
(* that hands its request over and one that comes later.                   *)
(***************************************************************************)
EXTENDS SingleInstance
=============================================================================
