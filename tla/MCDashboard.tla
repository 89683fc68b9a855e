----------------------------- MODULE MCDashboard -----------------------------
(***************************************************************************)
(* Small instances of Dashboard for TLC.                                   *)
(***************************************************************************)
EXTENDS Dashboard

\* A range within a day and one that cuts the data at both ends.
MCRanges == {[first |-> 0, second |-> 1], [first |-> 1, second |-> 3]}
NoRanges == {}
=============================================================================
