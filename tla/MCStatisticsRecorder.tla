------------------------ MODULE MCStatisticsRecorder ------------------------
(***************************************************************************)
(* Small instances of StatisticsRecorder for TLC: one key, two minutes.    *)
(* FirstBusy lets the counter of minute 0 saturate at 2; the second minute *)
(* gets one press, enough for a rollover.                                  *)
(***************************************************************************)
EXTENDS StatisticsRecorder

FirstBusy == [m \in Minutes |-> IF m = 0 THEN 3 ELSE 1]
BothBusy == [m \in Minutes |-> 2]
=============================================================================
