---------------------------- MODULE RecorderLedger ----------------------------
(***************************************************************************)
(* The recorder implements MinuteLedger: the save thread's command, its    *)
(* queue and the completed bucket the UI thread is about to queue are one  *)
(* line.                                                                   *)
(***************************************************************************)
EXTENDS StatisticsRecorder

\* What is on its way to the database, first to last.
Line ==
  (IF saver = "save" THEN <<command.snapshot>> ELSE << >>)
    \o [i \in DOMAIN queue |-> queue[i].snapshot]
    \o (IF ui = "pushCompleted" THEN <<ui_snapshot>> ELSE << >>)

NoSnapshot == [minute |-> MaxMinute + 1, counts |-> ZeroCounts]

Ledger == INSTANCE MinuteLedger WITH
  live    <- SnapshotLocked,
  unsaved <- Line,
  held    <- IF timer = "push" THEN timer_snapshot ELSE NoSnapshot

\* Three threads, two locks and a condition variable do what the ledger says:
\* every step of theirs is one of its steps, or none.
ImplementsLedger == Ledger!LedgerSpec
=============================================================================
