----------------------------- MODULE MinuteLedger -----------------------------
(***************************************************************************)
(* What the recorder promises, without threads, locks and wait ids: a live *)
(* minute, a line of snapshots on their way to the database, and one row   *)
(* per minute, which a snapshot replaces.  StatisticsRecorder implements   *)
(* it (RecorderLedger); the dashboard is built on it.                      *)
(***************************************************************************)
EXTENDS Naturals, SequencesExt

CONSTANTS
  Keys,       \* the KeyIds in play
  MaxCount,   \* UINT32_MAX
  MaxMinute   \* bound: the last minute the clock reaches

ASSUME LedgerAssumption ==
  /\ MaxCount \in Nat \ {0}
  /\ MaxMinute \in Nat

VARIABLES
  now,        \* the minute the system clock shows
  rows,       \* minute_buckets: the counts of each minute, zero without a row
  running,    \* a recorder exists
  live,       \* its current bucket
  unsaved,    \* queue_, and the command being saved
  held        \* the timer thread's snapshot, or none

ledger == <<now, rows, running, live, unsaved, held>>

Minutes    == 0 .. MaxMinute
ZeroCounts == [k \in Keys |-> 0]
Empty      == [minute |-> 0, counts |-> ZeroCounts]
None       == [minute |-> MaxMinute + 1, counts |-> ZeroCounts]

HasInput(s) == \E k \in Keys : s.counts[k] > 0

LedgerInit ==
  /\ now = 0
  /\ rows = [m \in Minutes |-> ZeroCounts]
  /\ running = FALSE
  /\ live = Empty
  /\ unsaved = << >>
  /\ held = None

\* Create: the current minute goes on from its row.
Open ==
  /\ ~running
  /\ running' = TRUE
  /\ live' = [minute |-> now, counts |-> rows[now]]
  /\ UNCHANGED <<now, rows, unsaved, held>>

\* The live bucket after a press of k.
Pressed(k) ==
  LET counts == IF now = live.minute THEN live.counts ELSE ZeroCounts
  IN  [minute |-> now,
       counts |-> [counts EXCEPT ![k] = IF @ < MaxCount THEN @ + 1 ELSE @]]

\* RecordKeyPress: in a new minute the completed bucket joins the line.
Press(k) ==
  /\ running
  /\ live' = Pressed(k)
  /\ unsaved' = IF now # live.minute /\ HasInput(live)
                THEN Append(unsaved, live)
                ELSE unsaved
  /\ UNCHANGED <<now, rows, running, held>>

\* QueueCurrentAndWait: the live bucket joins the line.
Flush ==
  /\ running
  /\ HasInput(live)
  /\ unsaved' = Append(unsaved, live)
  /\ UNCHANGED <<now, rows, running, live, held>>

\* PeriodicFlush takes the live bucket ...
Take ==
  /\ running
  /\ HasInput(live)
  /\ held = None
  /\ held' = live
  /\ UNCHANGED <<now, rows, running, live, unsaved>>

\* ... and puts it in line later: last, or before a bucket completed meanwhile
\* that the other thread has not put in line yet.
Put ==
  /\ held # None
  /\ \E n \in {0, 1} :
       /\ n <= Len(unsaved)
       /\ LET at == Len(unsaved) - n
          IN  unsaved' = SubSeq(unsaved, 1, at) \o <<held>>
                           \o SubSeq(unsaved, at + 1, Len(unsaved))
  /\ held' = None
  /\ UNCHANGED <<now, rows, running, live>>

\* ProcessQueue: the first in line is saved ...
Save ==
  /\ unsaved # << >>
  /\ rows' = [rows EXCEPT ![Head(unsaved).minute] = Head(unsaved).counts]
  /\ unsaved' = Tail(unsaved)
  /\ UNCHANGED <<now, running, live, held>>

\* ... or refused, and dropped.
Refuse ==
  /\ unsaved # << >>
  /\ unsaved' = Tail(unsaved)
  /\ UNCHANGED <<now, rows, running, live, held>>

\* The rows when a line of snapshots has been saved: the last of a minute stays.
LastOf(line, m) ==
  CHOOSE i \in DOMAIN line : /\ line[i].minute = m
                             /\ \A j \in DOMAIN line : line[j].minute = m => j <= i

Saved(line) ==
  [m \in Minutes |-> IF \E s \in Range(line) : s.minute = m
                     THEN line[LastOf(line, m)].counts
                     ELSE rows[m]]

\* FlushNow as its caller sees it, who waits until the live bucket, last in line,
\* has been saved ...
FlushNow ==
  /\ running
  /\ IF HasInput(live)
     THEN rows' = Saved(Append(unsaved, live)) /\ unsaved' = << >>
     ELSE UNCHANGED <<rows, unsaved>>
  /\ UNCHANGED <<now, running, live, held>>

\* ... or refused: it throws.
FlushNowThrows ==
  /\ running
  /\ HasInput(live)
  /\ rows' = Saved(unsaved)
  /\ unsaved' = << >>
  /\ UNCHANGED <<now, running, live, held>>

\* ~StatisticsRecorder has ended, or the process is killed: what is not saved is
\* gone.
Close ==
  /\ running
  /\ running' = FALSE
  /\ live' = Empty
  /\ unsaved' = << >>
  /\ held' = None
  /\ UNCHANGED <<now, rows>>

\* The system clock goes on a minute, or is set back one.
Tick ==
  /\ now' \in {now - 1, now + 1} \cap Minutes
  /\ UNCHANGED <<rows, running, live, unsaved, held>>

LedgerNext ==
  \/ Open
  \/ \E k \in Keys : Press(k)
  \/ Flush \/ Take \/ Put
  \/ Save \/ Refuse
  \/ Close
  \/ Tick

LedgerSpec == LedgerInit /\ [][LedgerNext]_ledger
=============================================================================
