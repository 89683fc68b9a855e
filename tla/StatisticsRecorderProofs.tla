----------------------- MODULE StatisticsRecorderProofs -----------------------
(*****************************************************************************)
(* What holds of StatisticsRecorder for every set of keys and every bound:   *)
(* its types, that it counts no press twice, that FlushNow tells the truth,  *)
(* that no press is lost silently -- where the newest copy of a minute is,   *)
(* and what each step does to it --, that no thread sleeps through a wakeup, *)
(* and that it implements its ledger.                                        *)
(*****************************************************************************)
EXTENDS RecorderLedger, SumLemmas, SequenceTheorems

\* A count vector stays one when a key is counted.
LEMMA IncrementType ==
  ASSUME NEW c \in CountVector, NEW k \in Keys
  PROVE  Increment(c, k) \in CountVector
  BY RecorderAssumption DEF Increment, CountVector

LEMMA ZeroCountsType == ZeroCounts \in CountVector
  BY RecorderAssumption DEF ZeroCounts, CountVector

LEMMA EmptySnapshotType == EmptySnapshot \in Snapshot
  BY ZeroCountsType, RecorderAssumption DEF EmptySnapshot, Snapshot, Minutes

LEMMA EmptyCommandType == EmptyCommand \in SaveCommand
  BY EmptySnapshotType DEF EmptyCommand, SaveCommand

\* What a thread appends to the queue is a command.
LEMMA AppendType ==
  ASSUME NEW q \in Seq(SaveCommand), NEW s \in Snapshot, NEW id \in Nat
  PROVE  Append(q, [snapshot |-> s, wait_id |-> id]) \in Seq(SaveCommand)
<1>1. [snapshot |-> s, wait_id |-> id] \in SaveCommand
  BY DEF SaveCommand
<1> QED
  BY <1>1

LEMMA ZeroTypes == 0 \in Minutes /\ 0 \in 0 .. FlushSlices
  BY RecorderAssumption DEF Minutes

\* What the save thread tells the flushing thread has its type.
LEMMA CompleteType ==
  ASSUME TypeOK, NEW failed \in BOOLEAN, Complete(failed)
  PROVE  /\ next_wait_id' \in Nat \ {0}
         /\ completed_wait_id' \in Nat
         /\ wait_failed' \in BOOLEAN
         /\ ui' = ui \/ ui' = "flushWait"
<1>1. command.wait_id \in Nat
  BY DEF TypeOK, SaveCommand
<1>2. CASE command.wait_id # 0
  BY <1>1, <1>2 DEF Complete, TypeOK
<1>3. CASE command.wait_id = 0
  BY <1>3 DEF Complete, TypeOK, waits
<1> QED
  BY <1>2, <1>3

-----------------------------------------------------------------------------
LEMMA InitType == Init => TypeOK
<1> SUFFICES ASSUME Init
             PROVE  TypeOK
  OBVIOUS
<1>1. /\ current_minute_start \in Minutes
      /\ current_counts \in CountVector
      /\ rows \in [Minutes -> CountVector]
  BY ZeroCountsType, ZeroTypes DEF Init
<1>2. /\ queue \in Seq(SaveCommand)
      /\ command \in SaveCommand
      /\ ui_snapshot \in Snapshot
      /\ timer_snapshot \in Snapshot
  BY EmptySnapshotType, EmptyCommandType DEF Init
<1>3. /\ pressed \in [Minutes -> [Keys -> Nat]]
      /\ exposed \subseteq Minutes
  BY DEF Init
<1>4. /\ running \in BOOLEAN
      /\ wait_failed \in BOOLEAN
      /\ stop_timer \in BOOLEAN
      /\ stop_queue \in BOOLEAN
      /\ has_saved \in BOOLEAN
      /\ last_error \in BOOLEAN
      /\ disposed \in BOOLEAN
  BY DEF Init
<1>5. ui = "idle" /\ timer = "done" /\ saver = "done"
  BY DEF Init
<1>6. /\ now \in Minutes
      /\ elapsed \in 0 .. FlushSlices
  BY ZeroTypes DEF Init
<1>7. /\ next_wait_id \in Nat \ {0}
      /\ completed_wait_id \in Nat
      /\ ui_wait_id \in Nat
      /\ saved_id \in Nat
      /\ failures \in Nat
      /\ back_steps \in Nat
      /\ crashes \in Nat
  BY DEF Init
<1> QED
  BY <1>1, <1>2, <1>3, <1>4, <1>5, <1>6, <1>7 DEF TypeOK

\* When the recorder is gone, what is left has its type.
LEMMA DownType ==
  ASSUME Down,
         now' \in Minutes, rows' \in [Minutes -> CountVector],
         pressed' \in [Minutes -> [Keys -> Nat]], exposed' \subseteq Minutes,
         failures' \in Nat, back_steps' \in Nat, crashes' \in Nat
  PROVE  TypeOK'
<1>1. /\ current_minute_start' \in Minutes
      /\ current_counts' \in CountVector
      /\ queue' \in Seq(SaveCommand)
      /\ command' \in SaveCommand
      /\ ui_snapshot' \in Snapshot
      /\ timer_snapshot' \in Snapshot
      /\ elapsed' \in 0 .. FlushSlices
  BY ZeroCountsType, EmptySnapshotType, EmptyCommandType, ZeroTypes DEF Down
<1>2. /\ running' \in BOOLEAN
      /\ wait_failed' \in BOOLEAN
      /\ stop_timer' \in BOOLEAN
      /\ stop_queue' \in BOOLEAN
      /\ has_saved' \in BOOLEAN
      /\ last_error' \in BOOLEAN
      /\ disposed' \in BOOLEAN
  BY DEF Down
<1>3. ui' = "idle" /\ timer' = "done" /\ saver' = "done"
  BY DEF Down
<1>4. /\ next_wait_id' \in Nat \ {0}
      /\ completed_wait_id' \in Nat
      /\ ui_wait_id' \in Nat
      /\ saved_id' \in Nat
  BY DEF Down
<1> QED
  BY <1>1, <1>2, <1>3, <1>4 DEF TypeOK

\* Every step, of every thread and of the environment, keeps every type.
LEMMA StepType == TypeOK /\ [Next]_vars => TypeOK'
<1> SUFFICES ASSUME TypeOK, [Next]_vars
             PROVE  TypeOK'
  OBVIOUS
<1> USE DEF TypeOK, vars, world, bucket, waits, stops, status, uiVars, timerVars,
            saverVars, history
<1>1. CASE Create
  BY <1>1 DEF Create, Resume
<1>2. CASE PushCompleted
  BY <1>2, EmptySnapshotType, AppendType DEF PushCompleted, Push
<1>3. CASE FlushNow
  BY <1>3 DEF FlushNow, SnapshotLocked, Snapshot
<1>4. CASE FlushPush
  <2>1. queue' \in Seq(SaveCommand)
    <3>1. /\ queue \in Seq(SaveCommand)
          /\ ui_snapshot \in Snapshot
          /\ next_wait_id \in Nat
      OBVIOUS
    <3>2. queue' = Append(queue, [snapshot |-> ui_snapshot, wait_id |-> next_wait_id])
      BY <1>4 DEF FlushPush, Push
    <3> QED
      BY <3>1, <3>2, AppendType
  <2>2. saver' \in {"check", "asleep", "save", "saved", "failed", "done"}
    BY <1>4 DEF FlushPush, Push
  <2>3. next_wait_id' \in Nat \ {0} /\ ui_wait_id' \in Nat
    BY <1>4 DEF FlushPush
  <2>4. wait_failed' = FALSE /\ ui' = "flushWait"
    BY <1>4 DEF FlushPush
  <2>5. UNCHANGED <<world, rows, running, bucket, completed_wait_id, stops, status,
                    disposed, ui_snapshot, timerVars, command, history, saved_id,
                    failures>>
    BY <1>4 DEF FlushPush
  <2> QED
    BY <2>1, <2>2, <2>3, <2>4, <2>5
<1>5. CASE FlushSleep
  BY <1>5 DEF FlushSleep
<1>6. CASE FlushReturn
  BY <1>6, EmptySnapshotType DEF FlushReturn
<1>7. CASE Dispose
  BY <1>7 DEF Dispose
<1>8. CASE DisposeSnapshot
  BY <1>8 DEF DisposeSnapshot, SnapshotLocked, Snapshot
<1>9. CASE StopQueue
  BY <1>9 DEF StopQueue
<1>10. CASE Join
  BY <1>10, DownType DEF Join
<1>11. CASE TimerCheck
  BY <1>11 DEF TimerCheck
<1>12. CASE TimerSlice
  BY <1>12, RecorderAssumption DEF TimerSlice
<1>13. CASE TimerSnapshot
  BY <1>13, RecorderAssumption DEF TimerSnapshot, SnapshotLocked, Snapshot
<1>14. CASE TimerPush
  BY <1>14, EmptySnapshotType, AppendType DEF TimerPush, Push, Snapshot
<1>15. CASE SaverPop
  BY <1>15 DEF SaverPop
<1>16. CASE SaverSleep
  BY <1>16 DEF SaverSleep
<1>17. CASE SaverExit
  BY <1>17 DEF SaverExit
<1>18. CASE SaverCommit
  BY <1>18 DEF SaverCommit, SaveCommand, Snapshot
<1>19. CASE SaverFail
  BY <1>19 DEF SaverFail, SaveCommand, Snapshot
<1>20. CASE SaverAck
  <2>1. Complete(FALSE)
    BY <1>20 DEF SaverAck
  <2>2. /\ next_wait_id' \in Nat \ {0}
        /\ completed_wait_id' \in Nat
        /\ wait_failed' \in BOOLEAN
        /\ ui' = ui \/ ui' = "flushWait"
    BY <2>1, CompleteType
  <2>3. /\ saver' = "check" /\ command' \in SaveCommand
        /\ has_saved' \in BOOLEAN /\ last_error' \in BOOLEAN
    BY <1>20, EmptyCommandType DEF SaverAck
  <2>4. UNCHANGED <<world, rows, running, bucket, queue, stops, disposed, ui_snapshot,
                    ui_wait_id, timerVars, history, saved_id, failures>>
    BY <1>20 DEF SaverAck
  <2> QED
    BY <2>2, <2>3, <2>4
<1>21. CASE SaverReport
  <2>1. Complete(TRUE)
    BY <1>21 DEF SaverReport
  <2>2. /\ next_wait_id' \in Nat \ {0}
        /\ completed_wait_id' \in Nat
        /\ wait_failed' \in BOOLEAN
        /\ ui' = ui \/ ui' = "flushWait"
    BY <2>1, CompleteType
  <2>3. /\ saver' = "check" /\ command' \in SaveCommand
        /\ has_saved' \in BOOLEAN /\ last_error' \in BOOLEAN
    BY <1>21, EmptyCommandType DEF SaverReport
  <2>4. UNCHANGED <<world, rows, running, bucket, queue, stops, disposed, ui_snapshot,
                    ui_wait_id, timerVars, history, saved_id, failures>>
    BY <1>21 DEF SaverReport
  <2> QED
    BY <2>2, <2>3, <2>4
<1>22. CASE ClockForward
  BY <1>22, RecorderAssumption DEF ClockForward, Minutes
<1>23. CASE ClockBack
  BY <1>23, RecorderAssumption DEF ClockBack, Minutes
<1>24. CASE Crash
  BY <1>24, DownType DEF Crash
<1>25. ASSUME NEW k \in Keys, RecordKeyPress(k)
      PROVE  TypeOK'
  <2>1. Counted(k) \in CountVector
    BY ZeroCountsType, IncrementType DEF Counted
  <2>2. SnapshotLocked \in Snapshot
    BY DEF SnapshotLocked, Snapshot
  <2>3. [pressed EXCEPT ![now][k] = @ + 1] \in [Minutes -> [Keys -> Nat]]
    OBVIOUS
  <2> QED
    BY <1>25, <2>1, <2>2, <2>3 DEF RecordKeyPress
<1>26. CASE UNCHANGED vars
  BY <1>26
<1> HIDE DEF TypeOK, vars, world, bucket, waits, stops, status, uiVars, timerVars,
             saverVars, history
<1> QED
  BY <1>1, <1>2, <1>3, <1>4, <1>5, <1>6, <1>7, <1>8, <1>9, <1>10, <1>11, <1>12, <1>13,
     <1>14, <1>15, <1>16, <1>17, <1>18, <1>19, <1>20, <1>21, <1>22, <1>23, <1>24, <1>25,
     <1>26
  DEF Next, UiStep, TimerStep, SaverStep

\* TypeOK for every number of keys, minutes, presses, flushes and faults.
THEOREM TypeCorrect == Spec => []TypeOK
  BY InitType, StepType, PTL DEF Spec

-----------------------------------------------------------------------------
\* Counting a press keeps the live bucket within the presses made.
LEMMA CountedAtMost ==
  ASSUME TypeOK, NEW k \in Keys, NEW j \in Keys,
         AtMost(current_counts, current_minute_start),
         pressed' = [pressed EXCEPT ![now][k] = @ + 1]
  PROVE  Counted(k)[j] <= pressed'[now][j]
<1> DEFINE old == IF now # current_minute_start THEN ZeroCounts ELSE current_counts
<1>1. old \in CountVector
  BY ZeroCountsType DEF TypeOK
<1>2. old[j] \in Nat /\ pressed[now][j] \in Nat /\ old[j] <= pressed[now][j]
  <2>1. old[j] \in Nat
    BY <1>1, RecorderAssumption DEF CountVector
  <2>2. pressed[now][j] \in Nat
    BY DEF TypeOK
  <2>3. CASE now = current_minute_start
    BY <2>1, <2>2, <2>3 DEF AtMost
  <2>4. CASE now # current_minute_start
    BY <2>1, <2>2, <2>4 DEF ZeroCounts
  <2> QED
    BY <2>1, <2>2, <2>3, <2>4
<1>3. Counted(k)[j] = IF j = k /\ old[j] < MaxCount THEN old[j] + 1 ELSE old[j]
  BY <1>1 DEF Counted, Increment, CountVector
<1>4. pressed'[now][j] = IF j = k THEN pressed[now][j] + 1 ELSE pressed[now][j]
  BY DEF TypeOK
<1> QED
  BY <1>2, <1>3, <1>4

\* A press takes nothing away from the presses made.
LEMMA PressedGrows ==
  ASSUME TypeOK, NEW k \in Keys,
         pressed' = [pressed EXCEPT ![now][k] = @ + 1],
         NEW s \in Snapshot, AtMost(s.counts, s.minute), NEW j \in Keys
  PROVE  s.counts[j] <= pressed'[s.minute][j]
<1>1. /\ s.minute \in Minutes
      /\ s.counts \in CountVector
  BY DEF Snapshot
<1>2. s.counts[j] \in Nat /\ s.counts[j] <= pressed[s.minute][j]
  BY <1>1, RecorderAssumption DEF AtMost, CountVector
<1>3. pressed[s.minute][j] \in Nat /\ pressed[s.minute][j] <= pressed'[s.minute][j]
  BY <1>1 DEF TypeOK
<1> QED
  BY <1>2, <1>3

\* Zero counts nothing.
LEMMA ZeroAtMost ==
  ASSUME TypeOK, NEW m \in Minutes
  PROVE  AtMost(ZeroCounts, m)
  BY DEF TypeOK, AtMost, ZeroCounts

\* A snapshot that counts no more than was pressed may join the queue.
LEMMA PushAtMost ==
  ASSUME NEW s, NEW id, AtMost(s.counts, s.minute), Push(s, id),
         queue \in Seq(SaveCommand),
         \A i \in DOMAIN queue : AtMost(queue[i].snapshot.counts, queue[i].snapshot.minute)
  PROVE  \A i \in DOMAIN queue' :
           AtMost(queue'[i].snapshot.counts, queue'[i].snapshot.minute)
<1> DEFINE c == [snapshot |-> s, wait_id |-> id]
<1>1. queue' = Append(queue, c)
  BY DEF Push
<1>2. \A i \in DOMAIN queue' : queue'[i] = c \/ (i \in DOMAIN queue /\ queue'[i] = queue[i])
  BY <1>1
<1> QED
  BY <1>2

LEMMA InitNeverOvercounts == Init => NeverOvercounts
  BY ZeroTypes, RecorderAssumption
  DEF Init, NeverOvercounts, AtMost, ZeroCounts, EmptySnapshot, EmptyCommand, Minutes

\* The step lemma, first for a press, then for every other step.
LEMMA PressNeverOvercounts ==
  ASSUME TypeOK, TypeOK', NeverOvercounts, NEW k \in Keys, RecordKeyPress(k)
  PROVE  NeverOvercounts'
<1> USE DEF NeverOvercounts
<1>1. pressed' = [pressed EXCEPT ![now][k] = @ + 1]
  BY DEF RecordKeyPress
<1>2. rows' = rows /\ \A m \in Minutes : AtMost(rows[m], m)'
  <2>1. rows' = rows
    BY DEF RecordKeyPress
  <2>2. ASSUME NEW m \in Minutes, NEW j \in Keys
        PROVE  rows[m][j] <= pressed'[m][j]
    <3>1. [minute |-> m, counts |-> rows[m]] \in Snapshot
      BY DEF TypeOK, Snapshot
    <3> QED
      BY <1>1, <3>1, PressedGrows
  <2> QED
    BY <2>1, <2>2 DEF AtMost
<1>3. AtMost(current_counts, current_minute_start)'
  BY <1>1, CountedAtMost DEF RecordKeyPress, AtMost
<1>4. AtMost(ui_snapshot.counts, ui_snapshot.minute)'
  <2>1. ui_snapshot' \in {ui_snapshot, SnapshotLocked}
    BY DEF RecordKeyPress
  <2>2. SnapshotLocked \in Snapshot
    BY DEF TypeOK, SnapshotLocked, Snapshot
  <2>3. AtMost(SnapshotLocked.counts, SnapshotLocked.minute)
    BY DEF SnapshotLocked
  <2> QED
    BY <1>1, <2>1, <2>2, <2>3, PressedGrows DEF AtMost, TypeOK
<1>5. AtMost(timer_snapshot.counts, timer_snapshot.minute)'
  BY <1>1, PressedGrows DEF RecordKeyPress, timerVars, AtMost, TypeOK
<1>6. AtMost(command.snapshot.counts, command.snapshot.minute)'
  BY <1>1, PressedGrows DEF RecordKeyPress, saverVars, AtMost, TypeOK, SaveCommand
<1>7. \A i \in DOMAIN queue : AtMost(queue[i].snapshot.counts, queue[i].snapshot.minute)'
  <2>1. queue' = queue
    BY DEF RecordKeyPress
  <2>2. \A i \in DOMAIN queue : queue[i].snapshot \in Snapshot
    <3>1. queue \in Seq(SaveCommand)
      BY DEF TypeOK
    <3>2. \A i \in DOMAIN queue : queue[i] \in SaveCommand
      BY <3>1
    <3> QED
      BY <3>2 DEF SaveCommand
  <2> QED
    BY <1>1, <2>1, <2>2, PressedGrows DEF AtMost
<1> QED
  BY <1>2, <1>3, <1>4, <1>5, <1>6, <1>7 DEF RecordKeyPress

LEMMA StepNeverOvercounts ==
  TypeOK /\ TypeOK' /\ NeverOvercounts /\ [Next]_vars => NeverOvercounts'
<1> SUFFICES ASSUME TypeOK, TypeOK', NeverOvercounts, [Next]_vars
             PROVE  NeverOvercounts'
  OBVIOUS
<1> USE DEF NeverOvercounts, AtMost, bucket, uiVars, timerVars, saverVars, history
<1>1. CASE Create
  BY <1>1 DEF Create, Resume, TypeOK
<1>2. CASE PushCompleted
  <2>1. ui_snapshot' = EmptySnapshot /\ AtMost(EmptySnapshot.counts, EmptySnapshot.minute)
    BY <1>2, ZeroAtMost, ZeroTypes DEF PushCompleted, EmptySnapshot
  <2>2. \A i \in DOMAIN queue' :
          AtMost(queue'[i].snapshot.counts, queue'[i].snapshot.minute)
    <3>1. Push(ui_snapshot, 0)
      BY <1>2 DEF PushCompleted
    <3>2. queue \in Seq(SaveCommand)
      BY DEF TypeOK
    <3> QED
      BY <3>1, <3>2, PushAtMost
  <2> QED
    BY <1>2, <2>1, <2>2 DEF PushCompleted
<1>3. CASE FlushNow
  BY <1>3 DEF FlushNow, SnapshotLocked
<1>4. CASE FlushPush
  <2>1. Push(ui_snapshot, next_wait_id)
    BY <1>4 DEF FlushPush
  <2>2. queue \in Seq(SaveCommand)
    BY DEF TypeOK
  <2>3. \A i \in DOMAIN queue' :
          AtMost(queue'[i].snapshot.counts, queue'[i].snapshot.minute)
    BY <2>1, <2>2, PushAtMost
  <2> QED
    BY <1>4, <2>3 DEF FlushPush
<1>5. CASE FlushReturn
  BY <1>5, ZeroAtMost, ZeroTypes DEF FlushReturn, EmptySnapshot
<1>6. CASE DisposeSnapshot
  BY <1>6 DEF DisposeSnapshot, SnapshotLocked
<1>7. CASE Join \/ Crash
  BY <1>7, ZeroAtMost, ZeroTypes DEF Join, Crash, Down, EmptySnapshot, EmptyCommand
<1>8. CASE TimerSnapshot
  BY <1>8 DEF TimerSnapshot, SnapshotLocked
<1>9. CASE TimerPush
  <2>1. Push(timer_snapshot, 0)
    BY <1>9 DEF TimerPush
  <2>2. queue \in Seq(SaveCommand)
    BY DEF TypeOK
  <2>3. \A i \in DOMAIN queue' :
          AtMost(queue'[i].snapshot.counts, queue'[i].snapshot.minute)
    BY <2>1, <2>2, PushAtMost
  <2>4. AtMost(timer_snapshot.counts, timer_snapshot.minute)'
    BY <1>9, ZeroAtMost, ZeroTypes DEF TimerPush, EmptySnapshot
  <2> QED
    BY <1>9, <2>3, <2>4 DEF TimerPush
<1>10. CASE SaverPop
  <2>1. /\ queue \in Seq(SaveCommand)
        /\ queue # << >>
    BY <1>10 DEF SaverPop, TypeOK
  <2>2. /\ 1 \in DOMAIN queue
        /\ command' = queue[1]
        /\ \A i \in DOMAIN queue' : i + 1 \in DOMAIN queue /\ queue'[i] = queue[i + 1]
    BY <1>10, <2>1 DEF SaverPop
  <2>3. \A i \in DOMAIN queue :
          AtMost(queue[i].snapshot.counts, queue[i].snapshot.minute)
    OBVIOUS
  <2>4. AtMost(command'.snapshot.counts, command'.snapshot.minute)
    BY <2>2, <2>3
  <2>5. \A i \in DOMAIN queue' :
          AtMost(queue'[i].snapshot.counts, queue'[i].snapshot.minute)
    BY <2>2, <2>3
  <2> QED
    BY <1>10, <2>4, <2>5 DEF SaverPop
<1>11. CASE SaverCommit
  <2>1. command.snapshot.minute \in Minutes
    BY DEF TypeOK, SaveCommand, Snapshot
  <2>2. rows \in [Minutes -> CountVector]
    BY DEF TypeOK
  <2>3. \A m \in Minutes : AtMost(rows'[m], m)
    BY <1>11, <2>1, <2>2 DEF SaverCommit
  <2> QED
    BY <1>11, <2>3 DEF SaverCommit
<1>12. CASE SaverAck \/ SaverReport
  <2>1. UNCHANGED <<world, rows, running, bucket, queue, stops, disposed, ui_snapshot,
                    ui_wait_id, timerVars, history, saved_id, failures>>
    BY <1>12 DEF SaverAck, SaverReport
  <2>2. AtMost(command.snapshot.counts, command.snapshot.minute)'
    <3>1. command' = EmptyCommand
      BY <1>12 DEF SaverAck, SaverReport
    <3> QED
      BY <2>1, <3>1, ZeroAtMost, ZeroTypes DEF EmptySnapshot, EmptyCommand
  <2> QED
    BY <2>1, <2>2
<1>13. CASE FlushSleep \/ Dispose \/ StopQueue \/ TimerCheck \/ TimerSlice
            \/ SaverSleep \/ SaverExit \/ SaverFail \/ ClockForward \/ ClockBack
            \/ UNCHANGED vars
  BY <1>13
  DEF FlushSleep, Dispose, StopQueue, TimerCheck, TimerSlice, SaverSleep,
      SaverExit, SaverFail, ClockForward, ClockBack, vars
<1>14. ASSUME NEW k \in Keys, RecordKeyPress(k)
       PROVE  NeverOvercounts'
  BY <1>14, PressNeverOvercounts
<1> QED
  BY <1>1, <1>2, <1>3, <1>4, <1>5, <1>6, <1>7, <1>8, <1>9, <1>10, <1>11, <1>12,
     <1>13, <1>14
  DEF Next, UiStep, TimerStep, SaverStep

\* No press is ever counted twice, for every number of keys, minutes, presses,
\* restarts, kills, refused saves and settings of the clock.
THEOREM CountsOnlyPresses == Spec => []NeverOvercounts
<1>1. Init => TypeOK /\ NeverOvercounts
  BY InitType, InitNeverOvercounts
<1>2. TypeOK /\ NeverOvercounts /\ [Next]_vars => TypeOK' /\ NeverOvercounts'
  BY StepType, StepNeverOvercounts
<1> QED
  BY <1>1, <1>2, PTL DEF Spec

-------------------------------------------------------------------------------
(* FlushNow tells the truth. *)
Flushing == ui \in {"flushWait", "flushAsleep"}

\* One command at most is waited for, the one of the flush under way; it has not
\* been answered, and is known as saved only between its commit and the answer.
WaitIds ==
  /\ Flushing <=> ui_wait_id # 0
  /\ ui_wait_id < next_wait_id
  /\ completed_wait_id < next_wait_id
  /\ saved_id < next_wait_id

Queued ==
  \A i \in DOMAIN queue : queue[i].wait_id # 0 =>
    /\ queue[i].wait_id = ui_wait_id
    /\ completed_wait_id < ui_wait_id
    /\ saved_id # ui_wait_id
    /\ command.wait_id = 0
    /\ \A j \in DOMAIN queue : queue[j].wait_id # 0 => i = j

InHand ==
  command.wait_id # 0 =>
    /\ command.wait_id = ui_wait_id
    /\ completed_wait_id < ui_wait_id
    /\ saver \in {"save", "failed"} => saved_id # ui_wait_id
    /\ saver = "saved" => saved_id = ui_wait_id

\* Once answered, the flush knows what became of its command.
Answered ==
  Flushing /\ completed_wait_id >= ui_wait_id => (~wait_failed <=> saved_id = ui_wait_id)

\* The stop flag, which would end the wait as well, comes after the last flush.
StopsLast == stop_queue => ui = "join"

FlushInv == WaitIds /\ Queued /\ InHand /\ Answered /\ StopsLast

\* Types of what the invariant is about.
LEMMA IdTypes ==
  ASSUME TypeOK
  PROVE  /\ queue \in Seq(SaveCommand)
         /\ \A i \in DOMAIN queue : queue[i].wait_id \in Nat
         /\ {next_wait_id, completed_wait_id, ui_wait_id, saved_id, command.wait_id}
              \subseteq Nat
         /\ wait_failed \in BOOLEAN
<1>1. queue \in Seq(SaveCommand)
  BY DEF TypeOK
<1>2. \A i \in DOMAIN queue : queue[i] \in SaveCommand
  BY <1>1
<1> QED
  BY <1>1, <1>2 DEF TypeOK, SaveCommand

LEMMA DownFlush == Down => FlushInv'
  BY DEF Down, FlushInv, WaitIds, Queued, InHand, Answered, StopsLast, Flushing, EmptyCommand

LEMMA InitFlush == Init => FlushInv
  BY DEF Init, FlushInv, WaitIds, Queued, InHand, Answered, StopsLast, Flushing, EmptyCommand

\* Steps that touch none of it.
LEMMA UnchangedFlush ==
  ASSUME FlushInv, UNCHANGED <<queue, waits, ui_wait_id, command, saved_id, stop_queue>>,
         Flushing' = Flushing, ui = "join" => ui' = "join",
         saver' \in {"check", "asleep", "done"} \/ saver' = saver
         \/ (saver = "save" /\ saver' = "failed")
  PROVE  FlushInv'
  BY DEF FlushInv, WaitIds, Queued, InHand, Answered, StopsLast, waits

\* A command nobody waits for joins the queue.
LEMMA PushFlush ==
  ASSUME TypeOK, FlushInv, NEW s, Push(s, 0),
         UNCHANGED <<waits, ui_wait_id, command, saved_id, stop_queue>>,
         Flushing' = Flushing, ui = "join" => ui' = "join"
  PROVE  FlushInv'
<1> DEFINE c == [snapshot |-> s, wait_id |-> 0]
<1>1. queue' = Append(queue, c)
  BY DEF Push
<1>2. \A i \in DOMAIN queue' :
        \/ i \in DOMAIN queue /\ queue'[i] = queue[i]
        \/ queue'[i].wait_id = 0
  BY <1>1, IdTypes
<1>3. Queued'
  BY <1>2 DEF FlushInv, Queued, waits
<1>4. saver' \in {saver, "check"}
  BY DEF Push
<1> QED
  BY <1>3, <1>4 DEF FlushInv, WaitIds, InHand, Answered, StopsLast, waits

\* The command of a flush joins it, under an id nobody has seen.
LEMMA FlushPushFlush == TypeOK /\ FlushInv /\ FlushPush => FlushInv'
<1> SUFFICES ASSUME TypeOK, FlushInv, FlushPush
             PROVE  FlushInv'
  OBVIOUS
<1> DEFINE c == [snapshot |-> ui_snapshot, wait_id |-> next_wait_id]
<1>1. queue' = Append(queue, c) /\ queue \in Seq(SaveCommand)
  BY IdTypes DEF FlushPush, Push
<1>2. ui = "flushPush" /\ ui_wait_id = 0 /\ command.wait_id = 0
      /\ \A i \in DOMAIN queue : queue[i].wait_id = 0
  BY IdTypes DEF FlushPush, FlushInv, WaitIds, Queued, InHand, Flushing
<1>3. /\ ui_wait_id' = next_wait_id /\ next_wait_id' = next_wait_id + 1
      /\ ui' = "flushWait"
      /\ UNCHANGED <<completed_wait_id, command, saved_id, stop_queue>>
  BY DEF FlushPush, stops
<1>4. /\ next_wait_id \in Nat \ {0} /\ completed_wait_id < next_wait_id
      /\ saved_id < next_wait_id /\ completed_wait_id \in Nat /\ saved_id \in Nat
  BY DEF TypeOK, FlushInv, WaitIds
<1>5. WaitIds'
  BY <1>3, <1>4 DEF WaitIds, Flushing
<1>6. \A i \in DOMAIN queue' :
        \/ i \in DOMAIN queue /\ queue'[i] = queue[i] /\ queue'[i].wait_id = 0
        \/ i = Len(queue) + 1 /\ queue'[i].wait_id = next_wait_id
  BY <1>1, <1>2
<1>7. Queued'
  BY <1>2, <1>3, <1>4, <1>6 DEF Queued
<1>8. InHand'
  BY <1>2, <1>3 DEF InHand
<1>9. Answered'
  BY <1>3, <1>4 DEF Answered
<1>10. StopsLast'
  BY <1>2, <1>3 DEF FlushInv, StopsLast
<1> QED
  BY <1>5, <1>7, <1>8, <1>9, <1>10 DEF FlushInv

\* The save thread takes the first command.
LEMMA PopFlush == TypeOK /\ FlushInv /\ SaverPop => FlushInv'
<1> SUFFICES ASSUME TypeOK, FlushInv, SaverPop
             PROVE  FlushInv'
  OBVIOUS
<1>1. /\ 1 \in DOMAIN queue /\ command' = queue[1]
      /\ \A i \in DOMAIN queue' :
           i \in Nat /\ i + 1 \in DOMAIN queue /\ i + 1 # 1 /\ queue'[i] = queue[i + 1]
  BY IdTypes DEF SaverPop
<1>2. /\ UNCHANGED <<waits, ui, ui_wait_id, saved_id, stop_queue>>
      /\ saver' = "save"
  BY DEF SaverPop, uiVars, stops
<1>3. Queued'
  <2> SUFFICES ASSUME NEW i \in DOMAIN queue', queue'[i].wait_id # 0
               PROVE  /\ queue'[i].wait_id = ui_wait_id /\ completed_wait_id < ui_wait_id
                      /\ saved_id # ui_wait_id /\ command'.wait_id = 0
                      /\ \A j \in DOMAIN queue' : queue'[j].wait_id # 0 => i = j
    BY <1>2 DEF Queued, waits
  <2>1. i + 1 \in DOMAIN queue /\ queue[i + 1].wait_id # 0
    BY <1>1
  <2>2. \A j \in DOMAIN queue : queue[j].wait_id # 0 => j = i + 1
    BY <2>1 DEF FlushInv, Queued
  <2>3. command'.wait_id = 0
    BY <1>1, <2>2
  <2>4. \A j \in DOMAIN queue' : queue'[j].wait_id # 0 => i = j
    BY <1>1, <2>2
  <2> QED
    BY <1>1, <2>1, <2>3, <2>4 DEF FlushInv, Queued
<1>4. InHand'
  BY <1>1, <1>2 DEF FlushInv, Queued, InHand, waits
<1> QED
  BY <1>2, <1>3, <1>4 DEF FlushInv, WaitIds, Answered, StopsLast, Flushing, waits

\* It is committed.
LEMMA CommitFlush == TypeOK /\ FlushInv /\ SaverCommit => FlushInv'
<1> SUFFICES ASSUME TypeOK, FlushInv, SaverCommit
             PROVE  FlushInv'
  OBVIOUS
<1>1. /\ UNCHANGED <<queue, waits, ui, ui_wait_id, command, stop_queue>>
      /\ saver = "save" /\ saver' = "saved"
      /\ saved_id' = IF command.wait_id # 0 THEN command.wait_id ELSE saved_id
  BY DEF SaverCommit, uiVars, stops
<1>2. CASE command.wait_id = 0
  BY <1>1, <1>2 DEF FlushInv, WaitIds, Queued, InHand, Answered, StopsLast, Flushing, waits
<1>3. CASE command.wait_id # 0
  <2>1. /\ saved_id' = ui_wait_id /\ completed_wait_id < ui_wait_id
        /\ \A i \in DOMAIN queue : queue[i].wait_id = 0
    BY <1>1, <1>3 DEF FlushInv, Queued, InHand
  <2>2. Answered'
    BY <1>1, <2>1, IdTypes DEF Answered, waits
  <2> QED
    BY <1>1, <2>1, <2>2 DEF FlushInv, WaitIds, Queued, InHand, StopsLast, Flushing, waits
<1> QED
  BY <1>2, <1>3

\* It is answered, as saved or as failed.
LEMMA CompleteFlush ==
  ASSUME TypeOK, FlushInv, NEW failed \in BOOLEAN, Complete(failed),
         saver = IF failed THEN "failed" ELSE "saved",
         command' = EmptyCommand, saver' = "check",
         UNCHANGED <<queue, ui_wait_id, saved_id, stop_queue>>
  PROVE  FlushInv'
<1>1. CASE command.wait_id = 0
  BY <1>1
  DEF FlushInv, WaitIds, Queued, InHand, Answered, StopsLast, Flushing, waits, Complete,
      EmptyCommand
<1>2. CASE command.wait_id # 0
  <2>1. /\ completed_wait_id' = ui_wait_id /\ wait_failed' = failed
        /\ next_wait_id' = next_wait_id
        /\ Flushing' = Flushing /\ (ui = "join" => ui' = "join")
        /\ command'.wait_id = 0
    BY <1>2 DEF FlushInv, InHand, Complete, Flushing, EmptyCommand
  <2>2. \A i \in DOMAIN queue : queue[i].wait_id = 0
    BY <1>2 DEF FlushInv, Queued
  <2>3. failed <=> saved_id # ui_wait_id
    BY <1>2 DEF FlushInv, InHand
  <2>4. Answered'
    BY <2>1, <2>3 DEF Answered
  <2> QED
    BY <2>1, <2>2, <2>4 DEF FlushInv, WaitIds, Queued, InHand, StopsLast
<1> QED
  BY <1>1, <1>2

LEMMA StepFlush == TypeOK /\ FlushInv /\ [Next]_vars => FlushInv'
<1> SUFFICES ASSUME TypeOK, FlushInv, [Next]_vars
             PROVE  FlushInv'
  OBVIOUS
<1> USE DEF uiVars, saverVars, stops, Flushing
<1>1. CASE Create
  BY <1>1, UnchangedFlush DEF Create
<1>2. ASSUME NEW k \in Keys, RecordKeyPress(k)
      PROVE  FlushInv'
  BY <1>2, UnchangedFlush DEF RecordKeyPress
<1>3. CASE FlushNow \/ Dispose \/ DisposeSnapshot \/ FlushSleep
  BY <1>3, UnchangedFlush DEF FlushNow, Dispose, DisposeSnapshot, FlushSleep
<1>4. CASE PushCompleted \/ TimerPush
  BY <1>4, PushFlush DEF PushCompleted, TimerPush
<1>5. CASE FlushPush
  BY <1>5, FlushPushFlush
<1>6. CASE FlushReturn
  <2>1. /\ ui = "flushWait" /\ ~stop_queue /\ completed_wait_id >= ui_wait_id
    BY <1>6 DEF FlushReturn, FlushDone, FlushInv, StopsLast
  <2>2. command.wait_id = 0 /\ \A i \in DOMAIN queue : queue[i].wait_id = 0
    BY <2>1, IdTypes DEF FlushInv, Queued, InHand
  <2>3. ui' \in {"stopQueue", "idle"} /\ ui_wait_id' = 0
        /\ UNCHANGED <<queue, waits, command, saved_id, saver, stop_queue>>
    BY <1>6 DEF FlushReturn
  <2>4. 0 < next_wait_id
    BY DEF TypeOK
  <2> QED
    BY <2>1, <2>2, <2>3, <2>4
    DEF FlushInv, WaitIds, Queued, InHand, Answered, StopsLast, waits
<1>7. CASE StopQueue
  <2>1. /\ ui = "stopQueue" /\ ui' = "join" /\ saver' \in {saver, "check"}
        /\ UNCHANGED <<queue, waits, ui_wait_id, command, saved_id>>
    BY <1>7 DEF StopQueue
  <2> QED
    BY <2>1 DEF FlushInv, WaitIds, Queued, InHand, Answered, StopsLast, waits
<1>8. CASE Join \/ Crash
  BY <1>8, DownFlush DEF Join, Crash
<1>9. CASE TimerCheck \/ TimerSlice \/ TimerSnapshot \/ ClockForward \/ ClockBack
           \/ UNCHANGED vars
  BY <1>9, UnchangedFlush
  DEF TimerCheck, TimerSlice, TimerSnapshot, ClockForward, ClockBack, vars
<1>10. CASE SaverPop
  BY <1>10, PopFlush
<1>11. CASE SaverSleep \/ SaverExit \/ SaverFail
  BY <1>11, UnchangedFlush DEF SaverSleep, SaverExit, SaverFail
<1>12. CASE SaverCommit
  BY <1>12, CommitFlush
<1>13. CASE SaverAck
  BY <1>13, CompleteFlush DEF SaverAck
<1>14. CASE SaverReport
  BY <1>14, CompleteFlush DEF SaverReport
<1> QED
  BY <1>1, <1>2, <1>3, <1>4, <1>5, <1>6, <1>7, <1>8, <1>9, <1>10, <1>11, <1>12, <1>13, <1>14
  DEF Next, UiStep, TimerStep, SaverStep

\* Whatever the timer and the completed minutes put in the queue around it, and
\* whoever wakes it: when FlushNow stops waiting, it throws if and only if its own
\* snapshot was not committed.
THEOREM FlushTellsTheTruth == Spec => []FlushVerdict
<1>1. FlushInv => FlushVerdict
  BY DEF FlushInv, Answered, StopsLast, FlushVerdict, FlushDone, Flushing
<1>2. Init => TypeOK /\ FlushInv
  BY InitType, InitFlush
<1>3. TypeOK /\ FlushInv /\ [Next]_vars => TypeOK' /\ FlushInv'
  BY StepType, StepFlush
<1> QED
  BY <1>1, <1>2, <1>3, PTL DEF Spec

-----------------------------------------------------------------------------
(* Who may hold what. *)
\* After the recorder is destroyed, or the process killed, nothing is on its way.
Gone == ~running =>
  ui = "idle" /\ ~disposed /\ queue = << >> /\ saver = "done" /\ timer = "done"

\* While the recorder lives, the save thread ends only when it is told to.
SaverLeavesLast == running /\ saver = "done" => stop_queue

\* The last snapshot is queued after the timer has been told to end.
DisposesFirst == ui \in {"disposeSnapshot", "stopQueue", "join"} => disposed

\* What a flush queues is what is in the live bucket at that moment.
FlushesLive == ui = "flushPush" => ui_snapshot = SnapshotLocked /\ HasInput(SnapshotLocked)

\* The completed bucket is of another minute than the live one.
CompletesAnother == ui = "pushCompleted" => ui_snapshot.minute # current_minute_start

Handover == Gone /\ SaverLeavesLast /\ DisposesFirst /\ FlushesLive /\ CompletesAnother

\* The handover from thread to thread is inductive, given the types and FlushInv.
LEMMA InitHandover == Init => Handover
  BY DEF Init, Handover, Gone, SaverLeavesLast, DisposesFirst, FlushesLive, CompletesAnother

LEMMA DownHandover == Down => Handover'
  BY DEF Down, Handover, Gone, SaverLeavesLast, DisposesFirst, FlushesLive, CompletesAnother

LEMMA StepHandover == TypeOK /\ FlushInv /\ Handover /\ [Next]_vars => Handover'
<1> SUFFICES ASSUME TypeOK, FlushInv, Handover, [Next]_vars
             PROVE  Handover'
  OBVIOUS
<1> USE DEF Handover, Gone, SaverLeavesLast, DisposesFirst, FlushesLive,
            CompletesAnother, SnapshotLocked, HasInput, bucket, stops, uiVars, timerVars, saverVars
<1>1. CASE Create \/ FlushNow \/ FlushSleep \/ FlushReturn \/ Dispose \/ DisposeSnapshot
           \/ StopQueue
  BY <1>1 DEF Create, FlushNow, FlushSleep, FlushReturn, Dispose, DisposeSnapshot, StopQueue
<1>2. ASSUME NEW k \in Keys, RecordKeyPress(k)
      PROVE  Handover'
  BY <1>2 DEF RecordKeyPress
<1>3. CASE PushCompleted \/ FlushPush \/ TimerPush
  BY <1>3 DEF PushCompleted, FlushPush, TimerPush, Push
<1>4. CASE Join \/ Crash
  BY <1>4, DownHandover DEF Join, Crash
<1>5. CASE TimerCheck \/ TimerSlice \/ TimerSnapshot \/ ClockForward \/ ClockBack
           \/ UNCHANGED vars
  BY <1>5 DEF TimerCheck, TimerSlice, TimerSnapshot, ClockForward, ClockBack, vars
<1>6. CASE SaverPop \/ SaverSleep \/ SaverExit \/ SaverCommit \/ SaverFail
  BY <1>6 DEF SaverPop, SaverSleep, SaverExit, SaverCommit, SaverFail
<1>7. CASE SaverAck \/ SaverReport
  BY <1>7 DEF SaverAck, SaverReport, Complete
<1> QED
  BY <1>1, <1>2, <1>3, <1>4, <1>5, <1>6, <1>7 DEF Next, UiStep, TimerStep, SaverStep

-----------------------------------------------------------------------------
\* Where the newest copy of a minute is, now and after a step.
LEMMA NewestIs ==
  \A m : ~(Live(m) /\ Completing(m)) =>
    Newest(m) = IF Live(m) THEN current_counts
                ELSE IF Completing(m) THEN ui_snapshot.counts
                ELSE IF Pending(m) # {} THEN queue[LastPending(m)].snapshot.counts
                ELSE IF Saving(m) THEN command.snapshot.counts
                ELSE rows[m]
  BY DEF Newest

LEMMA NewestIsNext ==
  (\A m : ~(Live(m) /\ Completing(m)) =>
    Newest(m) = IF Live(m) THEN current_counts
                ELSE IF Completing(m) THEN ui_snapshot.counts
                ELSE IF Pending(m) # {} THEN queue[LastPending(m)].snapshot.counts
                ELSE IF Saving(m) THEN command.snapshot.counts
                ELSE rows[m])'
  BY NewestIs, PTL

-----------------------------------------------------------------------------
\* A minute nobody pressed a key in reads as zero everywhere.
LEMMA Untouched ==
  ASSUME TypeOK, NeverOvercounts, NEW m \in Minutes, Truth(m) = ZeroCounts
  PROVE  /\ rows[m] = ZeroCounts
         /\ \A i \in Pending(m) : queue[i].snapshot.counts = ZeroCounts
         /\ Saving(m) => command.snapshot.counts = ZeroCounts
<1>1. \A k \in Keys : pressed[m][k] = 0
  <2> TAKE k \in Keys
  <2>1. Truth(m)[k] = 0
    BY DEF ZeroCounts
  <2>2. pressed[m][k] \in Nat
    BY DEF TypeOK
  <2> QED
    BY <2>1, <2>2, RecorderAssumption DEF Truth
<1>2. ASSUME NEW c \in CountVector, AtMost(c, m)
      PROVE  c = ZeroCounts
  <2>1. ASSUME NEW k \in Keys
        PROVE  c[k] = 0
    <3>1. c[k] \in Nat /\ c[k] <= pressed[m][k]
      BY <1>2, RecorderAssumption DEF AtMost, CountVector
    <3> QED
      BY <1>1, <3>1
  <2> QED
    BY <2>1 DEF CountVector, ZeroCounts
<1>3. rows[m] = ZeroCounts
  BY <1>2 DEF TypeOK, NeverOvercounts
<1>4. ASSUME NEW i \in Pending(m)
      PROVE  queue[i].snapshot.counts = ZeroCounts
  <2>1. queue[i] \in SaveCommand /\ queue[i].snapshot.minute = m /\ i \in DOMAIN queue
    <3>1. queue \in Seq(SaveCommand)
      BY DEF TypeOK
    <3> QED
      BY <1>4, <3>1 DEF Pending
  <2> QED
    BY <1>2, <2>1 DEF NeverOvercounts, SaveCommand, Snapshot
<1>5. Saving(m) => command.snapshot.counts = ZeroCounts
  BY <1>2 DEF Saving, TypeOK, NeverOvercounts, SaveCommand, Snapshot
<1> QED
  BY <1>3, <1>4, <1>5

\* Of the pending commands of a minute, one is last.
LEMMA LastIsPending ==
  ASSUME TypeOK, NEW m, Pending(m) # {}
  PROVE  LastPending(m) \in Pending(m) /\ \A j \in Pending(m) : j <= LastPending(m)
<1>1. Pending(m) \in SUBSET (0 .. Len(queue)) /\ Len(queue) \in Nat
  <2>1. queue \in Seq(SaveCommand)
    BY DEF TypeOK
  <2>2. Len(queue) \in Nat /\ DOMAIN queue = 1 .. Len(queue)
    BY <2>1
  <2> QED
    BY <2>2 DEF Pending
<1>2. \E i \in Pending(m) : \A j \in Pending(m) : j <= i
  BY <1>1, GreatestNatural
<1> QED
  BY <1>2 DEF LastPending

\* The line of pending commands when one more is queued.
LEMMA PendingPush ==
  ASSUME TypeOK, NEW s, NEW id, Push(s, id), saver # "done", NEW m
  PROVE  /\ s.minute # m => Pending(m)' = Pending(m)
         /\ \A i \in Pending(m) : queue'[i] = queue[i]
         /\ s.minute = m => /\ Pending(m)' # {}
                            /\ queue'[LastPending(m)'].snapshot.counts = s.counts
<1> DEFINE c == [snapshot |-> s, wait_id |-> id]
           n == Len(queue) + 1
<1>1. /\ queue \in Seq(SaveCommand)
      /\ queue' = Append(queue, c)
      /\ saver' # "done"
  BY DEF TypeOK, Push
<1>2. /\ Len(queue) \in Nat
      /\ DOMAIN queue = 1 .. Len(queue)
      /\ DOMAIN queue' = 1 .. n
      /\ \A i \in DOMAIN queue : queue'[i] = queue[i]
      /\ queue'[n] = c
  BY <1>1
<1>3. Pending(m)' = {i \in 1 .. n : queue'[i].snapshot.minute = m}
  BY <1>1, <1>2 DEF Pending
<1>4. Pending(m) = {i \in 1 .. Len(queue) : queue[i].snapshot.minute = m}
  BY <1>2 DEF Pending
<1>5. ASSUME s.minute # m
      PROVE  Pending(m)' = Pending(m)
  <2>1. \A i : i \in Pending(m)' <=> i \in Pending(m)
    BY <1>2, <1>3, <1>4, <1>5
  <2> QED
    BY <2>1
<1>6. ASSUME s.minute = m
      PROVE  Pending(m)' # {} /\ queue'[LastPending(m)'].snapshot.counts = s.counts
  <2>1. n \in Pending(m)' /\ \A j \in Pending(m)' : j <= n
    BY <1>2, <1>3, <1>6
  <2>2. \A i \in Pending(m)' : n <= i => i = n
    BY <1>2, <1>3
  <2>3. LastPending(m)' \in Pending(m)' /\ \A j \in Pending(m)' : j <= LastPending(m)'
    BY <2>1 DEF LastPending
  <2>4. LastPending(m)' = n
    BY <2>1, <2>2, <2>3
  <2> QED
    BY <1>2, <2>1, <2>4
<1> QED
  BY <1>2, <1>4, <1>5, <1>6

-----------------------------------------------------------------------------
\* No minute is live and completing at once.
LEMMA LiveOrCompleting ==
  Handover => \A m : ~(Live(m) /\ Completing(m))
  BY DEF Handover, CompletesAnother, Live, Completing

\* What a step that moves no copy of minute m leaves as it was.
Undisturbed(m) ==
  /\ Live(m)' <=> Live(m)
  /\ Live(m) => current_counts' = current_counts
  /\ Completing(m)' <=> Completing(m)
  /\ Completing(m) => ui_snapshot' = ui_snapshot

\* Such a step may move the queue for other minutes only, and keeps the newest copy.
LEMMA NewestKept ==
  ASSUME TypeOK, Handover, Handover', NEW m, Undisturbed(m),
         Pending(m)' = Pending(m), \A i \in Pending(m) : queue'[i] = queue[i],
         Saving(m)' <=> Saving(m), Saving(m) => command' = command, rows'[m] = rows[m]
  PROVE  Newest(m)' = Newest(m)
<1>1. ~(Live(m) /\ Completing(m)) /\ ~(Live(m)' /\ Completing(m)')
  BY LiveOrCompleting DEF Undisturbed
<1>2. Pending(m) # {} => LastPending(m) \in Pending(m) /\ LastPending(m)' = LastPending(m)
  <2>1. LastPending(m)' = LastPending(m)
    BY DEF LastPending
  <2> QED
    BY <2>1, LastIsPending
<1> QED
  BY <1>1, <1>2, NewestIs, NewestIsNext DEF Undisturbed

LEMMA NewestUnmoved ==
  ASSUME TypeOK, Handover, Handover', NEW m, Undisturbed(m),
         UNCHANGED <<queue, saver, command, rows>>
  PROVE  Newest(m)' = Newest(m)
<1>1. Pending(m)' = Pending(m) /\ (Saving(m)' <=> Saving(m))
  BY DEF Pending, Saving
<1> QED
  BY <1>1, NewestKept

\* Where the newest copies stay what they are, nothing is lost.
LEMMA KeepsLoss ==
  ASSUME NoSilentLoss, pressed' = pressed, exposed \subseteq exposed',
         \A m \in Minutes \ exposed' : Newest(m)' = Newest(m)
  PROVE  NoSilentLoss'
<1>1. \A m : Truth(m)' = Truth(m)
  BY DEF Truth
<1> QED
  BY <1>1 DEF NoSilentLoss

\* While the UI thread is in the middle of something, the save thread is there.
LEMMA SaverListens ==
  ASSUME FlushInv, Handover, ui \notin {"idle", "join"}
  PROVE  saver # "done"
  BY DEF FlushInv, StopsLast, Handover, Gone, SaverLeavesLast

\* A minute that ends without a press has none to hand on.
LEMMA LiveEndsEmpty ==
  ASSUME TypeOK, NeverOvercounts, NEW m \in Minutes, Truth(m) = ZeroCounts,
         ~Live(m)', ~Completing(m)', UNCHANGED <<queue, saver, command, rows>>
  PROVE  Newest(m)' = Truth(m)
<1>1. /\ Pending(m)' = Pending(m)
      /\ Saving(m)' <=> Saving(m)
      /\ LastPending(m)' = LastPending(m)
  BY DEF Pending, Saving, LastPending
<1>2. /\ rows[m] = ZeroCounts
      /\ \A i \in Pending(m) : queue[i].snapshot.counts = ZeroCounts
      /\ Saving(m) => command.snapshot.counts = ZeroCounts
  BY Untouched
<1> QED
  BY <1>1, <1>2, NewestIsNext, LastIsPending

\* A press: counted in the live bucket, or the first of a new minute.
LEMMA PressLoss ==
  ASSUME TypeOK, NeverOvercounts, Handover, Handover', NoSilentLoss,
         NEW k \in Keys, RecordKeyPress(k)
  PROVE  NoSilentLoss'
<1> USE DEF bucket, timerVars, saverVars, history
<1>1. /\ running /\ running' /\ ui = "idle" /\ ~disposed /\ ~disposed'
      /\ current_minute_start' = now /\ current_counts' = Counted(k)
      /\ pressed' = [pressed EXCEPT ![now][k] = @ + 1]
      /\ UNCHANGED <<queue, saver, command, rows>>
      /\ exposed \subseteq exposed'
  BY DEF RecordKeyPress
<1>2. /\ now \in Minutes /\ current_minute_start \in Minutes
      /\ pressed \in [Minutes -> [Keys -> Nat]] /\ current_counts \in CountVector
      /\ MaxCount \in Nat \ {0}
  BY RecorderAssumption DEF TypeOK
<1>3. \A m : (Live(m)' <=> m = now) /\ (Live(m) <=> m = current_minute_start)
             /\ ~Completing(m)
  BY <1>1 DEF Live, Completing
\* The minute of the press: its count and the true one grow together.
<1>4. ASSUME NEW m \in Minutes \ exposed', m = now
      PROVE  Newest(m)' = Truth(m)'
  <2> DEFINE old == IF now # current_minute_start THEN ZeroCounts ELSE current_counts
  <2>1. Newest(m)' = Increment(old, k)
    <3>1. Live(m)' /\ ~Completing(m)'
      BY <1>1, <1>3, <1>4 DEF Handover, CompletesAnother, Completing
    <3> QED
      BY <1>1, <3>1, NewestIsNext DEF Counted
  <2>2. old = Truth(m)
    <3>1. CASE now = current_minute_start
      <4>1. Newest(m) = current_counts
        BY <1>3, <1>4, <3>1, LiveOrCompleting, NewestIs
      <4> QED
        BY <1>1, <1>2, <1>4, <3>1, <4>1 DEF NoSilentLoss
    <3>2. CASE now # current_minute_start
      <4>1. \A j \in Keys : ~(pressed[m][j] > 0)
        BY <1>4, <3>2 DEF RecordKeyPress
      <4>2. \A j \in Keys : pressed[m][j] = 0
        BY <1>2, <4>1
      <4> QED
        BY <1>2, <3>2, <4>2 DEF Truth, ZeroCounts
    <3> QED
      BY <3>1, <3>2
  <2>3. Increment(Truth(m), k) = Truth(m)'
    <3>1. ASSUME NEW j \in Keys
          PROVE  Increment(Truth(m), k)[j] = Truth(m)'[j]
      <4>1. /\ pressed[m][j] \in Nat
            /\ pressed'[m][j] = IF j = k THEN pressed[m][j] + 1 ELSE pressed[m][j]
        BY <1>1, <1>2, <1>4
      <4>2. Truth(m)[j] = IF pressed[m][j] < MaxCount THEN pressed[m][j] ELSE MaxCount
        BY DEF Truth
      <4>3. Truth(m)'[j] = IF pressed'[m][j] < MaxCount THEN pressed'[m][j] ELSE MaxCount
        BY DEF Truth
      <4>4. Increment(Truth(m), k)[j]
              = IF j = k /\ Truth(m)[j] < MaxCount THEN Truth(m)[j] + 1 ELSE Truth(m)[j]
        BY DEF Increment, Truth
      <4> HIDE DEF old
      <4>5. CASE j = k
        BY <1>2, <4>1, <4>2, <4>3, <4>4, <4>5
      <4>6. CASE j # k
        BY <1>2, <4>1, <4>2, <4>3, <4>4, <4>6
      <4> QED
        BY <4>5, <4>6
    <3>2. Increment(Truth(m), k) = [j \in Keys |-> Increment(Truth(m), k)[j]]
      BY DEF Increment, Truth
    <3>3. Truth(m)' = [j \in Keys |-> Truth(m)'[j]]
      BY DEF Truth
    <3> QED
      BY <3>1, <3>2, <3>3
  <2> QED
    BY <2>1, <2>2, <2>3
\* The minute it ends: its counts are handed on, unless there are none.
<1>5. ASSUME NEW m \in Minutes \ exposed, m # now, m = current_minute_start
      PROVE  Newest(m)' = Truth(m)'
  <2>1. Truth(m)' = Truth(m)
    BY <1>1, <1>2, <1>5 DEF Truth
  <2>2. Newest(m) = current_counts /\ Newest(m) = Truth(m)
    BY <1>3, <1>5, LiveOrCompleting, NewestIs DEF NoSilentLoss
  <2>3. ~Live(m)'
    BY <1>3, <1>5
  <2>4. CASE HasInput(SnapshotLocked)
    <3>1. ui' = "pushCompleted" /\ ui_snapshot' = SnapshotLocked
      BY <1>5, <2>4 DEF RecordKeyPress
    <3>2. Completing(m)'
      BY <1>5, <3>1 DEF Completing, SnapshotLocked
    <3> QED
      BY <2>1, <2>2, <2>3, <3>1, <3>2, NewestIsNext DEF SnapshotLocked
  <2>5. CASE ~HasInput(SnapshotLocked)
    <3>1. ~Completing(m)'
      BY <1>1, <1>5, <2>5 DEF RecordKeyPress, Completing
    <3>2. Truth(m) = ZeroCounts
      <4>1. \A j \in Keys : current_counts[j] = 0
        BY <1>2, <2>5 DEF HasInput, SnapshotLocked, CountVector
      <4> QED
        BY <1>2, <2>2, <4>1 DEF CountVector, ZeroCounts
    <3> QED
      BY <1>1, <2>1, <2>3, <3>1, <3>2, LiveEndsEmpty
  <2> QED
    BY <2>4, <2>5
\* Every other minute.
<1>6. ASSUME NEW m \in Minutes \ exposed, m # now, m # current_minute_start
      PROVE  Newest(m)' = Truth(m)'
  <2>1. Truth(m)' = Truth(m)
    BY <1>1, <1>2, <1>6 DEF Truth
  <2>2. ~Completing(m)'
    BY <1>1, <1>6 DEF RecordKeyPress, Completing, SnapshotLocked
  <2>3. Undisturbed(m)
    BY <1>3, <1>6, <2>2 DEF Undisturbed
  <2> QED
    BY <1>1, <2>1, <2>3, NewestUnmoved DEF NoSilentLoss
<1> QED
  BY <1>1, <1>4, <1>5, <1>6 DEF NoSilentLoss

\* A bucket queued by the UI thread: it is the newest copy of its minute, or the
\* live bucket still is.
LEMMA PushLoss ==
  ASSUME TypeOK, FlushInv, Handover, Handover', NoSilentLoss,
         PushCompleted \/ FlushPush
  PROVE  NoSilentLoss'
<1> USE DEF bucket, history
<1>1. /\ ui \in {"pushCompleted", "flushPush"}
      /\ saver # "done"
      /\ saver' # "done"
      /\ \E id : Push(ui_snapshot, id)
      /\ UNCHANGED <<running, bucket, disposed, command, rows, history>>
      /\ ui' = IF ui = "flushPush" THEN "flushWait" ELSE "idle"
  <2>1. ui \in {"pushCompleted", "flushPush"}
    BY DEF PushCompleted, FlushPush
  <2>2. saver # "done"
    BY <2>1, SaverListens
  <2> QED
    BY <2>1, <2>2 DEF PushCompleted, FlushPush, Push
<1>2. ASSUME NEW m \in Minutes
      PROVE  Newest(m)' = Newest(m)
  <2>1. /\ ui_snapshot.minute # m => Pending(m)' = Pending(m)
        /\ \A i \in Pending(m) : queue'[i] = queue[i]
        /\ ui_snapshot.minute = m =>
             /\ Pending(m)' # {}
             /\ queue'[LastPending(m)'].snapshot.counts = ui_snapshot.counts
    BY <1>1, PendingPush
  <2>2. ~Completing(m)'
    BY <1>1 DEF Completing
  <2>3. CASE Live(m)'
    <3>1. Live(m) /\ ~Completing(m)
      BY <1>1, <2>3, LiveOrCompleting DEF Live
    <3> QED
      BY <1>1, <2>2, <2>3, <3>1, NewestIs, NewestIsNext
  <2>4. CASE ~Live(m)' /\ ui_snapshot.minute = m
    <3>1. Newest(m)' = ui_snapshot.counts
      BY <2>1, <2>2, <2>4, NewestIsNext
    <3>2. CASE ui = "pushCompleted"
      <4>1. Completing(m) /\ ~Live(m)
        BY <2>4, <3>2, LiveOrCompleting DEF Completing
      <4> QED
        BY <3>1, <4>1, NewestIs
    <3>3. CASE ui = "flushPush"
      <4>1. Live(m) /\ ~Completing(m) /\ ui_snapshot.counts = current_counts
        BY <2>4, <3>3 DEF Handover, Gone, FlushesLive, SnapshotLocked, Live, Completing
      <4> QED
        BY <3>1, <4>1, NewestIs
    <3> QED
      BY <1>1, <3>2, <3>3
  <2>5. CASE ~Live(m)' /\ ui_snapshot.minute # m
    <3>1. ~Live(m) /\ ~Completing(m)
      BY <1>1, <2>5 DEF Handover, FlushesLive, SnapshotLocked, Live, Completing
    <3>2. Undisturbed(m)
      BY <2>2, <2>5, <3>1 DEF Undisturbed
    <3>3. Saving(m)' <=> Saving(m)
      BY <1>1 DEF Saving, Push
    <3> QED
      BY <1>1, <2>1, <2>5, <3>2, <3>3, NewestKept
  <2> QED
    BY <2>3, <2>4, <2>5
<1> QED
  BY <1>1, <1>2, KeepsLoss

\* The timer's snapshot: overtaken, or as new as any.
LEMMA TimerLoss ==
  ASSUME TypeOK, Handover, Handover', NoSilentLoss, TimerPush
  PROVE  NoSilentLoss'
<1> USE DEF bucket, uiVars
<1>1. /\ Push(timer_snapshot, 0)
      /\ UNCHANGED <<running, bucket, ui, ui_snapshot, disposed, command, rows, pressed>>
      /\ exposed \subseteq exposed'
  BY DEF TimerPush
<1>2. \A m : Undisturbed(m) /\ (Saving(m)' <=> Saving(m))
  BY <1>1 DEF Undisturbed, Live, Completing, Saving, Push
<1>3. ASSUME NEW m \in Minutes \ exposed'
      PROVE  Newest(m)' = Newest(m)
  <2>1. CASE saver = "done"
    <3>1. Pending(m)' = Pending(m) /\ Pending(m) = {}
      BY <1>1, <2>1 DEF Pending, Push
    <3> QED
      BY <1>1, <1>2, <3>1, NewestKept
  <2>2. CASE saver # "done"
    <3>1. /\ timer_snapshot.minute # m => Pending(m)' = Pending(m)
          /\ \A i \in Pending(m) : queue'[i] = queue[i]
          /\ timer_snapshot.minute = m =>
               /\ Pending(m)' # {}
               /\ queue'[LastPending(m)'].snapshot.counts = timer_snapshot.counts
      BY <1>1, <2>2, PendingPush
    <3>2. CASE timer_snapshot.minute # m
      BY <1>1, <1>2, <3>1, <3>2, NewestKept
    <3>3. CASE Live(m) \/ Completing(m)
      BY <1>1, <1>2, <3>3, LiveOrCompleting, NewestIs, NewestIsNext DEF Undisturbed
    <3>4. CASE timer_snapshot.minute = m /\ ~Live(m) /\ ~Completing(m)
      <4>1. timer_snapshot.counts = Newest(m)
        BY <1>3, <2>2, <3>4 DEF TimerPush
      <4>2. Newest(m)' = timer_snapshot.counts
        BY <1>2, <3>1, <3>4, NewestIsNext DEF Undisturbed
      <4> QED
        BY <4>1, <4>2
    <3> QED
      BY <3>2, <3>3, <3>4
  <2> QED
    BY <2>1, <2>2
<1> QED
  BY <1>1, <1>3, KeepsLoss

\* The save thread takes the first command: the last of a minute stays the last.
LEMMA PopLoss ==
  ASSUME TypeOK, Handover, Handover', NoSilentLoss, SaverPop
  PROVE  NoSilentLoss'
<1> USE DEF bucket, uiVars, history
<1>1. /\ saver = "check" /\ saver' = "save" /\ command' = Head(queue) /\ queue' = Tail(queue)
      /\ UNCHANGED <<running, bucket, ui, ui_snapshot, disposed, rows, history>>
  BY DEF SaverPop
<1>2. /\ Len(queue) \in Nat /\ DOMAIN queue = 1 .. Len(queue) /\ 1 \in DOMAIN queue
      /\ command' = queue[1]
      /\ DOMAIN queue' = 1 .. (Len(queue) - 1)
      /\ \A i \in DOMAIN queue' : queue'[i] = queue[i + 1]
  <2>1. queue \in Seq(SaveCommand) /\ queue # << >>
    BY DEF TypeOK, SaverPop
  <2> QED
    BY <1>1, <2>1
<1>3. \A m : Undisturbed(m)
  BY <1>1 DEF Undisturbed, Live, Completing
<1>4. ASSUME NEW m \in Minutes
      PROVE  Newest(m)' = Newest(m)
  <2>1. /\ Pending(m) = {i \in 1 .. Len(queue) : queue[i].snapshot.minute = m}
        /\ Pending(m)' = {i \in 1 .. (Len(queue) - 1) : queue[i + 1].snapshot.minute = m}
        /\ Saving(m)' <=> queue[1].snapshot.minute = m
        /\ ~Saving(m)
    BY <1>1, <1>2 DEF Pending, Saving
  <2>2. CASE Live(m) \/ Completing(m)
    BY <1>1, <1>3, <2>2, LiveOrCompleting, NewestIs, NewestIsNext DEF Undisturbed
  <2> DEFINE last == LastPending(m)
  <2>3. CASE ~Live(m) /\ ~Completing(m) /\ Pending(m) = {}
    <3>1. Pending(m)' = {} /\ ~Saving(m)'
      BY <1>2, <2>1, <2>3
    <3> QED
      BY <1>1, <1>3, <2>1, <2>3, <3>1, NewestIs, NewestIsNext DEF Undisturbed
  <2>4. CASE ~Live(m) /\ ~Completing(m) /\ Pending(m) # {}
    <3>1. last \in Pending(m) /\ \A j \in Pending(m) : j <= last
      BY <2>4, LastIsPending
    <3>2. Newest(m) = queue[last].snapshot.counts
      BY <2>4, NewestIs
    <3> DEFINE l == last
    <3>3. CASE last = 1
      <4>1. Pending(m)' = {}
        <5>1. ASSUME NEW i \in Pending(m)'
              PROVE  FALSE
          <6>1. i + 1 \in Pending(m) /\ i \in Nat \ {0}
            BY <1>2, <2>1
          <6> QED
            BY <3>1, <3>3, <6>1
        <5> QED
          BY <5>1
      <4>2. Saving(m)'
        BY <2>1, <3>1, <3>3
      <4> QED
        BY <1>2, <1>3, <2>4, <3>2, <3>3, <4>1, <4>2, NewestIsNext DEF Undisturbed
    <3>4. ASSUME NEW n, n = last, n # 1
          PROVE  Newest(m)' = Newest(m)
      <4>1. n \in 1 .. Len(queue) /\ queue[n].snapshot.minute = m
            /\ n - 1 \in 1 .. (Len(queue) - 1)
        BY <1>2, <2>1, <3>1, <3>4
      <4>2. n - 1 \in Pending(m)'
        BY <2>1, <4>1
      <4>3. \A j \in Pending(m)' : j \in Nat /\ j <= n - 1
        <5> TAKE j \in Pending(m)'
        <5>1. j + 1 \in Pending(m) /\ j \in Nat
          BY <1>2, <2>1
        <5> QED
          BY <3>1, <3>4, <4>1, <5>1
      <4>4. LastPending(m)' = n - 1
        <5>1. LastPending(m)' \in Pending(m)' /\ n - 1 <= LastPending(m)'
          BY <4>2, <4>3 DEF LastPending
        <5> QED
          BY <4>1, <4>3, <5>1
      <4>5. queue'[n - 1] = queue[n]
        BY <1>2, <4>1
      <4> QED
        BY <1>3, <2>4, <3>2, <3>4, <4>2, <4>4, <4>5, NewestIsNext DEF Undisturbed
    <3> QED
      BY <3>3, <3>4
  <2> QED
    BY <2>2, <2>3, <2>4
<1> QED
  BY <1>1, <1>4, KeepsLoss

\* The save: the row takes the place of the command, or the command is dropped.
LEMMA SaveLoss ==
  ASSUME TypeOK, Handover, Handover', NoSilentLoss, SaverCommit \/ SaverFail
  PROVE  NoSilentLoss'
<1> USE DEF bucket, uiVars
<1>1. /\ saver = "save" /\ saver' \in {"saved", "failed"} /\ pressed' = pressed
      /\ UNCHANGED <<running, bucket, ui, ui_snapshot, disposed, queue, command>>
      /\ exposed \subseteq exposed'
  BY DEF SaverCommit, SaverFail, history
<1>2. \A m : Undisturbed(m) /\ Pending(m)' = Pending(m) /\ ~Saving(m)'
  BY <1>1 DEF Undisturbed, Live, Completing, Pending, Saving
<1>3. ASSUME NEW m \in Minutes \ exposed'
      PROVE  Newest(m)' = Newest(m)
  <2>1. CASE Live(m) \/ Completing(m)
    BY <1>1, <1>2, <2>1, LiveOrCompleting, NewestIs, NewestIsNext DEF Undisturbed
  <2>2. CASE ~Live(m) /\ ~Completing(m) /\ Pending(m) # {}
    <3>1. LastPending(m)' = LastPending(m)
      BY <1>2 DEF LastPending
    <3> QED
      BY <1>1, <1>2, <2>2, <3>1, NewestIs, NewestIsNext DEF Undisturbed
  <2>3. CASE ~Live(m) /\ ~Completing(m) /\ Pending(m) = {}
    <3>1. Newest(m)' = rows'[m]
      BY <1>2, <2>3, NewestIsNext DEF Undisturbed
    <3>2. Newest(m) = IF Saving(m) THEN command.snapshot.counts ELSE rows[m]
      BY <2>3, NewestIs
    <3>3. CASE SaverCommit
      <4>1. rows'[m] = IF command.snapshot.minute = m THEN command.snapshot.counts ELSE rows[m]
        BY <3>3 DEF SaverCommit, TypeOK
      <4> QED
        BY <1>1, <3>1, <3>2, <4>1 DEF Saving
    <3>4. CASE SaverFail
      <4>1. rows' = rows /\ (Saving(m) => command.snapshot.counts = rows[m])
        BY <1>3, <2>3, <3>4 DEF SaverFail, Saving
      <4> QED
        BY <3>1, <3>2, <4>1
    <3> QED
      BY <3>3, <3>4
  <2> QED
    BY <2>1, <2>2, <2>3
<1> QED
  BY <1>1, <1>3, KeepsLoss

\* The end: orderly, with nothing left but the rows, or by a kill.
LEMMA DownLoss ==
  ASSUME TypeOK, Handover, Handover', NoSilentLoss, Join \/ Crash
  PROVE  NoSilentLoss'
<1>1. Down /\ rows' = rows /\ pressed' = pressed /\ exposed \subseteq exposed'
  BY DEF Join, Crash, history
<1>2. ASSUME NEW m \in Minutes \ exposed'
      PROVE  Newest(m)' = Newest(m)
  <2>1. Newest(m)' = rows[m]
    <3>1. ~Live(m)' /\ ~Completing(m)' /\ Pending(m)' = {} /\ ~Saving(m)'
      BY <1>1 DEF Down, Live, Completing, Pending, Saving
    <3> QED
      BY <1>1, <3>1, NewestIsNext
  <2>2. CASE Join
    <3>1. ~Live(m) /\ ~Completing(m) /\ Pending(m) = {} /\ ~Saving(m)
      BY <2>2 DEF Join, Handover, DisposesFirst, Live, Completing, Pending, Saving
    <3> QED
      BY <2>1, <3>1, NewestIs
  <2>3. CASE Crash
    BY <1>2, <2>1, <2>3 DEF Crash
  <2> QED
    BY <2>2, <2>3
<1> QED
  BY <1>1, <1>2, KeepsLoss

\* A new recorder starts from the row of its minute.
LEMMA CreateLoss ==
  ASSUME TypeOK, Handover, Handover', NoSilentLoss, Create
  PROVE  NoSilentLoss'
<1>1. /\ ~running /\ current_minute_start' = now /\ current_counts' = rows[now]
      /\ UNCHANGED <<queue, rows, pressed, exposed, ui, ui_snapshot, disposed>>
      /\ saver' = "check" /\ ui = "idle" /\ queue = << >> /\ saver = "done"
  BY DEF Create, Resume, Handover, Gone, uiVars, history
<1>2. ASSUME NEW m \in Minutes
      PROVE  Newest(m)' = Newest(m)
  <2>1. ~Live(m) /\ ~Completing(m) /\ Pending(m) = {} /\ ~Saving(m)
    BY <1>1 DEF Live, Completing, Pending, Saving
  <2>2. ~Completing(m)' /\ Pending(m)' = {} /\ ~Saving(m)' /\ (Live(m)' => m = now)
    BY <1>1 DEF Live, Completing, Pending, Saving
  <2> QED
    BY <1>1, <2>1, <2>2, NewestIs, NewestIsNext
<1> QED
  BY <1>1, <1>2, KeepsLoss

\* The destructor finds the live bucket empty.
LEMMA DisposeLoss ==
  ASSUME TypeOK, NeverOvercounts, Handover, Handover', NoSilentLoss, DisposeSnapshot
  PROVE  NoSilentLoss'
<1> USE DEF bucket, saverVars, history
<1>1. /\ ui = "disposeSnapshot" /\ disposed /\ disposed'
      /\ UNCHANGED <<running, bucket, queue, saver, command, rows, history>>
      /\ ui' = IF HasInput(SnapshotLocked) THEN "flushPush" ELSE "stopQueue"
  BY DEF DisposeSnapshot, Handover, DisposesFirst
<1>2. \A m : ~Completing(m) /\ ~Completing(m)'
  BY <1>1 DEF Completing
<1>3. ASSUME NEW m \in Minutes \ exposed'
      PROVE  Newest(m)' = Newest(m)
  <2>1. CASE Live(m)' <=> Live(m)
    <3>1. Undisturbed(m)
      BY <1>1, <1>2, <2>1 DEF Undisturbed
    <3> QED
      BY <1>1, <3>1, NewestUnmoved
  <2>2. CASE ~(Live(m)' <=> Live(m))
    <3>1. Live(m) /\ ~Live(m)' /\ ~HasInput(SnapshotLocked)
      BY <1>1, <2>2 DEF Live
    <3>2. Newest(m) = current_counts /\ Newest(m) = Truth(m)
      BY <1>1, <1>2, <1>3, <3>1, NewestIs DEF NoSilentLoss
    <3>3. current_counts = ZeroCounts
      <4>1. current_counts \in CountVector
        BY DEF TypeOK
      <4>2. \A j \in Keys : current_counts[j] = 0
        BY <3>1, <4>1, RecorderAssumption DEF HasInput, SnapshotLocked, CountVector
      <4> QED
        BY <4>1, <4>2 DEF CountVector, ZeroCounts
    <3> QED
      BY <1>1, <1>2, <3>1, <3>2, <3>3, LiveEndsEmpty
  <2> QED
    BY <2>1, <2>2
<1> QED
  BY <1>1, <1>3, KeepsLoss

\* At the beginning there is only the database.
LEMMA InitLoss == Init => NoSilentLoss
<1> SUFFICES ASSUME Init, NEW m \in Minutes
             PROVE  Newest(m) = Truth(m)
  BY DEF NoSilentLoss
<1>1. ~Live(m) /\ ~Completing(m) /\ Pending(m) = {} /\ ~Saving(m)
  BY DEF Init, Live, Completing, Pending, Saving
<1>2. Newest(m) = ZeroCounts
  BY <1>1, NewestIs DEF Init
<1>3. Truth(m) = ZeroCounts
  BY RecorderAssumption DEF Init, Truth, ZeroCounts
<1> QED
  BY <1>2, <1>3

\* Every step, by its kind.
LEMMA StepLoss ==
  TypeOK /\ NeverOvercounts /\ FlushInv /\ Handover /\ Handover' /\ NoSilentLoss /\ [Next]_vars
    => NoSilentLoss'
<1> SUFFICES ASSUME TypeOK, NeverOvercounts, FlushInv, Handover, Handover', NoSilentLoss,
                    [Next]_vars
             PROVE  NoSilentLoss'
  OBVIOUS
<1>1. CASE Create
  BY <1>1, CreateLoss
<1>2. ASSUME NEW k \in Keys, RecordKeyPress(k)
      PROVE  NoSilentLoss'
  BY <1>2, PressLoss
<1>3. CASE PushCompleted \/ FlushPush
  BY <1>3, PushLoss
<1>4. CASE DisposeSnapshot
  BY <1>4, DisposeLoss
<1>5. CASE Join \/ Crash
  BY <1>5, DownLoss
<1>6. CASE TimerPush
  BY <1>6, TimerLoss
<1>7. CASE SaverPop
  BY <1>7, PopLoss
<1>8. CASE SaverCommit \/ SaverFail
  BY <1>8, SaveLoss
<1>9. CASE \/ FlushNow \/ FlushSleep \/ FlushReturn \/ Dispose \/ StopQueue
           \/ TimerCheck \/ TimerSlice \/ TimerSnapshot
           \/ SaverSleep \/ SaverExit \/ SaverAck \/ SaverReport
           \/ ClockForward \/ ClockBack \/ UNCHANGED vars
  <2> USE <1>9 DEF FlushNow, FlushSleep, FlushReturn, Dispose, StopQueue, TimerCheck,
        TimerSlice, TimerSnapshot, SaverSleep, SaverExit, SaverAck, SaverReport,
        ClockForward, ClockBack, Complete, vars, uiVars, saverVars, bucket, history
  <2>1. UNCHANGED <<running, bucket, queue, rows, pressed, exposed>>
    OBVIOUS
  <2>2. ASSUME NEW m
        PROVE  Undisturbed(m)
    BY DEF Undisturbed, Live, Completing
  <2>3. ASSUME NEW m
        PROVE  (Saving(m)' <=> Saving(m)) /\ (Saving(m) => command' = command)
    BY DEF Saving
  <2>4. ASSUME NEW m
        PROVE  Pending(m)' = Pending(m)
    <3>1. queue = << >> \/ (saver' = "done" <=> saver = "done")
      OBVIOUS
    <3> QED
      BY <2>1, <3>1 DEF Pending
  <2>5. \A m \in Minutes : Newest(m)' = Newest(m)
    <3> TAKE m \in Minutes
    <3>1. \A i \in Pending(m) : queue'[i] = queue[i]
      BY <2>1
    <3>2. rows'[m] = rows[m]
      BY <2>1
    <3> HIDE <1>9
    <3> QED
      BY <2>2, <2>3, <2>4, <3>1, <3>2, NewestKept
  <2> QED
    BY <2>1, <2>5, KeepsLoss
<1> QED
  BY <1>1, <1>2, <1>3, <1>4, <1>5, <1>6, <1>7, <1>8, <1>9
  DEF Next, UiStep, TimerStep, SaverStep

\* Whatever the threads do to one another, and through restarts, kills, refused saves
\* and a clock set back: outside the minutes the four known ways have hit, the newest
\* copy of a minute counts every press.
THEOREM NothingLostSilently == Spec => []NoSilentLoss
<1>1. Init => TypeOK /\ NeverOvercounts /\ FlushInv /\ Handover /\ NoSilentLoss
  BY InitType, InitNeverOvercounts, InitFlush, InitHandover, InitLoss
<1>2. /\ TypeOK /\ NeverOvercounts /\ FlushInv /\ Handover /\ NoSilentLoss
      /\ [Next]_vars
      => (TypeOK /\ NeverOvercounts /\ FlushInv /\ Handover /\ NoSilentLoss)'
  BY StepType, StepNeverOvercounts, StepFlush, StepHandover, StepLoss
<1> QED
  BY <1>1, <1>2, PTL DEF Spec

\* What a reader of the database finds when the program is not running: every minute
\* that none of the four ways has hit is complete.
THEOREM DatabaseIsComplete ==
  Spec => [](~running => \A m \in Minutes \ exposed : rows[m] = Truth(m))
<1>1. Handover /\ NoSilentLoss =>
        (~running => \A m \in Minutes \ exposed : rows[m] = Truth(m))
  <2> SUFFICES ASSUME Handover, NoSilentLoss, ~running, NEW m \in Minutes \ exposed
               PROVE  rows[m] = Truth(m)
    OBVIOUS
  <2>1. ~Live(m) /\ ~Completing(m) /\ Pending(m) = {} /\ ~Saving(m)
    BY DEF Handover, Gone, Live, Completing, Pending, Saving
  <2> QED
    BY <2>1, NewestIs DEF NoSilentLoss
<1>2. Init => TypeOK /\ FlushInv /\ Handover
  BY InitType, InitFlush, InitHandover
<1>3. TypeOK /\ FlushInv /\ Handover /\ [Next]_vars => (TypeOK /\ FlushInv /\ Handover)'
  BY StepType, StepFlush, StepHandover
<1> QED
  BY <1>1, <1>2, <1>3, NothingLostSilently, PTL DEF Spec
-----------------------------------------------------------------------------
(* Who may sleep. *)
\* The save thread sleeps while there is nothing for it.
SleepsIdle == saver = "asleep" => queue = << >> /\ ~stop_queue

\* The command of an unanswered flush is queued or in the save thread's hand, ...
Owed ==
  Flushing /\ completed_wait_id < ui_wait_id =>
    command.wait_id = ui_wait_id \/ \E i \in DOMAIN queue : queue[i].wait_id = ui_wait_id

\* ... which has one in hand only while it is busy.
BusyWithIt == command.wait_id # 0 => saver \in {"save", "saved", "failed"}

\* The answer and the notification are one step, so the flusher sleeps without one.
SleepsUnanswered == ui = "flushAsleep" => completed_wait_id < ui_wait_id

\* The destructor joins a thread only after it has been told to end.
ToldToEnd == (disposed => stop_timer) /\ (ui = "join" => disposed /\ stop_queue)

Wakeups == SleepsIdle /\ Owed /\ BusyWithIt /\ SleepsUnanswered /\ ToldToEnd

LEMMA InitWakeups == Init => Wakeups
  BY DEF Init, Wakeups, SleepsIdle, Owed, BusyWithIt, SleepsUnanswered, ToldToEnd,
         Flushing, EmptyCommand

LEMMA DownWakeups == Down => Wakeups'
  BY DEF Down, Wakeups, SleepsIdle, Owed, BusyWithIt, SleepsUnanswered, ToldToEnd,
         Flushing, EmptyCommand

\* Whoever queues a command wakes the save thread, and takes none out of the queue.
LEMMA PushWakes ==
  ASSUME TypeOK, Wakeups, NEW s, NEW id \in Nat, Push(s, id)
  PROVE  /\ SleepsIdle'
         /\ saver # "asleep" => saver' = saver
         /\ saver' # "asleep"
         /\ queue'[Len(queue) + 1].wait_id = id /\ Len(queue) + 1 \in DOMAIN queue'
         /\ \A i \in DOMAIN queue : i \in DOMAIN queue' /\ queue'[i] = queue[i]
<1>1. /\ queue' = Append(queue, [snapshot |-> s, wait_id |-> id])
      /\ saver' = IF saver = "asleep" THEN "check" ELSE saver
  BY DEF Push
<1>2. queue \in Seq(SaveCommand)
  BY DEF TypeOK
<1> QED
  BY <1>1, <1>2 DEF SleepsIdle

\* The save thread takes a command: the one that is waited for is in its hand now, or
\* still queued.
LEMMA PopWakes == TypeOK /\ FlushInv /\ Wakeups /\ SaverPop => Wakeups'
<1> SUFFICES ASSUME TypeOK, FlushInv, Wakeups, SaverPop
             PROVE  Wakeups'
  OBVIOUS
<1>1. /\ UNCHANGED <<waits, ui, ui_wait_id, disposed, stops>>
      /\ saver = "check" /\ saver' = "save"
  BY DEF SaverPop, uiVars
<1>2. Owed'
  <2> SUFFICES ASSUME Flushing, completed_wait_id < ui_wait_id
               PROVE  \/ command'.wait_id = ui_wait_id
                      \/ \E i \in DOMAIN queue' : queue'[i].wait_id = ui_wait_id
    BY <1>1 DEF Owed, Flushing, waits
  <2>1. ui_wait_id # 0 /\ command.wait_id = 0
    BY <1>1 DEF FlushInv, WaitIds, Wakeups, BusyWithIt
  <2>2. PICK i \in DOMAIN queue : queue[i].wait_id = ui_wait_id
    BY <2>1 DEF Wakeups, Owed
  <2>3. /\ queue \in Seq(SaveCommand) /\ queue # << >>
        /\ command' = Head(queue) /\ queue' = Tail(queue)
    BY DEF SaverPop, TypeOK
  <2>4. CASE i = 1
    BY <2>2, <2>3, <2>4
  <2>5. CASE i # 1
    <3>1. i - 1 \in DOMAIN queue' /\ queue'[i - 1] = queue[i]
      BY <2>2, <2>3, <2>5
    <3> QED
      BY <2>2, <3>1
  <2> QED
    BY <2>4, <2>5
<1> QED
  BY <1>1, <1>2
  DEF Wakeups, SleepsIdle, BusyWithIt, SleepsUnanswered, ToldToEnd, waits, stops

\* The save thread answers, and wakes the flusher in the same step.
LEMMA CompleteWakes ==
  ASSUME TypeOK, FlushInv, Wakeups, NEW failed \in BOOLEAN, Complete(failed),
         saver' = "check", command' = EmptyCommand,
         UNCHANGED <<queue, ui_wait_id, disposed, stops>>
  PROVE  Wakeups'
<1>1. CASE command.wait_id = 0
  <2>1. UNCHANGED <<waits, ui>>
    BY <1>1 DEF Complete
  <2>2. Flushing => ui_wait_id # 0
    BY DEF FlushInv, WaitIds
  <2> QED
    BY <1>1, <2>1, <2>2
    DEF Wakeups, SleepsIdle, Owed, BusyWithIt, SleepsUnanswered, ToldToEnd, Flushing,
        waits, stops, EmptyCommand
<1>2. CASE command.wait_id # 0
  <2>1. completed_wait_id' = ui_wait_id /\ ui' = IF ui = "flushAsleep" THEN "flushWait" ELSE ui
    BY <1>2 DEF Complete, FlushInv, InHand
  <2>2. ui_wait_id \in Nat
    BY IdTypes
  <2> QED
    BY <2>1, <2>2
    DEF Wakeups, SleepsIdle, Owed, BusyWithIt, SleepsUnanswered, ToldToEnd, stops,
        EmptyCommand
<1> QED
  BY <1>1, <1>2

\* No step, of any thread, loses a wakeup.
LEMMA StepWakeups == TypeOK /\ FlushInv /\ Handover /\ Wakeups /\ [Next]_vars => Wakeups'
<1> SUFFICES ASSUME TypeOK, FlushInv, Handover, Wakeups, [Next]_vars
             PROVE  Wakeups'
  OBVIOUS
<1> USE DEF Wakeups, Owed, BusyWithIt, SleepsUnanswered, ToldToEnd, Flushing
<1>1. CASE Create
  <2>1. queue = << >> /\ ui = "idle" /\ command.wait_id = 0
    BY <1>1 DEF Create, Handover, Gone
  <2> QED
    BY <1>1, <2>1 DEF Create, SleepsIdle, waits, stops, uiVars
<1>2. ASSUME NEW k \in Keys, RecordKeyPress(k)
      PROVE  Wakeups'
  BY <1>2 DEF RecordKeyPress, SleepsIdle, waits, stops, saverVars
<1>3. CASE PushCompleted \/ TimerPush
  <2>1. PICK s : Push(s, 0)
    BY <1>3 DEF PushCompleted, TimerPush
  <2>2. /\ UNCHANGED <<waits, stops, disposed, ui_wait_id, command>>
        /\ ui' = ui \/ (ui = "pushCompleted" /\ ui' = "idle")
    BY <1>3 DEF PushCompleted, TimerPush, uiVars
  <2> QED
    BY <2>1, <2>2, PushWakes DEF waits, stops
<1>4. CASE FlushPush
  <2>1. /\ Push(ui_snapshot, next_wait_id)
        /\ ui' = "flushWait" /\ ui_wait_id' = next_wait_id
        /\ UNCHANGED <<stops, disposed, command>>
    BY <1>4 DEF FlushPush
  <2>2. next_wait_id \in Nat
    BY IdTypes
  <2> QED
    BY <2>1, <2>2, PushWakes DEF stops
<1>5. CASE FlushNow \/ FlushReturn \/ Dispose \/ DisposeSnapshot
  BY <1>5 DEF FlushNow, FlushReturn, Dispose, DisposeSnapshot, SleepsIdle, waits, stops,
              saverVars
<1>6. CASE FlushSleep
  <2>1. /\ UNCHANGED <<queue, waits, stops, disposed, ui_wait_id, saver, command>>
        /\ ui = "flushWait" /\ ui' = "flushAsleep" /\ ~FlushDone
    BY <1>6 DEF FlushSleep, saverVars
  <2>2. completed_wait_id < ui_wait_id
    BY <2>1, IdTypes DEF FlushDone
  <2> QED
    BY <2>1, <2>2 DEF SleepsIdle, waits, stops
<1>7. CASE StopQueue
  <2>1. /\ ui = "stopQueue" /\ ui' = "join" /\ stop_queue'
        /\ saver' = IF saver = "asleep" THEN "check" ELSE saver
        /\ UNCHANGED <<queue, waits, stop_timer, disposed, ui_wait_id, command>>
    BY <1>7 DEF StopQueue
  <2>2. disposed
    BY <2>1 DEF Handover, DisposesFirst
  <2> QED
    BY <2>1, <2>2 DEF SleepsIdle, waits
<1>8. CASE Join \/ Crash
  BY <1>8, DownWakeups DEF Join, Crash
<1>9. CASE TimerCheck \/ TimerSlice \/ TimerSnapshot \/ ClockForward \/ ClockBack
           \/ UNCHANGED vars
  BY <1>9 DEF TimerCheck, TimerSlice, TimerSnapshot, ClockForward, ClockBack, vars,
              SleepsIdle, waits, stops, uiVars, saverVars
<1>10. CASE SaverPop
  BY <1>10, PopWakes
<1>11. CASE SaverSleep \/ SaverExit \/ SaverCommit \/ SaverFail
  BY <1>11 DEF SaverSleep, SaverExit, SaverCommit, SaverFail, SleepsIdle, waits, stops,
               uiVars
<1>12. CASE SaverAck
  BY <1>12, CompleteWakes DEF SaverAck
<1>13. CASE SaverReport
  BY <1>13, CompleteWakes DEF SaverReport
<1> QED
  BY <1>1, <1>2, <1>3, <1>4, <1>5, <1>6, <1>7, <1>8, <1>9, <1>10, <1>11, <1>12, <1>13
  DEF Next, UiStep, TimerStep, SaverStep

\* In no interleaving does a thread sleep through its notification, and the three
\* never wait for one another: a flush waits for a save thread that is awake and owes
\* it the answer, and the destructor for threads that know they are to end.
THEOREM NobodySleepsThrough == Spec => []NoLostWakeup
<1>1. TypeOK /\ FlushInv /\ Handover /\ Wakeups => NoLostWakeup
  <2> SUFFICES ASSUME TypeOK, FlushInv, Handover, Wakeups
               PROVE  NoLostWakeup
    OBVIOUS
  <2>1. saver = "asleep" => queue = << >> /\ ~stop_queue
    BY DEF Wakeups, SleepsIdle
  <2>2. ASSUME ui = "flushAsleep"
        PROVE  ~FlushDone /\ saver \notin {"asleep", "done"}
    <3>1. completed_wait_id < ui_wait_id
      BY <2>2 DEF Wakeups, SleepsUnanswered
    <3>2. ~FlushDone
      BY <2>2, <3>1, IdTypes DEF FlushDone, FlushInv, StopsLast
    <3>3. saver # "done"
      BY <2>2, SaverListens
    <3>4. ui_wait_id # 0
      BY <2>2 DEF FlushInv, WaitIds, Flushing
    <3>5. saver # "asleep"
      BY <2>1, <2>2, <3>1, <3>4 DEF Wakeups, Owed, BusyWithIt, Flushing
    <3> QED
      BY <3>2, <3>3, <3>5
  <2>3. ui = "join" => stop_timer /\ stop_queue /\ saver # "asleep"
    BY <2>1 DEF Wakeups, ToldToEnd
  <2> QED
    BY <2>1, <2>2, <2>3 DEF NoLostWakeup
<1>2. Init => TypeOK /\ FlushInv /\ Handover /\ Wakeups
  BY InitType, InitFlush, InitHandover, InitWakeups
<1>3. TypeOK /\ FlushInv /\ Handover /\ Wakeups /\ [Next]_vars
        => (TypeOK /\ FlushInv /\ Handover /\ Wakeups)'
  BY StepType, StepFlush, StepHandover, StepWakeups
<1> QED
  BY <1>1, <1>2, <1>3, PTL DEF Spec

-------------------------------------------------------------------------------
(* The ledger: what each step does to the line, and which step of the ledger that is. *)

\* The line in three parts: what the save thread is saving, what is queued, and the
\* completed bucket the UI thread still has.
InSave    == IF saver = "save" THEN <<command.snapshot>> ELSE << >>
Queueing  == [i \in DOMAIN queue |-> queue[i].snapshot]
Completed == IF ui = "pushCompleted" THEN <<ui_snapshot>> ELSE << >>

LEMMA LineIs == Line = InSave \o Queueing \o Completed
  BY DEF Line, InSave, Queueing, Completed

LEMMA LineTypes ==
  ASSUME TypeOK
  PROVE  /\ InSave \in Seq(Snapshot)
         /\ Queueing \in Seq(Snapshot)
         /\ Completed \in Seq(Snapshot)
         /\ SnapshotLocked \in Snapshot
<1>1. queue \in Seq(SaveCommand)
  BY DEF TypeOK
<1>2. Len(queue) \in Nat /\ DOMAIN queue = 1 .. Len(queue)
      /\ \A i \in DOMAIN queue : queue[i] \in SaveCommand
  BY <1>1
<1>3. \A i \in DOMAIN queue : queue[i].snapshot \in Snapshot
  BY <1>2 DEF SaveCommand
<1>4. Queueing \in Seq(Snapshot)
  BY <1>2, <1>3 DEF Queueing
<1>5. InSave \in Seq(Snapshot) /\ Completed \in Seq(Snapshot)
  BY DEF InSave, Completed, TypeOK, SaveCommand
<1> QED
  BY <1>4, <1>5 DEF TypeOK, SnapshotLocked, Snapshot

\* The queued part, when a command is queued and when the save thread takes one.
LEMMA QueueingPush ==
  ASSUME TypeOK, NEW s \in Snapshot, NEW id, Push(s, id), command' = command
  PROVE  Queueing' = Append(Queueing, s) /\ InSave' = InSave
<1> DEFINE c == [snapshot |-> s, wait_id |-> id]
           n == Len(queue)
<1>1. queue \in Seq(SaveCommand) /\ queue' = Append(queue, c)
  BY DEF TypeOK, Push
<1>2. /\ n \in Nat /\ DOMAIN queue = 1 .. n /\ DOMAIN queue' = 1 .. (n + 1)
      /\ \A i \in 1 .. n : queue'[i] = queue[i]
      /\ queue'[n + 1] = c
  BY <1>1
<1>3. /\ DOMAIN Append(Queueing, s) = 1 .. (n + 1)
      /\ \A i \in 1 .. n : Append(Queueing, s)[i] = queue[i].snapshot
      /\ Append(Queueing, s)[n + 1] = s
      /\ Append(Queueing, s) \in Seq(Snapshot)
  <2>1. Queueing \in Seq(Snapshot) /\ Len(Queueing) = n
    BY <1>2, LineTypes DEF Queueing
  <2> QED
    BY <1>2, <2>1 DEF Queueing
<1>4. Queueing' = Append(Queueing, s)
  BY <1>2, <1>3 DEF Queueing
<1>5. InSave' = InSave
  BY DEF Push, InSave
<1> QED
  BY <1>4, <1>5

LEMMA QueueingPop ==
  ASSUME TypeOK, queue # << >>, queue' = Tail(queue)
  PROVE  /\ Head(queue).snapshot \in Snapshot
         /\ Queueing' \in Seq(Snapshot)
         /\ Queueing = <<Head(queue).snapshot>> \o Queueing'
<1> DEFINE n == Len(queue)
           h == Head(queue).snapshot
<1>1. queue \in Seq(SaveCommand)
  BY DEF TypeOK
<1>2. /\ n \in Nat \ {0} /\ DOMAIN queue = 1 .. n /\ DOMAIN queue' = 1 .. (n - 1)
      /\ \A i \in 1 .. (n - 1) : queue'[i] = queue[i + 1]
      /\ \A i \in 1 .. n : queue[i].snapshot \in Snapshot
      /\ Head(queue) = queue[1]
  <2>1. \A i \in 1 .. n : queue[i] \in SaveCommand
    BY <1>1
  <2> QED
    BY <1>1, <2>1 DEF SaveCommand
<1>3. h \in Snapshot /\ <<h>> \in Seq(Snapshot) /\ Len(<<h>>) = 1 /\ <<h>>[1] = h
  BY <1>2
<1>4. /\ Queueing' \in Seq(Snapshot) /\ Len(Queueing') = n - 1
      /\ \A i \in 1 .. (n - 1) : Queueing'[i] = queue[i + 1].snapshot
  <2>1. Queueing' = [i \in 1 .. (n - 1) |-> queue[i + 1].snapshot]
    BY <1>2 DEF Queueing
  <2>2. \A i \in 1 .. (n - 1) : queue[i + 1].snapshot \in Snapshot
    BY <1>2
  <2> QED
    BY <1>2, <2>1, <2>2
<1>5. Queueing \in Seq(Snapshot) /\ Len(Queueing) = n
      /\ \A i \in 1 .. n : Queueing[i] = queue[i].snapshot
  BY <1>2, LineTypes DEF Queueing
<1> HIDE DEF h
<1>6. /\ <<h>> \o Queueing' \in Seq(Snapshot)
      /\ Len(<<h>> \o Queueing') = n
      /\ \A i \in 1 .. n : (<<h>> \o Queueing')[i] = Queueing[i]
  <2>1. /\ <<h>> \o Queueing' \in Seq(Snapshot)
        /\ Len(<<h>> \o Queueing') = 1 + (n - 1)
        /\ \A i \in 1 .. (1 + (n - 1)) : (<<h>> \o Queueing')[i] =
               IF i <= 1 THEN <<h>>[i] ELSE Queueing'[i - 1]
    BY <1>3, <1>4, ConcatProperties
  <2>2. ASSUME NEW i \in 1 .. n
        PROVE  (<<h>> \o Queueing')[i] = Queueing[i]
    <3>1. CASE i = 1
      BY <1>2, <1>3, <1>5, <2>1, <3>1 DEF h
    <3>2. CASE i # 1
      <4>1. i - 1 \in 1 .. (n - 1) /\ (i - 1) + 1 = i
        BY <1>2, <3>2
      <4> QED
        BY <1>2, <1>4, <1>5, <2>1, <3>2, <4>1
    <3> QED
      BY <3>1, <3>2
  <2>3. 1 + (n - 1) = n
    BY <1>2
  <2>4. Len(<<h>> \o Queueing') = n
    BY <2>1, <2>3
  <2> QED
    BY <2>1, <2>2, <2>4
<1>7. Queueing = <<h>> \o Queueing'
  BY <1>2, <1>5, <1>6, SeqEqual
<1> QED
  BY <1>3, <1>4, <1>7 DEF h

-----------------------------------------------------------------------------
(* How the line changes. *)

\* A snapshot put in line by the UI thread, which holds no other.
LEMMA LineGrows ==
  ASSUME TypeOK, Completed = << >>, NEW s \in Snapshot,
         \/ /\ Queueing' = Append(Queueing, s) /\ InSave' = InSave /\ Completed' = << >>
         \/ /\ Queueing' = Queueing /\ InSave' = InSave /\ Completed' = <<s>>
  PROVE  Line' = Append(Line, s)
<1>1. InSave \in Seq(Snapshot) /\ Queueing \in Seq(Snapshot) /\ <<s>> \in Seq(Snapshot)
      /\ InSave \o Queueing \in Seq(Snapshot) /\ Append(Queueing, s) \in Seq(Snapshot)
  BY LineTypes, ConcatProperties
<1>2. Line = InSave \o Queueing
  BY <1>1, LineIs, ConcatEmptySeq
<1>3. Line' = InSave' \o Queueing' \o Completed'
  BY DEF Line, InSave, Queueing, Completed
<1>4. Append(Line, s) = (InSave \o Queueing) \o <<s>>
  BY <1>1, <1>2, AppendIsConcat
<1>5. CASE Queueing' = Append(Queueing, s) /\ InSave' = InSave /\ Completed' = << >>
  <2>1. Append(Queueing, s) = Queueing \o <<s>>
    BY <1>1, AppendIsConcat
  <2>2. InSave \o (Queueing \o <<s>>) = (InSave \o Queueing) \o <<s>>
    BY <1>1, ConcatAssociative
  <2>3. InSave \o Append(Queueing, s) \in Seq(Snapshot)
    BY <1>1, ConcatProperties
  <2>4. (InSave \o Append(Queueing, s)) \o << >> = InSave \o Append(Queueing, s)
    BY <2>3, ConcatEmptySeq
  <2> QED
    BY <1>3, <1>4, <1>5, <2>1, <2>2, <2>4
<1>6. CASE Queueing' = Queueing /\ InSave' = InSave /\ Completed' = <<s>>
  BY <1>3, <1>4, <1>6
<1> QED
  BY <1>5, <1>6

\* The completed bucket is queued: it stays where it is in line.
LEMMA LineCompletes ==
  ASSUME TypeOK, Completed = <<ui_snapshot>>, Queueing' = Append(Queueing, ui_snapshot),
         InSave' = InSave, Completed' = << >>
  PROVE  Line' = Line
<1>1. InSave \in Seq(Snapshot) /\ Queueing \in Seq(Snapshot) /\ ui_snapshot \in Snapshot
      /\ <<ui_snapshot>> \in Seq(Snapshot) /\ Append(Queueing, ui_snapshot) \in Seq(Snapshot)
  BY LineTypes DEF TypeOK
<1>2. Line' = InSave' \o Queueing' \o Completed'
  BY DEF Line, InSave, Queueing, Completed
<1>3. Append(Queueing, ui_snapshot) = Queueing \o <<ui_snapshot>>
  BY <1>1, AppendIsConcat
<1>4. InSave \o (Queueing \o <<ui_snapshot>>) = (InSave \o Queueing) \o <<ui_snapshot>>
  BY <1>1, ConcatAssociative
<1>5. InSave \o Append(Queueing, ui_snapshot) \in Seq(Snapshot)
  BY <1>1, ConcatProperties
<1>6. (InSave \o Append(Queueing, ui_snapshot)) \o << >> = InSave \o Append(Queueing, ui_snapshot)
  BY <1>5, ConcatEmptySeq
<1> QED
  BY <1>2, <1>3, <1>4, <1>6, LineIs

\* The save thread takes the first of the queue: it stays first in line.
LEMMA LinePops ==
  ASSUME TypeOK, InSave = << >>, NEW s \in Snapshot, Queueing' \in Seq(Snapshot),
         Queueing = <<s>> \o Queueing', InSave' = <<s>>, Completed' = Completed
  PROVE  Line' = Line
<1>1. Line' = InSave' \o Queueing' \o Completed'
  BY DEF Line, InSave, Queueing, Completed
<1>2. InSave \o Queueing = Queueing
  BY LineTypes, ConcatEmptySeq
<1> QED
  BY <1>1, <1>2, LineIs

\* What it saved or could not save has left the line, where it was first.
LEMMA LineMoves ==
  ASSUME TypeOK, saver = "save", InSave' = << >>, UNCHANGED <<Queueing, Completed>>
  PROVE  /\ Line # << >>
         /\ Head(Line) = command.snapshot
         /\ Line' = Tail(Line)
<1> DEFINE rest == Queueing \o Completed
           s == command.snapshot
<1>1. InSave = <<s>> /\ s \in Snapshot /\ Queueing \in Seq(Snapshot)
      /\ Completed \in Seq(Snapshot) /\ <<s>> \in Seq(Snapshot)
  BY LineTypes DEF InSave, TypeOK, SaveCommand
<1>2. rest \in Seq(Snapshot)
  BY <1>1, ConcatProperties
<1>3. Line' = InSave' \o Queueing' \o Completed'
  BY DEF Line, InSave, Queueing, Completed
<1>4. Line' = rest
  BY <1>1, <1>3, ConcatEmptySeq
<1>5. Line = <<s>> \o rest
  BY <1>1, LineIs, ConcatAssociative
<1> HIDE DEF rest, s
<1>6. /\ <<s>> \o rest \in Seq(Snapshot)
      /\ Len(<<s>> \o rest) = Len(rest) + 1 /\ Len(rest) \in Nat
      /\ (<<s>> \o rest)[1] = s
      /\ \A i \in 1 .. Len(rest) : (<<s>> \o rest)[i + 1] = rest[i]
  <2>1. /\ <<s>> \o rest \in Seq(Snapshot)
        /\ Len(<<s>> \o rest) = Len(<<s>>) + Len(rest)
        /\ \A i \in 1 .. Len(<<s>>) + Len(rest) : (<<s>> \o rest)[i] =
              IF i <= Len(<<s>>) THEN <<s>>[i] ELSE rest[i - Len(<<s>>)]
    BY <1>1, <1>2, ConcatProperties
  <2>2. Len(<<s>>) = 1 /\ <<s>>[1] = s /\ Len(rest) \in Nat
    BY <1>1, <1>2
  <2>3. 1 \in 1 .. 1 + Len(rest) /\ \A i \in 1 .. Len(rest) : i + 1 \in 1 .. 1 + Len(rest)
        /\ ~(i + 1 <= 1) /\ (i + 1) - 1 = i
    BY <2>2
  <2> QED
    BY <2>1, <2>2, <2>3
<1>7. Line # << >> /\ Head(Line) = s
  BY <1>5, <1>6
<1>8. Tail(Line) = rest
  <2>1. /\ Tail(Line) \in Seq(Snapshot) /\ Len(Tail(Line)) = Len(rest)
        /\ \A i \in 1 .. Len(rest) : Tail(Line)[i] = Line[i + 1]
    BY <1>5, <1>6, <1>7, HeadTailProperties
  <2>2. \A i \in 1 .. Len(Tail(Line)) : Tail(Line)[i] = rest[i]
    BY <1>5, <1>6, <2>1
  <2> QED
    BY <1>2, <2>1, <2>2, SeqEqual
<1> QED
  BY <1>4, <1>7, <1>8 DEF s

\* The timer's snapshot joins the queue: it is last in line, or last but the completed
\* bucket.
LEMMA LineTakesHeld ==
  ASSUME TypeOK, NEW s \in Snapshot, Queueing' = Append(Queueing, s), InSave' = InSave,
         Completed' = Completed
  PROVE  \E n \in {0, 1} :
           /\ n <= Len(Line)
           /\ LET at == Len(Line) - n
              IN  Line' = SubSeq(Line, 1, at) \o <<s>> \o SubSeq(Line, at + 1, Len(Line))
<1> DEFINE front == InSave \o Queueing
           n == Len(Completed)
           at == Len(front)
<1>1. InSave \in Seq(Snapshot) /\ Queueing \in Seq(Snapshot) /\ Completed \in Seq(Snapshot)
      /\ <<s>> \in Seq(Snapshot)
  BY LineTypes
<1>2. front \in Seq(Snapshot)
  BY <1>1, ConcatProperties
<1>3. Line = front \o Completed
  BY LineIs
<1>4. Line' = front \o <<s>> \o Completed
  <2>1. Line' = InSave' \o Queueing' \o Completed'
    BY DEF Line, InSave, Queueing, Completed
  <2>2. Append(Queueing, s) = Queueing \o <<s>>
    BY <1>1, AppendIsConcat
  <2>3. InSave \o (Queueing \o <<s>>) = (InSave \o Queueing) \o <<s>>
    BY <1>1, ConcatAssociative
  <2> QED
    BY <2>1, <2>2, <2>3
<1>5. n \in {0, 1} /\ at \in Nat
  BY <1>2 DEF Completed
<1> HIDE DEF front
<1>6. /\ Line \in Seq(Snapshot)
      /\ Len(Line) = at + n
      /\ \A i \in 1 .. at + n : Line[i] = IF i <= at THEN front[i] ELSE Completed[i - at]
  BY <1>1, <1>2, <1>3, ConcatProperties
<1>7. SubSeq(Line, 1, at) = front
  <2>1. \A i \in 1 .. at : Line[i] \in Snapshot
    BY <1>5, <1>6
  <2>2. /\ SubSeq(Line, 1, at) \in Seq(Snapshot)
        /\ Len(SubSeq(Line, 1, at)) = IF 1 <= at THEN at - 1 + 1 ELSE 0
        /\ \A i \in 1 .. at - 1 + 1 : SubSeq(Line, 1, at)[i] = Line[1 + i - 1]
    BY <1>5, <2>1, SubSeqProperties
  <2>3. Len(SubSeq(Line, 1, at)) = at
    BY <1>5, <2>2
  <2>4. \A i \in 1 .. at : SubSeq(Line, 1, at)[i] = front[i]
    <3> TAKE i \in 1 .. at
    <3>1. i \in 1 .. at - 1 + 1 /\ 1 + i - 1 = i /\ i \in 1 .. at + n /\ i <= at
      BY <1>5
    <3> QED
      BY <1>6, <2>2, <3>1
  <2> QED
    BY <1>2, <2>2, <2>3, <2>4, SeqEqual
<1>8. SubSeq(Line, at + 1, Len(Line)) = Completed
  <2>1. \A i \in at + 1 .. at + n : Line[i] \in Snapshot
    BY <1>5, <1>6
  <2>2. /\ SubSeq(Line, at + 1, at + n) \in Seq(Snapshot)
        /\ Len(SubSeq(Line, at + 1, at + n))
             = IF at + 1 <= at + n THEN (at + n) - (at + 1) + 1 ELSE 0
        /\ \A i \in 1 .. (at + n) - (at + 1) + 1 :
             SubSeq(Line, at + 1, at + n)[i] = Line[(at + 1) + i - 1]
    BY <1>5, <2>1, SubSeqProperties
  <2>3. Len(SubSeq(Line, at + 1, at + n)) = n
    BY <1>5, <2>2
  <2>4. \A i \in 1 .. n : SubSeq(Line, at + 1, at + n)[i] = Completed[i]
    <3> TAKE i \in 1 .. n
    <3>1. /\ i \in 1 .. (at + n) - (at + 1) + 1 /\ (at + 1) + i - 1 = at + i
          /\ at + i \in 1 .. at + n /\ ~(at + i <= at) /\ (at + i) - at = i
      BY <1>5
    <3> QED
      BY <1>6, <2>2, <3>1
  <2> QED
    BY <1>1, <1>6, <2>2, <2>3, <2>4, SeqEqual
<1>9. Len(Line) - n = at /\ n <= Len(Line)
  BY <1>5, <1>6
<1> QED
  BY <1>4, <1>5, <1>7, <1>8, <1>9

-----------------------------------------------------------------------------
\* The ledger's other variables are the recorder's own.
LEMMA LedgerVars ==
  ASSUME UNCHANGED <<now, rows, running, SnapshotLocked, Line>>,
         timer' = "push" <=> timer = "push",
         timer = "push" => timer_snapshot' = timer_snapshot
  PROVE  UNCHANGED Ledger!ledger
  BY DEF Ledger!ledger

LEMMA NoneHeld == NoSnapshot = Ledger!None /\ EmptySnapshot = Ledger!Empty
  BY DEF NoSnapshot, Ledger!None, EmptySnapshot, Ledger!Empty, ZeroCounts, Ledger!ZeroCounts

\* A snapshot of the program is never the mark of an idle timer.
LEMMA SnapshotIsHeld ==
  ASSUME NEW s \in Snapshot
  PROVE  s # NoSnapshot
<1>1. s.minute \in 0 .. MaxMinute /\ MaxMinute \in Nat
  BY RecorderAssumption DEF Snapshot, Minutes
<1> QED
  BY <1>1 DEF NoSnapshot

\* Steps that leave the line as it is.
LEMMA LineStays ==
  ASSUME UNCHANGED queue, InSave' = InSave, Completed' = Completed
  PROVE  Line' = Line
  BY DEF Line, InSave, Completed

\* The beginning.
LEMMA InitLedger == Init => Ledger!LedgerInit
<1> SUFFICES ASSUME Init
             PROVE  Ledger!LedgerInit
  OBVIOUS
<1>1. Line = << >>
  <2>1. InSave = << >> /\ Completed = << >> /\ queue = << >>
    BY DEF Init, InSave, Completed
  <2>2. Queueing = << >>
    BY <2>1 DEF Queueing
  <2> QED
    BY <2>1, <2>2, LineIs
<1>2. /\ SnapshotLocked = EmptySnapshot
      /\ (IF timer = "push" THEN timer_snapshot ELSE NoSnapshot) = NoSnapshot
  BY DEF Init, SnapshotLocked, EmptySnapshot
<1> QED
  BY <1>1, <1>2, NoneHeld
  DEF Init, Ledger!LedgerInit, Minutes, Ledger!Minutes, ZeroCounts, Ledger!ZeroCounts

\* A press.
LEMMA PressLedger ==
  ASSUME TypeOK, NEW k \in Keys, RecordKeyPress(k)
  PROVE  Ledger!Press(k)
<1> USE DEF bucket, timerVars, saverVars
<1>1. /\ running /\ running' = running /\ ui = "idle"
      /\ UNCHANGED <<now, rows, queue, timer, timer_snapshot, saver, command>>
  BY DEF RecordKeyPress, world
<1>2. SnapshotLocked' = Ledger!Pressed(k)
  <2>1. current_minute_start' = now /\ current_counts' = Counted(k)
    BY DEF RecordKeyPress
  <2> QED
    BY <2>1 DEF SnapshotLocked, Counted, Increment, Ledger!Pressed, ZeroCounts, Ledger!ZeroCounts
<1>3. Line' = IF now # SnapshotLocked.minute /\ Ledger!HasInput(SnapshotLocked)
              THEN Append(Line, SnapshotLocked) ELSE Line
  <2>1. Queueing' = Queueing /\ InSave' = InSave /\ Completed = << >>
    BY <1>1 DEF Queueing, InSave, Completed
  <2>2. CASE now # current_minute_start /\ HasInput(SnapshotLocked)
    <3>1. Completed' = <<SnapshotLocked>>
      BY <2>2 DEF RecordKeyPress, Completed
    <3>2. Line' = Append(Line, SnapshotLocked)
      BY <2>1, <3>1, LineGrows, LineTypes
    <3> QED
      BY <2>2, <3>2 DEF SnapshotLocked, HasInput, Ledger!HasInput
  <2>3. CASE ~(now # current_minute_start /\ HasInput(SnapshotLocked))
    <3>1. Completed' = Completed
      BY <1>1, <2>3 DEF RecordKeyPress, Completed
    <3>2. Line' = Line
      BY <1>1, <2>1, <3>1, LineStays
    <3> QED
      BY <2>3, <3>2 DEF SnapshotLocked, HasInput, Ledger!HasInput
  <2> QED
    BY <2>2, <2>3
<1> QED
  BY <1>1, <1>2, <1>3 DEF Ledger!Press

\* Both ends of a recorder.
LEMMA CreateLedger ==
  ASSUME TypeOK, Handover, Create
  PROVE  Ledger!Open
<1> USE DEF uiVars
<1>1. /\ ~running /\ running' /\ saver' = "check" /\ timer' = "check"
      /\ saver = "done" /\ timer = "done" /\ ui = "idle"
      /\ UNCHANGED <<now, rows, queue, ui, ui_snapshot>>
  BY DEF Create, Handover, Gone, world
<1>2. SnapshotLocked' = [minute |-> now, counts |-> rows[now]]
  BY DEF Create, Resume, SnapshotLocked
<1>3. Line' = Line
  BY <1>1, LineStays DEF InSave, Completed
<1> QED
  BY <1>1, <1>2, <1>3 DEF Ledger!Open

LEMMA DownLedger ==
  ASSUME running, Down, UNCHANGED <<now, rows>>
  PROVE  Ledger!Close
<1>1. SnapshotLocked' = EmptySnapshot /\ timer' = "done" /\ ~running'
  BY DEF Down, SnapshotLocked, EmptySnapshot
<1>2. Line' = << >>
  <2>1. InSave' = << >> /\ Completed' = << >> /\ queue' = << >>
    BY DEF Down, InSave, Completed
  <2>2. Queueing' = << >>
    BY <2>1 DEF Queueing
  <2>3. Line' = InSave' \o Queueing' \o Completed'
    BY DEF Line, InSave, Queueing, Completed
  <2> QED
    BY <2>1, <2>2, <2>3
<1> QED
  BY <1>1, <1>2, NoneHeld DEF Ledger!Close, Down

\* A flush.
LEMMA FlushLedger ==
  ASSUME TypeOK, Handover, FlushPush
  PROVE  Ledger!Flush
<1> USE DEF bucket, timerVars
<1>1. /\ ui = "flushPush" /\ ui' = "flushWait" /\ running
      /\ ui_snapshot = SnapshotLocked /\ HasInput(SnapshotLocked)
      /\ UNCHANGED <<now, rows, running, SnapshotLocked, timer, timer_snapshot, command>>
      /\ Push(ui_snapshot, next_wait_id)
  BY DEF FlushPush, Handover, Gone, FlushesLive, world, SnapshotLocked
<1>2. Line' = Append(Line, SnapshotLocked)
  <2>1. Queueing' = Append(Queueing, SnapshotLocked) /\ InSave' = InSave
    BY <1>1, QueueingPush, LineTypes
  <2>2. Completed = << >> /\ Completed' = << >>
    BY <1>1 DEF Completed
  <2> QED
    BY <2>1, <2>2, LineGrows, LineTypes
<1> QED
  BY <1>1, <1>2 DEF Ledger!Flush, HasInput, Ledger!HasInput

\* The timer takes its snapshot under one lock ...
LEMMA TakeLedger ==
  ASSUME TypeOK, Handover, TimerSnapshot, HasInput(SnapshotLocked)
  PROVE  Ledger!Take
<1>1. /\ running /\ timer = "sleep" /\ timer' = "push" /\ timer_snapshot' = SnapshotLocked
      /\ UNCHANGED <<now, rows, running, queue, ui, ui_snapshot, saver, command>>
      /\ UNCHANGED bucket
  BY DEF TimerSnapshot, Handover, Gone, world, uiVars, saverVars
<1>2. Line' = Line /\ SnapshotLocked' = SnapshotLocked
  BY <1>1, LineStays DEF InSave, Completed, SnapshotLocked, bucket
<1> QED
  BY <1>1, <1>2, NoneHeld DEF Ledger!Take, HasInput, Ledger!HasInput

\* ... and queues it under another.
LEMMA PutLedger ==
  ASSUME TypeOK, TimerPush
  PROVE  Ledger!Put
<1>1. /\ timer = "push" /\ timer' = "check" /\ Push(timer_snapshot, 0)
      /\ timer_snapshot \in Snapshot
      /\ UNCHANGED <<now, rows, running, ui, ui_snapshot, command>>
      /\ UNCHANGED bucket
  BY DEF TimerPush, TypeOK, world, uiVars
<1>2. Queueing' = Append(Queueing, timer_snapshot) /\ InSave' = InSave
      /\ Completed' = Completed /\ SnapshotLocked' = SnapshotLocked
  BY <1>1, QueueingPush DEF Completed, SnapshotLocked, bucket
<1>3. timer_snapshot # NoSnapshot
  BY <1>1, SnapshotIsHeld
<1>4. \E n \in {0, 1} :
        /\ n <= Len(Line)
        /\ LET at == Len(Line) - n
           IN  Line' = SubSeq(Line, 1, at) \o <<timer_snapshot>>
                         \o SubSeq(Line, at + 1, Len(Line))
  BY <1>1, <1>2, LineTakesHeld
<1> QED
  BY <1>1, <1>2, <1>3, <1>4, NoneHeld DEF Ledger!Put

\* The save thread.
LEMMA SaveLedger ==
  ASSUME TypeOK, SaverCommit \/ SaverFail
  PROVE  Ledger!Save \/ Ledger!Refuse
<1>1. /\ saver = "save" /\ saver' \in {"saved", "failed"}
      /\ UNCHANGED <<now, running, queue, ui, ui_snapshot, timer, timer_snapshot>>
      /\ UNCHANGED bucket
  BY DEF SaverCommit, SaverFail, world, uiVars, timerVars
<1>2. InSave' = << >> /\ UNCHANGED <<Queueing, Completed>> /\ SnapshotLocked' = SnapshotLocked
  BY <1>1 DEF InSave, Queueing, Completed, SnapshotLocked, bucket
<1>3. Line # << >> /\ Head(Line) = command.snapshot /\ Line' = Tail(Line)
  BY <1>1, <1>2, LineMoves
<1>4. CASE SaverCommit
  BY <1>1, <1>2, <1>3, <1>4 DEF SaverCommit, Ledger!Save
<1>5. CASE SaverFail
  BY <1>1, <1>2, <1>3, <1>5 DEF SaverFail, Ledger!Refuse
<1> QED
  BY <1>4, <1>5

\* The save thread takes a command: the line does not notice.
LEMMA PopLedger ==
  ASSUME TypeOK, SaverPop
  PROVE  UNCHANGED Ledger!ledger
<1>1. /\ saver = "check" /\ saver' = "save" /\ queue # << >> /\ queue' = Tail(queue)
      /\ command' = Head(queue)
      /\ UNCHANGED <<now, rows, running, ui, ui_snapshot, timer, timer_snapshot>>
      /\ UNCHANGED bucket
  BY DEF SaverPop, world, uiVars, timerVars
<1>2. /\ InSave = << >> /\ InSave' = <<Head(queue).snapshot>>
      /\ Completed' = Completed /\ SnapshotLocked' = SnapshotLocked
  BY <1>1 DEF InSave, Completed, SnapshotLocked, bucket
<1>3. Line' = Line
  BY <1>1, <1>2, QueueingPop, LinePops
<1> QED
  BY <1>1, <1>2, <1>3, LedgerVars

\* Nor when the completed bucket is queued.
LEMMA PushCompletedLedger ==
  ASSUME TypeOK, PushCompleted
  PROVE  UNCHANGED Ledger!ledger
<1>1. /\ ui = "pushCompleted" /\ ui' = "idle" /\ Push(ui_snapshot, 0)
      /\ ui_snapshot \in Snapshot
      /\ UNCHANGED <<now, rows, running, command, timer, timer_snapshot>>
      /\ UNCHANGED bucket
  BY DEF PushCompleted, TypeOK, world, timerVars
<1>2. /\ Queueing' = Append(Queueing, ui_snapshot) /\ InSave' = InSave
      /\ Completed = <<ui_snapshot>> /\ Completed' = << >>
      /\ SnapshotLocked' = SnapshotLocked
  BY <1>1, QueueingPush DEF Completed, SnapshotLocked, bucket
<1>3. Line' = Line
  BY <1>2, LineCompletes
<1> QED
  BY <1>1, <1>2, <1>3, LedgerVars

\* Every step is one of the ledger, or none.
LEMMA StepLedger ==
  TypeOK /\ Handover /\ [Next]_vars => [Ledger!LedgerNext]_(Ledger!ledger)
<1> SUFFICES ASSUME TypeOK, Handover, [Next]_vars
             PROVE  Ledger!LedgerNext \/ UNCHANGED Ledger!ledger
  OBVIOUS
<1>1. CASE Create
  BY <1>1, CreateLedger DEF Ledger!LedgerNext
<1>2. ASSUME NEW k \in Keys, RecordKeyPress(k)
      PROVE  Ledger!LedgerNext
  BY <1>2, PressLedger DEF Ledger!LedgerNext
<1>3. CASE PushCompleted
  BY <1>3, PushCompletedLedger
<1>4. CASE FlushPush
  BY <1>4, FlushLedger DEF Ledger!LedgerNext
<1>5. CASE Join
  <2>1. running
    BY <1>5 DEF Join, Handover, Gone
  <2>2. Down /\ UNCHANGED <<now, rows>>
    BY <1>5 DEF Join, world
  <2> QED
    BY <2>1, <2>2, DownLedger DEF Ledger!LedgerNext
<1>6. CASE Crash
  BY <1>6, DownLedger DEF Crash, Ledger!LedgerNext
<1>7. CASE TimerSnapshot /\ HasInput(SnapshotLocked)
  BY <1>7, TakeLedger DEF Ledger!LedgerNext
<1>8. CASE TimerPush
  BY <1>8, PutLedger DEF Ledger!LedgerNext
<1>9. CASE SaverPop
  BY <1>9, PopLedger
<1>10. CASE SaverCommit \/ SaverFail
  BY <1>10, SaveLedger DEF Ledger!LedgerNext
<1>11. CASE ClockForward \/ ClockBack
  <2>1. /\ now' \in {now - 1, now + 1} \cap Minutes
        /\ UNCHANGED <<rows, running, queue, ui, ui_snapshot, timer, timer_snapshot,
                       saver, command>>
        /\ UNCHANGED bucket
    <3>1. now \in Minutes /\ MaxMinute \in Nat
      BY RecorderAssumption DEF TypeOK
    <3> QED
      BY <1>11, <3>1 DEF ClockForward, ClockBack, Minutes, uiVars, timerVars, saverVars
  <2>2. Line' = Line /\ SnapshotLocked' = SnapshotLocked
    BY <2>1, LineStays DEF InSave, Completed, SnapshotLocked, bucket
  <2> QED
    BY <2>1, <2>2 DEF Ledger!LedgerNext, Ledger!Tick, Minutes, Ledger!Minutes
<1>12. CASE \/ FlushNow \/ FlushSleep \/ FlushReturn \/ Dispose \/ DisposeSnapshot
            \/ StopQueue \/ TimerCheck \/ TimerSlice
            \/ TimerSnapshot /\ ~HasInput(SnapshotLocked)
            \/ SaverSleep \/ SaverExit \/ SaverAck \/ SaverReport \/ UNCHANGED vars
  <2> USE <1>12 DEF FlushNow, FlushSleep, FlushReturn, Dispose, DisposeSnapshot, StopQueue,
        TimerCheck, TimerSlice, TimerSnapshot, SaverSleep, SaverExit, SaverAck, SaverReport,
        Complete, vars, world, uiVars, timerVars, saverVars, bucket
  <2>1. UNCHANGED <<now, rows, running, queue>> /\ SnapshotLocked' = SnapshotLocked
    BY DEF SnapshotLocked
  <2>2. InSave' = InSave
    BY DEF InSave
  <2>3. Completed' = Completed
    BY DEF Completed
  <2>4. (timer' = "push" <=> timer = "push") /\ (timer = "push" => timer_snapshot' = timer_snapshot)
    OBVIOUS
  <2> HIDE <1>12
  <2>5. Line' = Line
    BY <2>1, <2>2, <2>3, LineStays
  <2> QED
    BY <2>1, <2>4, <2>5, LedgerVars
<1> QED
  BY <1>1, <1>2, <1>3, <1>4, <1>5, <1>6, <1>7, <1>8, <1>9, <1>10, <1>11, <1>12
  DEF Next, UiStep, TimerStep, SaverStep

\* Three threads, two locks, a condition variable and wait ids do nothing that the
\* ledger -- one line of snapshots, the rows they replace -- does not allow.
THEOREM RecorderImplementsLedger == Spec => ImplementsLedger
<1>1. Init => TypeOK /\ FlushInv /\ Handover
  BY InitType, InitFlush, InitHandover
<1>2. TypeOK /\ FlushInv /\ Handover /\ [Next]_vars => (TypeOK /\ FlushInv /\ Handover)'
  BY StepType, StepFlush, StepHandover
<1> QED
  BY <1>1, <1>2, InitLedger, StepLedger, PTL DEF Spec, ImplementsLedger, Ledger!LedgerSpec
===============================================================================
