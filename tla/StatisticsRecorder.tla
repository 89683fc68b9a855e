------------------------- MODULE StatisticsRecorder -------------------------
(***************************************************************************)
(* StatisticsRecorder (src/storage/statistics_recorder.cpp): the live      *)
(* minute bucket, the queue of save commands and the three threads that    *)
(* share them -- the UI thread (which records presses, flushes, and        *)
(* destroys the recorder), the timer thread and the save thread.           *)
(*                                                                         *)
(* A step is what a thread does under one lock, or between two of them.    *)
(* Time is counted in whole minutes: `now' is the value of                 *)
(* ToMinuteStartUnix(ToUnixSeconds(clock_.UtcNow())).  The minute_buckets  *)
(* table is `rows'; a missing row reads as ZeroCounts, which is what       *)
(* GetMinuteBucket(...).value_or(...) makes of it, and no command with an  *)
(* all-zero snapshot is ever queued.                                       *)
(***************************************************************************)
EXTENDS Naturals, Sequences

CONSTANTS
  Keys,          \* the KeyIds in play
  MaxCount,      \* UINT32_MAX, where a counter saturates
  FlushSlices,   \* flush_interval_ in slices of the timer thread's sleep
  \* The bounds of a run:
  MaxMinute,     \* the last minute the clock reaches
  MaxPresses,    \* by minute: presses of one key in it
  MaxWaitId,     \* explicit flushes by one recorder
  MaxQueue,      \* the timer postpones its flush while the queue is this long
  MaxFailures,   \* saves the database refuses
  MaxBackSteps,  \* times the system clock is set back
  MaxCrashes     \* times the process is killed

ASSUME RecorderAssumption ==
  /\ MaxCount \in Nat \ {0}
  /\ FlushSlices \in Nat \ {0}
  /\ {MaxMinute, MaxWaitId, MaxQueue, MaxFailures, MaxBackSteps,
      MaxCrashes} \subseteq Nat
  /\ MaxPresses \in [0 .. MaxMinute -> Nat]

VARIABLES
  \* The world: the clock and the database file.
  now, rows,
  \* A StatisticsRecorder object exists.
  running,
  \* Under bucket_gate_.
  current_minute_start, current_counts,
  \* Under queue_gate_.
  queue, next_wait_id, completed_wait_id, wait_failed,
  stop_timer, stop_queue, has_saved, last_error,
  \* The threads: control state and locals.
  disposed, ui, ui_snapshot, ui_wait_id,
  timer, timer_snapshot, elapsed,
  saver, command,
  \* History.
  pressed,     \* every press RecordKeyPress accepted, per minute and key
  exposed,     \* minutes hit by one of the four ways a press can be lost
  saved_id,    \* wait_id of the last waited-for command that was committed
  failures, back_steps, crashes

bucket     == <<current_minute_start, current_counts>>
waits      == <<next_wait_id, completed_wait_id, wait_failed>>
stops      == <<stop_timer, stop_queue>>
status     == <<has_saved, last_error>>
uiVars     == <<disposed, ui, ui_snapshot, ui_wait_id>>
timerVars  == <<timer, timer_snapshot, elapsed>>
saverVars  == <<saver, command>>
world      == <<now, back_steps, crashes>>
history    == <<pressed, exposed>>

vars == <<world, rows, running, bucket, queue, waits, stops, status,
          uiVars, timerVars, saverVars, history, saved_id, failures>>

-----------------------------------------------------------------------------
Minutes    == 0 .. MaxMinute
CountVector == [Keys -> 0 .. MaxCount]
ZeroCounts == [k \in Keys |-> 0]

\* MinuteBucketSnapshot, and the default-constructed one.
Snapshot      == [minute : Minutes, counts : CountVector]
EmptySnapshot == [minute |-> 0, counts |-> ZeroCounts]

\* SaveCommand; wait_id is 0 when nobody waits for it.
SaveCommand  == [snapshot : Snapshot, wait_id : Nat]
EmptyCommand == [snapshot |-> EmptySnapshot, wait_id |-> 0]

\* snapshot.TotalCount() > 0: the counts are unsigned, so some key is non-zero.
HasInput(s) == \E k \in Keys : s.counts[k] > 0

SnapshotLocked == [minute |-> current_minute_start, counts |-> current_counts]

\* Mutant: the counter is not capped.
IncrementUncapped(c, k) == [c EXCEPT ![k] = @ + 1]

\* ++count, unless it would pass UINT32_MAX.
Increment(c, k) == [c EXCEPT ![k] = IF @ < MaxCount THEN @ + 1 ELSE @]

\* Mutant: a press in a new minute does not reset the counts.
CarryOver(k) == Increment(current_counts, k)

\* RecordKeyPress: the counts of the live bucket after a press of k.  In a new
\* minute -- one entered a second time, too -- they start from zero.
Counted(k) ==
  Increment(IF now # current_minute_start THEN ZeroCounts ELSE current_counts, k)

\* Mutant: the row of a minute already begun is ignored.
ResumeEmpty(m) == ZeroCounts

\* Create: the counts to start from.
Resume(m) == rows[m]

\* Mutant: notify_one is forgotten.
PushUnnotified(s, id) ==
  /\ queue' = Append(queue, [snapshot |-> s, wait_id |-> id])
  /\ UNCHANGED saver

\* queue_.push and queue_cv_.notify_one: the save thread, if it sleeps, wakes.
Push(s, id) ==
  /\ queue' = Append(queue, [snapshot |-> s, wait_id |-> id])
  /\ saver' = IF saver = "asleep" THEN "check" ELSE saver

-----------------------------------------------------------------------------
(***************************************************************************)
(* Where the newest count of minute m is kept.  The UI thread still holds  *)
(* it while the bucket is live or a completed bucket is about to be        *)
(* queued; then it is the last queued command, then the one being saved,   *)
(* then the row.  A command queued after the save thread has left is in    *)
(* no place at all.                                                        *)
(***************************************************************************)
Live(m) ==
  /\ running
  /\ current_minute_start = m
  /\ disposed => ui \in {"disposeSnapshot", "flushPush"}

Completing(m) == ui = "pushCompleted" /\ ui_snapshot.minute = m

Pending(m) ==
  {i \in DOMAIN queue : saver # "done" /\ queue[i].snapshot.minute = m}

Saving(m) == saver = "save" /\ command.snapshot.minute = m

LastPending(m) ==
  CHOOSE i \in Pending(m) : \A j \in Pending(m) : j <= i

Newest(m) ==
  CASE Live(m)           -> current_counts
    [] Completing(m)     -> ui_snapshot.counts
    [] ~Live(m) /\ ~Completing(m) /\ Pending(m) # {}
                         -> queue[LastPending(m)].snapshot.counts
    [] ~Live(m) /\ ~Completing(m) /\ Pending(m) = {} /\ Saving(m)
                         -> command.snapshot.counts
    [] OTHER             -> rows[m]

-----------------------------------------------------------------------------
\* No recorder object: every member and every thread's locals are gone.
Down ==
  /\ running' = FALSE
  /\ current_minute_start' = 0
  /\ current_counts' = ZeroCounts
  /\ queue' = << >>
  /\ next_wait_id' = 1
  /\ completed_wait_id' = 0
  /\ wait_failed' = FALSE
  /\ stop_timer' = FALSE
  /\ stop_queue' = FALSE
  /\ has_saved' = FALSE
  /\ last_error' = FALSE
  /\ disposed' = FALSE
  /\ ui' = "idle"
  /\ ui_snapshot' = EmptySnapshot
  /\ ui_wait_id' = 0
  /\ timer' = "done"
  /\ timer_snapshot' = EmptySnapshot
  /\ elapsed' = 0
  /\ saver' = "done"
  /\ command' = EmptyCommand
  /\ saved_id' = 0

Init ==
  /\ now = 0
  /\ rows = [m \in Minutes |-> ZeroCounts]
  /\ running = FALSE
  /\ current_minute_start = 0
  /\ current_counts = ZeroCounts
  /\ queue = << >>
  /\ next_wait_id = 1
  /\ completed_wait_id = 0
  /\ wait_failed = FALSE
  /\ stop_timer = FALSE
  /\ stop_queue = FALSE
  /\ has_saved = FALSE
  /\ last_error = FALSE
  /\ disposed = FALSE
  /\ ui = "idle"
  /\ ui_snapshot = EmptySnapshot
  /\ ui_wait_id = 0
  /\ timer = "done"
  /\ timer_snapshot = EmptySnapshot
  /\ elapsed = 0
  /\ saver = "done"
  /\ command = EmptyCommand
  /\ pressed = [m \in Minutes |-> [k \in Keys |-> 0]]
  /\ exposed = {}
  /\ saved_id = 0
  /\ failures = 0
  /\ back_steps = 0
  /\ crashes = 0

-----------------------------------------------------------------------------
\* The UI thread.

\* StatisticsRecorder::Create: resume the current minute from its row, then
\* start the save thread and the timer thread.
Create ==
  /\ ~running
  /\ running' = TRUE
  /\ current_minute_start' = now
  /\ current_counts' = Resume(now)
  /\ timer' = "check"
  /\ saver' = "check"
  /\ UNCHANGED <<world, rows, queue, waits, stops, status, uiVars,
                 timer_snapshot, elapsed, command, history, saved_id, failures>>

\* RecordKeyPress, the part under bucket_gate_.
RecordKeyPress(k) ==
  /\ running
  /\ ui = "idle"
  /\ ~disposed
  /\ pressed[now][k] < MaxPresses[now]
  /\ LET rolled == now # current_minute_start
     IN  /\ current_minute_start' = now
         /\ current_counts' = Counted(k)
         /\ IF rolled /\ HasInput(SnapshotLocked)
            THEN ui' = "pushCompleted" /\ ui_snapshot' = SnapshotLocked
            ELSE UNCHANGED <<ui, ui_snapshot>>
         /\ exposed' = IF rolled /\ \E j \in Keys : pressed[now][j] > 0
                       THEN exposed \cup {now}
                       ELSE exposed
  /\ pressed' = [pressed EXCEPT ![now][k] = @ + 1]
  /\ UNCHANGED <<world, rows, running, queue, waits, stops, status,
                 disposed, ui_wait_id, timerVars, saverVars, saved_id, failures>>

\* RecordKeyPress, the part under queue_gate_.
PushCompleted ==
  /\ ui = "pushCompleted"
  /\ Push(ui_snapshot, 0)
  /\ ui' = "idle"
  /\ ui_snapshot' = EmptySnapshot
  /\ UNCHANGED <<world, rows, running, bucket, waits, stops, status, disposed,
                 ui_wait_id, timerVars, command, history, saved_id, failures>>

\* FlushNow = QueueCurrentAndWait(false): an empty bucket returns at once.
FlushNow ==
  /\ running
  /\ ui = "idle"
  /\ ~disposed
  /\ next_wait_id <= MaxWaitId
  /\ HasInput(SnapshotLocked)
  /\ ui' = "flushPush"
  /\ ui_snapshot' = SnapshotLocked
  /\ UNCHANGED <<world, rows, running, bucket, queue, waits, stops, status,
                 disposed, ui_wait_id, timerVars, saverVars, history, saved_id,
                 failures>>

\* QueueCurrentAndWait: take a wait id and queue the snapshot.
FlushPush ==
  /\ ui = "flushPush"
  /\ ui_wait_id' = next_wait_id
  /\ next_wait_id' = next_wait_id + 1
  /\ wait_failed' = FALSE
  /\ Push(ui_snapshot, next_wait_id)
  /\ ui' = "flushWait"
  /\ UNCHANGED <<world, rows, running, bucket, completed_wait_id, stops, status,
                 disposed, ui_snapshot, timerVars, command, history, saved_id,
                 failures>>

\* Mutant: the wait predicate compares with > instead of >=.
FlushDoneLate == completed_wait_id > ui_wait_id \/ stop_queue

FlushDone == completed_wait_id >= ui_wait_id \/ stop_queue

\* wait_cv_.wait, predicate false.
FlushSleep ==
  /\ ui = "flushWait"
  /\ ~FlushDone
  /\ ui' = "flushAsleep"
  /\ UNCHANGED <<world, rows, running, bucket, queue, waits, stops, status,
                 disposed, ui_snapshot, ui_wait_id, timerVars, saverVars,
                 history, saved_id, failures>>

\* wait_cv_.wait, predicate true.  wait_failed_ becomes an exception, which
\* the destructor swallows and SaveNow reports.
FlushReturn ==
  /\ ui = "flushWait"
  /\ FlushDone
  /\ ui' = IF disposed THEN "stopQueue" ELSE "idle"
  /\ ui_snapshot' = EmptySnapshot
  /\ ui_wait_id' = 0
  /\ UNCHANGED <<world, rows, running, bucket, queue, waits, stops, status,
                 disposed, timerVars, saverVars, history, saved_id, failures>>

\* ~StatisticsRecorder: no more presses, the timer is told to stop ...
Dispose ==
  /\ running
  /\ ui = "idle"
  /\ ~disposed
  /\ disposed' = TRUE
  /\ stop_timer' = TRUE
  /\ ui' = "disposeSnapshot"
  /\ UNCHANGED <<world, rows, running, bucket, queue, waits, stop_queue, status,
                 ui_snapshot, ui_wait_id, timerVars, saverVars, history,
                 saved_id, failures>>

\* ... the live bucket is flushed (QueueCurrentAndWait(true)) ...
DisposeSnapshot ==
  /\ ui = "disposeSnapshot"
  /\ IF HasInput(SnapshotLocked)
     THEN ui' = "flushPush" /\ ui_snapshot' = SnapshotLocked
     ELSE ui' = "stopQueue" /\ UNCHANGED ui_snapshot
  /\ UNCHANGED <<world, rows, running, bucket, queue, waits, stops, status,
                 disposed, ui_wait_id, timerVars, saverVars, history, saved_id,
                 failures>>

\* ... the save thread is told to stop (queue_cv_.notify_all) ...
StopQueue ==
  /\ ui = "stopQueue"
  /\ stop_queue' = TRUE
  /\ saver' = IF saver = "asleep" THEN "check" ELSE saver
  /\ ui' = "join"
  /\ UNCHANGED <<world, rows, running, bucket, queue, waits, stop_timer, status,
                 disposed, ui_snapshot, ui_wait_id, timerVars, command, history,
                 saved_id, failures>>

\* ... and both threads are joined.  What is still queued is destroyed.
Join ==
  /\ ui = "join"
  /\ timer = "done"
  /\ saver = "done"
  /\ Down
  /\ UNCHANGED <<world, rows, history, failures>>

-----------------------------------------------------------------------------
\* The timer thread (PeriodicFlush).

\* The loop head: leave if stop_timer_.
TimerCheck ==
  /\ timer = "check"
  /\ timer' = IF stop_timer THEN "done" ELSE "sleep"
  /\ UNCHANGED <<world, rows, running, bucket, queue, waits, stops, status,
                 uiVars, timer_snapshot, elapsed, saverVars, history, saved_id,
                 failures>>

\* A slice passes and flush_interval_ has not elapsed (or, a bound of the
\* model, the queue is long: the flush is postponed).
TimerSlice ==
  /\ timer = "sleep"
  /\ elapsed + 1 < FlushSlices \/ Len(queue) >= MaxQueue
  /\ elapsed' = IF elapsed + 1 < FlushSlices THEN elapsed + 1 ELSE elapsed
  /\ timer' = "check"
  /\ UNCHANGED <<world, rows, running, bucket, queue, waits, stops, status,
                 uiVars, timer_snapshot, saverVars, history, saved_id, failures>>

\* flush_interval_ has elapsed: snapshot the bucket under bucket_gate_ ...
TimerSnapshot ==
  /\ timer = "sleep"
  /\ elapsed + 1 >= FlushSlices
  /\ Len(queue) < MaxQueue
  /\ elapsed' = 0
  /\ IF HasInput(SnapshotLocked)
     THEN timer' = "push" /\ timer_snapshot' = SnapshotLocked
     ELSE timer' = "check" /\ UNCHANGED timer_snapshot
  /\ UNCHANGED <<world, rows, running, bucket, queue, waits, stops, status,
                 uiVars, saverVars, history, saved_id, failures>>

\* ... and, having released it, queue the snapshot under queue_gate_.  If a
\* newer one of the same minute left the UI thread in between, it is overtaken.
TimerPush ==
  LET m == timer_snapshot.minute IN
  /\ timer = "push"
  /\ Push(timer_snapshot, 0)
  /\ timer' = "check"
  /\ timer_snapshot' = EmptySnapshot
  /\ exposed' = IF /\ saver # "done"
                   /\ ~Live(m) /\ ~Completing(m)
                   /\ timer_snapshot.counts # Newest(m)
                THEN exposed \cup {m}
                ELSE exposed
  /\ UNCHANGED <<world, rows, running, bucket, waits, stops, status, uiVars,
                 elapsed, command, pressed, saved_id, failures>>

-----------------------------------------------------------------------------
\* The save thread (ProcessQueue).

SaverPop ==
  /\ saver = "check"
  /\ queue # << >>
  /\ command' = Head(queue)
  /\ queue' = Tail(queue)
  /\ saver' = "save"
  /\ UNCHANGED <<world, rows, running, bucket, waits, stops, status, uiVars,
                 timerVars, history, saved_id, failures>>

\* queue_cv_.wait, predicate false.
SaverSleep ==
  /\ saver = "check"
  /\ queue = << >>
  /\ ~stop_queue
  /\ saver' = "asleep"
  /\ UNCHANGED <<world, rows, running, bucket, queue, waits, stops, status,
                 uiVars, timerVars, command, history, saved_id, failures>>

SaverExit ==
  /\ saver = "check"
  /\ queue = << >>
  /\ stop_queue
  /\ saver' = "done"
  /\ UNCHANGED <<world, rows, running, bucket, queue, waits, stops, status,
                 uiVars, timerVars, command, history, saved_id, failures>>

\* repository_.UpsertMinuteBucket commits: the row becomes the snapshot.
SaverCommit ==
  /\ saver = "save"
  /\ rows' = [rows EXCEPT ![command.snapshot.minute] = command.snapshot.counts]
  /\ saved_id' = IF command.wait_id # 0 THEN command.wait_id ELSE saved_id
  /\ saver' = "saved"
  /\ UNCHANGED <<world, running, bucket, queue, waits, stops, status, uiVars,
                 timerVars, command, history, failures>>

\* repository_.UpsertMinuteBucket throws; the transaction is rolled back.  The
\* command is not queued again.
SaverFail ==
  LET m == command.snapshot.minute IN
  /\ saver = "save"
  /\ failures < MaxFailures
  /\ failures' = failures + 1
  /\ saver' = "failed"
  /\ exposed' = IF ~Live(m) /\ ~Completing(m) /\ Pending(m) = {}
                   /\ command.snapshot.counts # rows[m]
                THEN exposed \cup {m}
                ELSE exposed
  /\ UNCHANGED <<world, rows, running, bucket, queue, waits, stops, status,
                 uiVars, timerVars, command, pressed, saved_id>>

\* Mutant: wait_failed_ is not set by a refused save.
CompleteQuietly(failed) ==
  IF command.wait_id # 0
  THEN /\ completed_wait_id' = command.wait_id
       /\ wait_failed' = FALSE
       /\ ui' = IF ui = "flushAsleep" THEN "flushWait" ELSE ui
       /\ UNCHANGED next_wait_id
  ELSE UNCHANGED <<waits, ui>>

\* wait_cv_.notify_all: the flushing thread, if it sleeps, wakes.
Complete(failed) ==
  IF command.wait_id # 0
  THEN /\ completed_wait_id' = command.wait_id
       /\ wait_failed' = failed
       /\ ui' = IF ui = "flushAsleep" THEN "flushWait" ELSE ui
       /\ UNCHANGED next_wait_id
  ELSE UNCHANGED <<waits, ui>>

\* After the save, under queue_gate_: the try block ...
SaverAck ==
  /\ saver = "saved"
  /\ has_saved' = TRUE
  /\ last_error' = FALSE
  /\ Complete(FALSE)
  /\ saver' = "check"
  /\ command' = EmptyCommand
  /\ UNCHANGED <<world, rows, running, bucket, queue, stops, disposed,
                 ui_snapshot, ui_wait_id, timerVars, history, saved_id, failures>>

\* ... or the catch block.
SaverReport ==
  /\ saver = "failed"
  /\ last_error' = TRUE
  /\ Complete(TRUE)
  /\ saver' = "check"
  /\ command' = EmptyCommand
  /\ UNCHANGED <<world, rows, running, bucket, queue, stops, has_saved, disposed,
                 ui_snapshot, ui_wait_id, timerVars, history, saved_id, failures>>

-----------------------------------------------------------------------------
\* The environment.

ClockForward ==
  /\ now < MaxMinute
  /\ now' = now + 1
  /\ UNCHANGED <<back_steps, crashes, rows, running, bucket, queue, waits, stops,
                 status, uiVars, timerVars, saverVars, history, saved_id, failures>>

\* system_clock is not monotonic: the user or time synchronisation sets it back.
ClockBack ==
  /\ back_steps < MaxBackSteps
  /\ now > 0
  /\ now' = now - 1
  /\ back_steps' = back_steps + 1
  /\ UNCHANGED <<crashes, rows, running, bucket, queue, waits, stops, status,
                 uiVars, timerVars, saverVars, history, saved_id, failures>>

\* The process is killed.  Committed rows stay, everything else is gone.
Crash ==
  /\ running
  /\ crashes < MaxCrashes
  /\ crashes' = crashes + 1
  /\ exposed' = exposed \cup {m \in Minutes : Newest(m) # rows[m]}
  /\ Down
  /\ UNCHANGED <<now, back_steps, rows, pressed, failures>>

-----------------------------------------------------------------------------
\* What the UI thread does once an operation has begun.
UiStep ==
  \/ PushCompleted
  \/ FlushPush \/ FlushSleep \/ FlushReturn
  \/ DisposeSnapshot \/ StopQueue \/ Join

TimerStep == TimerCheck \/ TimerSlice \/ TimerSnapshot \/ TimerPush

SaverStep ==
  \/ SaverPop \/ SaverSleep \/ SaverExit
  \/ SaverCommit \/ SaverFail \/ SaverAck \/ SaverReport

Next ==
  \/ Create
  \/ \E k \in Keys : RecordKeyPress(k)
  \/ FlushNow
  \/ Dispose
  \/ UiStep
  \/ TimerStep
  \/ SaverStep
  \/ ClockForward
  \/ ClockBack
  \/ Crash

\* Each of the three threads is scheduled as long as it can run.  Nothing
\* forces the user to press, flush or exit.
Fairness == WF_vars(UiStep) /\ WF_vars(TimerStep) /\ WF_vars(SaverStep)

Spec == Init /\ [][Next]_vars /\ Fairness

-----------------------------------------------------------------------------
\* Everything in memory and in the database has the type the code declares.
TypeOK ==
  /\ now \in Minutes
  /\ rows \in [Minutes -> CountVector]
  /\ running \in BOOLEAN
  /\ current_minute_start \in Minutes
  /\ current_counts \in CountVector
  /\ queue \in Seq(SaveCommand)
  /\ next_wait_id \in Nat \ {0}
  /\ completed_wait_id \in Nat
  /\ wait_failed \in BOOLEAN
  /\ stop_timer \in BOOLEAN
  /\ stop_queue \in BOOLEAN
  /\ has_saved \in BOOLEAN
  /\ last_error \in BOOLEAN
  /\ disposed \in BOOLEAN
  /\ ui \in {"idle", "pushCompleted", "flushPush", "flushWait", "flushAsleep",
             "disposeSnapshot", "stopQueue", "join"}
  /\ ui_snapshot \in Snapshot
  /\ ui_wait_id \in Nat
  /\ timer \in {"check", "sleep", "push", "done"}
  /\ timer_snapshot \in Snapshot
  /\ elapsed \in 0 .. FlushSlices
  /\ saver \in {"check", "asleep", "save", "saved", "failed", "done"}
  /\ command \in SaveCommand
  /\ pressed \in [Minutes -> [Keys -> Nat]]
  /\ exposed \subseteq Minutes
  /\ saved_id \in Nat
  /\ failures \in Nat
  /\ back_steps \in Nat
  /\ crashes \in Nat

\* What minute m should read: its presses, up to UINT32_MAX.
Truth(m) ==
  [k \in Keys |-> IF pressed[m][k] < MaxCount THEN pressed[m][k] ELSE MaxCount]

\* The counts c of minute m count no press that was not made.
AtMost(c, m) == \A k \in Keys : c[k] <= pressed[m][k]

\* No copy of a minute -- its row, the live bucket, a snapshot held by a thread
\* or waiting in the queue -- ever counts a press that was not made.  Snapshots
\* of one minute reach the database from three places and through restarts; each
\* replaces the row (UpsertMinuteBucket), so that no press is added twice.
NeverOvercounts ==
  /\ \A m \in Minutes : AtMost(rows[m], m)
  /\ AtMost(current_counts, current_minute_start)
  /\ AtMost(ui_snapshot.counts, ui_snapshot.minute)
  /\ AtMost(timer_snapshot.counts, timer_snapshot.minute)
  /\ AtMost(command.snapshot.counts, command.snapshot.minute)
  /\ \A i \in DOMAIN queue : AtMost(queue[i].snapshot.counts, queue[i].snapshot.minute)

\* A press leaves the program only in one of the four ways `exposed' records (a
\* kill, a refused save, a minute re-entered after the clock was set back, a
\* timer snapshot that was overtaken): of every other minute the newest copy,
\* wherever it is (Newest), counts every press.
NoSilentLoss == \A m \in Minutes \ exposed : Newest(m) = Truth(m)

\* FlushNow throws exactly when its own command was not committed:
\* wait_failed_ and completed_wait_id_ are shared by all commands.
FlushVerdict ==
  ui = "flushWait" /\ FlushDone => (~wait_failed <=> saved_id = ui_wait_id)

\* No wakeup is lost and nobody waits for one who waits: the save thread sleeps
\* only while there is nothing to save and nobody told it to stop; the flushing
\* thread only while its answer is owed, by a save thread that is awake; and the
\* destructor joins threads that have been told to end, the save thread awake.
NoLostWakeup ==
  /\ saver = "asleep" => queue = << >> /\ ~stop_queue
  /\ ui = "flushAsleep" => ~FlushDone /\ saver \notin {"asleep", "done"}
  /\ ui = "join" => stop_timer /\ stop_queue /\ saver # "asleep"

\* After an exit without kill or error the database holds every press ever made.
CleanExitKeepsEveryPress ==
  ~running /\ crashes = 0 /\ failures = 0 => \A m \in Minutes : rows[m] = Truth(m)

\* FlushNow, which blocks the UI thread, returns: the save thread cannot miss
\* the command nor the UI thread the answer.
FlushReturns == ui = "flushPush" ~> ui \in {"idle", "stopQueue"}

\* The destructor ends: both threads see their stop flags and are joined.
DisposeTerminates == disposed ~> ~running

\* The periodic flush saves the live minute without any help from the user,
\* also after a refused save, unless the minute or the program ends first.
AutoSave ==
  \A m \in Minutes, k \in Keys, n \in 1 .. MaxCount :
    running /\ current_minute_start = m /\ current_counts[k] >= n
      ~> rows[m][k] >= n \/ ~running \/ disposed \/ current_minute_start # m
=============================================================================
