# KeyStats in TLA+

KeyStats is a Windows program that counts key and button presses by the minute,
saves the counts to an SQLite file and shows them. This directory holds TLA+
models of it, the TLC configurations that check them, and proofs for TLAPS.
Paths are those of the repository, with `src/` for its root.

1. [The system](#the-system)
2. [The modules and the code](#the-modules-and-the-code)
3. [What the runs check](#what-the-runs-check)
4. [Where the code and its documents disagree](#where-the-code-and-its-documents-disagree)
5. [Fairness](#fairness)
6. [Proofs](#proofs)
7. [Not modelled](#not-modelled)
8. [Plan](#plan)

## The system

| Component | State | Operations | Talks to |
|---|---|---|---|
| `RawInputSource` (app/raw_input) | Alt sampling timer, `sampled_alt_tab_down_` | `HandleMessage`, `OnAltSamplingTick`, `ReconcileSystemShortcutState` | gets `WM_INPUT`, timers, `GetAsyncKeyState`; asks the normalizer; drives the counter; calls the recorder for each counted press |
| `KeyboardCounter` (core) | held keys by device, counts of this run, paused | `ProcessButton`, `SetPaused`, `ClearCounts`, `RemoveDevice`, `ReleaseKey` | - |
| `KeyNormalizer` (core) | none | make code, prefix and virtual key to `KeyId` | - |
| `KeyCatalog` (core) | none | key to name and category | drawing, export |
| `StatisticsRecorder` (storage) | live minute and its counts; save queue; wait ids; stop flags | `RecordKeyPress`, `FlushNow`, destructor; timer thread; save thread | reads and writes the repository |
| `KeyStatsRepository` (storage) | the database file: `minute_buckets`, `rollup_10m`, `user_version` | `Initialize`, `UpsertMinuteBucket`, range and total queries, `ExportCsv` | opens a connection per call |
| `CountVectorCodec`, `time_buckets` (storage) | none | counts to blob and back; rounding of times | - |
| Statistics window (app/application) | selected range, stored and live counts on display, total, flags | `InitializeStorage`, range selection, refresh tick, save, export, pause, clear, exit | everything above, on the UI thread |
| Program life (app/main) | mutex, two events, SignalThread | single instance, show and exit requests, shutdown | other processes of the program |
| `SettingsStore` (storage) | settings.json | `LoadOrCreate`, `Save` | read once at the start |
| `TrayIcon`, `StartupRegistration`, heatmap and timeline | - | commands, a registry value, drawing | - |

A press travels: keyboard → message queue → `ProcessRawInput` → `ProcessButton`
decides whether it counts → `RecordKeyPress` adds it to the live minute → a
snapshot of the minute (absolute counts, not a difference) is queued when the
minute ends, when the timer thread fires or when somebody flushes → the save
thread replaces the row of the minute and recomputes the rollup of its ten
minutes, in one transaction. The window adds the live minute to what it reads
from the other rows.

What is hard here, and what makes each part correct:

* **Recorder.** Three threads, two locks and two condition variables. Snapshots of
  one minute reach the database from three places and the last one wins, so their
  order matters. Correct: nothing counted twice, nothing lost but by a kill or a
  refused save, `FlushNow` tells the truth, and every wait ends.
* **Repository.** Two tables that must agree, written by one thread and read by
  another with several `SELECT`s; failures and kills at any statement; files of
  other releases. Correct: rollups are sums, and an answer counts every minute of its
  range once, whatever is saved while it is read.
* **Input.** Two sources report Tab; the key state Windows reports is ahead of
  the messages, some of which never come; keys share make codes and virtual keys,
  and some send a shift that nobody pressed. Correct: each press counts once, for
  its own key, and no key stays held.
* **Window.** It caches what it read and patches it with the live minute, while
  minutes move to the database. Correct: never more than was pressed, and in the
  end all of it.
* **Files.** The settings and the export are written beside their destination,
  which is removed before the new file is renamed; any call may fail, and a full
  disk goes unnoticed. A blob in the database may be of another release or
  damaged. Correct: what is replaced is replaced by something finished, an export
  is complete, a blob is read for what it is or refused, and the program starts
  again on what it left behind.
* **Program life.** Several processes, kernel objects that live as long as their
  handles and may be refused to a process of other rights, requests that find nobody
  or a window that is asking its user something. Correct: of the processes that have
  the mutex one counts, requests are honoured.

`PROJECT.json` lists each hazard at its line, with the properties that cover it.

## The modules and the code

| Module | Models |
|---|---|
| `StatisticsRecorder` | statistics_recorder.cpp, by critical sections |
| `MinuteLedger` | what the recorder promises: a live minute, one line of snapshots, a row a minute |
| `RecorderLedger` | the refinement of `MinuteLedger` by `StatisticsRecorder` |
| `StatisticsRecorderProofs` | theorems about `StatisticsRecorder`, and that it implements the ledger |
| `MinuteLedgerProofs` | lemmas about the ledger, for the models built on it |
| `SumLemmas` | lemmas about sums over finite sets |
| `TimeBuckets` | time_buckets.hpp and the split of a range |
| `MinuteStore`, `MinuteStoreProofs` | repository.cpp, by statements; its theorems and those of `TimeBuckets` |
| `CountVectorCodec` | count_vector_codec.cpp, byte by byte |
| `KeyNormalizer` | key_normalizer.cpp, as functions |
| `PhysicalKeys` | what keys send: the environment of `KeyNormalizer` |
| `KeyboardCounter` | keyboard_counter.cpp: the operations, as actions for others to use |
| `RawInputSource`, `RawInputSourceProofs` | raw_input.cpp on `KeyboardCounter` and `KeyNormalizer`, with devices and Windows around it, and its theorems |
| `Dashboard`, `DashboardProofs` | the statistics window of application.cpp, on `MinuteLedger`, and its theorems |
| `SettingsStore` | the format of settings.json in settings_store.cpp |
| `DataFiles`, `DataFilesProofs` | `LoadOrCreate`, `Save`, `InitializeStorage`, the export command and `ExportCsv`, call by call, on `MinuteLedger`, `SettingsStore` and `CountVectorCodec`; theorems about settings, export and blobs |
| `SingleInstance`, `SingleInstanceProofs` | main.cpp and the exit of application.cpp, for several processes, and theorems |
| `MC...` | small instances for TLC |

Modules that interact are composed by `EXTENDS`: `RawInputSource` builds its
actions of `KeyboardCounter`'s, `Dashboard` and `DataFiles` of `MinuteLedger`'s.
These two use the ledger rather than the recorder itself; `RecorderLedger`
justifies that, and keeps their state spaces within reach.

**StatisticsRecorder.** One variable per member, one `pc` per thread (`ui`,
`timer`, `saver`), and the locals that live across a lock (`ui_snapshot`,
`ui_wait_id`, `timer_snapshot`, `command`). A step is one critical section, or
what lies between two. `RecordKeyPress` is two steps, because it releases
`bucket_gate_` before it takes `queue_gate_`; `PeriodicFlush` likewise. A thread
in `wait` is "asleep" until a notification makes it look again. A saved
transaction (`SaverCommit`) and its acknowledgement under `queue_gate_`
(`SaverAck`) are two steps. Time counts minutes; the clock may go back. A row that
is missing reads as zero counts, as `value_or` makes it; no empty snapshot is ever
queued. The history variable `exposed` collects the minutes hit by one of the four
ways in which the code can lose a press, so that `NoSilentLoss` can say there is
no fifth.

**MinuteStore.** The committed file, the save thread's transaction (its writes are
in `txn_...` until `Commit`) and one query with its three `SELECT`s. `Init` has a
new file and files of other releases (key map versions 1 to 3, a newer schema);
`RefuseFile` is the refusal of one that fails `quick_check`. A blob is its counts here;
`DataFiles` has the blobs themselves. Nothing is assumed of what is saved: like the
code, a save replaces a row by any other, of higher or lower counts (an overtaken
snapshot and a clock set back lower them). So what a query may answer is said with
history: `seen` holds the rows each minute has had since the query began, and `Past`
the tables that can be put together of them. `NoWrap` sets apart rollups that do not
fit 32 bits.

**CountVectorCodec.** Data is a sequence of bytes. `Decode`'s loop, which throws at
the first bad entry, is two operators: `Accepts`, that no entry is bad, and
`Decode`, what is returned then.

**KeyboardCounter, KeyNormalizer and RawInputSource.** The queue holds the messages
Windows has not delivered, each with the raw event `PhysicalKeys` says the key
sends; what key it is of, if any, is decided when it is handled (`KeyOf`). `async`
is what `GetAsyncKeyState` reports, changed the moment a key moves. `Lossy` keys
may lose a message. A timer message is taken when the queue is empty, as Windows
generates it, and its handler runs later: keys may move in between. Handlers do
not overlap, since one thread runs them. Tab is tracked under device 0
(`PressedKey`). One message of a mouse may move several buttons. The history is kept
for each pair of a device and a key (`PressedKeys`): how often it was pressed,
recorded, or passed over because of a pause, and, in `early`, how often a timer or
the break of Alt released it, a system key, although it was down or had makes in the
queue.

**Dashboard.** A handler of the window runs query by query (`ui`), and the save
thread may commit between two queries; within a handler no press arrives, since
presses are handled on the same thread. `SaveNow`, which blocks the UI thread
until the save thread has answered, is one step that drains the line.
`shown_range` is history: the range the counts on display are of. So is `exposed`, the
minutes the recorder may have lost presses of: one the clock was set back into
(`Reentered`), and one that ended, with more presses, before the timer thread queued
its snapshot of it (`Overtaken`). Only `TotalCatchesUp` makes allowance for these, by
counting on the other minutes (`SafePresses`).

**DataFiles and SettingsStore.** `disk` has the content of four paths: the two
destinations and their temporary files. A step is one call of the file system, of
the database or of the recorder. Any of them may fail (`MaxFaults`): with an
exception, which ends in a message box, or, for a write, with a file cut short
that nobody notices. `exposed` is as in `Dashboard`, with the minutes of refused saves
and those a kill finds unsaved. A settings file is the value of each field, and
`Truncations` are what a write cut short at any byte makes of it. One old minute holds what
another release, or damage, may have left in the database. `old_row` is chosen only
when an export is about to read it, which leaves every behaviour there and the
state space smaller. A `stuck` process has a window and no recorder.

**SingleInstance.** `mutex` is the set of processes with a handle of it. A process is
first when it opened it alone, or when `CreateMutexW` gave it no handle at all: the
code looks only at `ERROR_ALREADY_EXISTS` (src/src/app/main.cpp:82). `refused` is history:
the processes that were denied the mutex, the events or a window of another, as one
of other rights is. Such a process counts beside the first, and then two share the
named events, which exist as long as any process has a handle (`listeners`), and
`FindWindow` may find the window of either. Processes are numbered in the order in
which they call `CreateMutex`, before which nobody notices them. After the exit the
handles are closed (`CloseHandles`) before the process is gone (`End`); its
`SignalThread`, which is waited for two seconds at most, may still be on its way to post
what it took then, to the window of a successor. A wait whose handles are closed or
were never there fails, and the thread leaves its loop when it finds a window
(`LeaveLoop`). `boxes` is the nesting of the message boxes that `ExitApplication(true)` opens,
each with a message loop of its own: posted messages are handled in the innermost,
the user answers any, and a box returns only when those in it have. A second
teardown, after a yes to an outer box, finds every pointer reset and does nothing.

## What the runs check

Every property of a passing run has a mutant in `PROJECT.json`: a plausible bug,
written next to the definition it replaces, under which TLC finds the property
violated.

| Run | Shows | Bounds, and why they are enough |
|---|---|---|
| `recorder_safety` | `TypeOK`, `NeverOvercounts`, `NoSilentLoss`, `FlushVerdict`, `NoLostWakeup` | One key (keys never meet in the code), two minutes (a rollover, and back), a counter that saturates at 2 and is pressed three times in the first minute, one press in the second; one flush, one kill, one refusal, one clock change. The timer waits while a command is queued (`MaxQueue`), yet the queue gets longer by flushes and rollovers. |
| `recorder_live` | `FlushReturns`, `DisposeTerminates`, `AutoSave`, `ImplementsLedger` | One press a minute, one refusal, one clock change; no kill, which would end the waits by itself (for the ledger, the recorder's `Crash` is a `Close`, and covered by `Join`). One press is enough for its save to be refused, its minute queued anew by the timer and drained at exit; what more presses add (snapshots of one minute out of order) is left to `recorder_safety`. |
| `minute_store` | `TypeOK`, `SchemaComplete`, `RollupsExact`, `AggregateOnce`, `SeriesOnce`, `AnswerReadable` | Blocks of two minutes and times on both sides of zero, so that ranges cut blocks at either end, contain whole ones, or lie within one; two saves of counts up to 2 (`MaxRowCount`), so that one commits between any two `SELECT`s, raises or lowers a row, and a rollup wraps at 3; one refusal (`MaxFailures`). |
| `input` | `TypeOK`, `NoDoubleCount`, `EveryPressCounted`, `HeldAreDown`, `StuckKeysRecover` | Ten layouts: a key on two keyboards, two mouse buttons, Alt and Tab, and seven keyboards of one or two keys whose events share a make code or a virtual key. Three presses: one key held and pressed again, or a second key in between. Two rare events (repeats, kept messages, pauses, clears, removals), so that each meets each; two messages waiting when a key moves, so that handling lags behind the keys. |
| `dashboard_safety` | `TypeOK`, `TotalNeverAhead`, `ShownNeverAhead` | Three minutes, two presses, two ranges that cut the minutes differently, one click; at most one refused save, one query that throws, one exit and one clock set back, and two of these together (`MaxMishaps`). "Today", the preset at the start, is all three minutes here; "Recent" resolves alike and is left to `dashboard_idle`. |
| `dashboard_live` | `TotalCatchesUp`, `LivePressShown` | Two minutes and three presses: one in the live minute, one that overtakes the timer's snapshot of it, one in the next minute. One mishap, a clock set back or a query that throws; refusals and exits, after which `TotalCatchesUp` promises nothing, are left out. Without the allowance for `exposed`, TLC finds the press that an overtaken snapshot loses. |
| `instance` | `TypeOK`, `OneInstance`, `RequestsKept`, `ExitHonoured`, `ShowHonoured` | Three processes: one that runs, one whose start requests something of it, and another that interferes or succeeds it. At most one kill, two boxes, one in the other, and one process that is refused things; two of these events in all (`MaxMishaps`), so that any two of them meet. |
| `files` | `TypeOK`, `BlobsReadExactly`, `ExportIsComplete`, `StartsUnlessSpoiled`, `DestinationReplacedWhole`, `UserSettingsKept` | Any number of starts; one export, and at most one fault, kill, edit and clock set back, three of these together (`MaxMishaps`), in any order: two of them meet at the same file. Two presses of one key in two minutes: a rollover, an overtaken snapshot, a live minute with a row, a minute entered again. Codec of two keys: a damaged blob for each check of the version, the length and the entries. |

`CHECK_DEADLOCK FALSE` is set for `SingleInstance` only: each process is started
once, and when all have ended nothing happens any more. In the other models the
clock, the user or a timer can always act.

A bound that no constant names: in `Dashboard` and `DataFiles` the timer thread takes
its snapshot only when the line is empty, and in `Dashboard` queues it only then.

The properties in words:

* `NeverOvercounts`: no copy of a minute, wherever it is, counts a press that was
  not made. `NoSilentLoss`: of every minute not `exposed`, the newest copy counts
  every press, up to saturation.
* `FlushVerdict`: `FlushNow` throws exactly when its own command was not committed.
* `NoLostWakeup`: the save thread sleeps only with nothing to do; a flush sleeps only
  while a save thread that is awake owes it the answer; the destructor joins threads
  that have been told to end. This is what `FlushReturns` and `DisposeTerminates` need
  besides fairness.
* `AutoSave`: the timer saves the live minute, also after a refusal.
* `ImplementsLedger`: every step of the threads is a step of the ledger or none.
* `SchemaComplete`: a file with its version set has its whole schema.
  `RollupsExact`: in every committed state a rollup is the sum of its minutes,
  unless that does not fit 32 bits.
* `AggregateOnce`, `SeriesOnce`: an answer is the sum of the range over a table that has
  for each minute one of the rows it had while the query ran. So no minute counts in
  a rollup and in a cut end, or in neither, whatever commits between the `SELECT`s.
  (The minutes need not be of one moment, and unless rows only grow the answer need not
  lie between the sums before and after; the code promises neither.)
* `AnswerReadable`: a minute of an unsupported key map version is never counted,
  not even through a rollup.
* `NoDoubleCount`: a press is recorded at most once and for its own key, whoever
  reports it; a clear, and a system key released ahead of its messages, allow one
  more. `EveryPressCounted`: and at least once, but for the makes that came while
  paused and the messages Windows kept. `HeldAreDown`: with no message waiting,
  what counts as held is held, on a device that is there. `StuckKeysRecover`: a
  system key whose break never came is released.
* `BlobsReadExactly`: no blob, sound or damaged, passes for another.
  `ExportIsComplete`: an export that is reported as done lists the presses made in
  its range before the command, those of the live minute included, and no other; of
  `exposed` minutes it lists no more than was pressed.
  `DestinationReplacedWhole`: no kill, exception or damaged row leaves a part of a
  file at the destination. `UserSettingsKept`: the program never changes settings
  that are there. `StartsUnlessSpoiled`: what the program itself left behind, killed
  anywhere, never keeps the next start from its recorder.
* `TotalNeverAhead`, `ShownNeverAhead`: the window never shows more than was pressed.
  `TotalCatchesUp`: in the end the total reaches the presses of all minutes that are not
  `exposed`, unless a save was refused or the program has ended. `LivePressShown`: a
  press in the live minute reaches the display while that minute is on it.
* `OneInstance`: of the processes that have the mutex at most one counts, and one that
  counts without it was refused it. `ExitHonoured`, `ShowHonoured`: requests to a running
  process take effect, also while it asks its user whether to exit, if nobody is
  killed or refused. `RequestsKept`, an action property: no step loses such a request
  between the event, the `SignalThread` and the window, while the process asked is the
  only one that counts; kills, refusals and the threads of processes that are
  ending included.

## Where the code and its documents disagree

Four are runs, which TLC ends with a counterexample:

* `recorder_exit_race`: `PeriodicFlush` takes its snapshot under one lock and
  queues it under another. If the minute ends or the program exits in between, the
  newer counts are queued first and the older ones saved last.
* `input_alt_again` (`OncePerPress`): Tab stays down while Alt is let go and pressed
  again; the sampler counts Tab twice.
* `settings_torn` (`SettingsWrittenWhole`): the disk is full when the settings are
  first written; the stream is not asked, and the truncated file becomes
  settings.json. A later start may refuse it and goes on without a recorder.
* `dashboard_idle`: once a refresh found the live minute outside the range, the
  display does not follow new presses until the user picks a range or saves.

Others showed while modelling. They have no run; the properties make allowance
for them by name, and the definition that does so says how:

* The clock is set back into a minute that has a row: the minute starts from zero
  and replaces the row (`exposed` in `StatisticsRecorder`).
* The refresh timer or the sampler finds Tab up and forgets it while a repeat of the
  same press is still queued: the repeat counts. This is a second way to violate
  `OncePerPress`, and `early` in `NoDoubleCount`.
* Tab on a second keyboard, pressed while it is held on the first, is not counted
  (src/src/core/keyboard_counter.cpp:31), against "两把键盘分别按下会各计一次" in
  src/tests/test_main.cpp:158, which tries the key A only. The layouts of `input`
  have Tab on one keyboard.
* A keyboard removed with Tab down leaves Tab held, since Tab is tracked under
  device 0; the refresh timer releases it later, if Windows reports the key up
  (`HeldAreDown` says so).
* "CSV 导出完成。" is shown for a file that a full disk has cut short
  (src/src/app/application.cpp:710; `ExportIsComplete` is about the others).
* The column `key_id` of an export is the display name of the key, unescaped
  (src/src/storage/repository.cpp:467): the line of the comma key has a field too
  many.
* Ctrl with Pause is reported with make code 46 and counts as Scroll Lock
  (src/src/core/key_normalizer.cpp:128). `PhysicalKeys` leaves this combination out.
* `countKeyRepeat` and `retentionDays` of settings.json are read and validated, and
  used nowhere.
* A minute that has just ended is neither live nor saved, and the total drops by
  it until the next refresh (`TotalNeverAhead` bounds the total from above only;
  `TotalCatchesUp` says that it recovers).
* `CreateMutexW` fails, as it does for a process that may not open the mutex of an
  elevated one: the error is not `ERROR_ALREADY_EXISTS`, the process takes itself for
  the first (src/src/app/main.cpp:82) and counts beside the other, each replacing
  the minutes the other saves (`refused` in `OneInstance`).
* The second of two that count may take a request from the shared event and post it to
  the window of either, or be denied that and drop it (`RequestsKept` and `ExitHonoured`
  are about one that counts alone, and about no refusal).
* A start while the old process shuts down, its window gone, is swallowed: no
  process remains (`ShowHonoured` is about a running process).

## Fairness

Liveness is checked under these assumptions, and no other:

* weak fairness of what each thread does once it can run (`UiStep`, `TimerStep`,
  `SaverStep`; `HandleInput`, `HandleTimer`; `Handle`, `SaveOne`; `Main`,
  `SignalThread`): the operating system schedules it;
* weak fairness of the message loop for posted messages (`ShowWindow`,
  `ExitRequested`): the loop, be it a message box's, works its queue off.
  `AskExit` and `Answer`, which are the user's, have none;
* strong fairness of timer messages (`TakeTimer`, `OnRefreshTick`, `Due`): a timer
  message comes only when the queue is empty and no handler runs, again and again
  but not continuously. A refresh that is due (two seconds since the last) happens
  on some of these ticks.

No fairness is assumed of users, keyboards, the clock, kills or refusals. A save is
not assumed to succeed; `AutoSave` holds because refusals are bounded, that is, do
not go on for ever.

## Proofs

Each theorem holds for every value of the constants that the named assumptions
allow, and for every bound. `TypeCorrect`, in each module, is `Spec => []TypeOK`.

`SumLemmas`. The sums the models are built of (`SumFunctionOnSet`, a fold over a
set) are defined by recursion, and the library's induction theorems take an
operator as a parameter, which no prover here can instantiate. So induction is
proved anew for a set instead of an operator (`Induction`, `SubsetInduction`, from
`LeastNatural`), a function with the recursion of the fold is shown to exist
(`SumsExist`) and to be the fold (`SumsAgree`, `SumIs`), and from there what sums do:
empty, without one element, in parts, by class, monotone, exchanged.

`StatisticsRecorderProofs`, from `RecorderAssumption` (saturation and flush interval
are positive, bounds are natural numbers):

* `TypeCorrect`. `Increment` keeps a counter within `UINT32_MAX` (`IncrementType`).
* `CountsOnlyPresses`: `NeverOvercounts`. With `TypeOK` it is inductive because it
  speaks of every copy: a snapshot is bounded by the presses of its minute all the
  way, and presses only grow (`PressedGrows`).
* `FlushTellsTheTruth`: `FlushVerdict`. The verdict alone is not inductive: what
  decides it happened when the save thread took the command. `FlushInv` says where
  the one command that is waited for is (queued, in the save thread's hand, or
  answered), that no other has its id, and that only its commit sets `saved_id`; and
  that the destructor's stop flag, which would end the wait as well, comes after the
  last flush.
* `NothingLostSilently`: `NoSilentLoss`. A minute may have a copy live, in the UI
  thread's hand, several in the queue, one in the save thread's hand and a row.
  `Newest` says which of them counts; the proof says, step by step, that a step
  leaves the newest copy what it is (`NewestKept`), hands it on to the next place, or
  puts the minute into `exposed`. The strengthening `Handover` says what makes the
  order of the places right: no minute is live and completing at once, a flush
  queues the live counts as they are, and the save thread leaves only when nobody
  queues any more. `DatabaseIsComplete` is what that comes to once there is no
  recorder any more: the rows themselves.
* `NobodySleepsThrough`: `NoLostWakeup`. The strengthening `Wakeups` says where the
  answer of a flush comes from: its command is queued or in the save thread's hand
  (`Owed`), which has one only while it is busy, and answer and notification are one
  step. That the save thread has not left by then is in `FlushInv` and `Handover`.
* `RecorderImplementsLedger`: `Spec => ImplementsLedger`. The line of the ledger is
  in three parts (`LineIs`): what the save thread has, the queue, the completed
  bucket that is not queued yet. Each action has a lemma that says which step of
  the ledger it is; the parts make it a matter of which part loses its head or gains
  an end. `TypeOK`, `FlushInv` and `Handover` are what the steps rest on.

`MinuteStoreProofs`, from `StoreAssumption` (finite sets of keys and times, blocks of
a positive length):

* `RangeIsSplit`: for all ranges and intervals, `start <= first <= last <= end`, and
  the middle part lies on block boundaries, so that head, rollups and tail cover a
  range once. It rests on what C++'s `%` computes for negative times
  (`CppRemFacts`).
* `SchemaIsComplete`: `SchemaComplete`. `TypeCorrect`.
* `RollupsAreExact`: `RollupsExact`. The strengthening `Transacting` says statement
  by statement how the tables of the transaction differ from the committed ones:
  first not, then by the row, then by the rollup as well. `RebuiltIsExact` says that
  the rollup that is written is the sum of its block (a fold in the code and in the
  model; `RollupFacts`) and that every other block is as it was.
* `AnswersAreReadable`: `AnswerReadable`. `ReadInv` says that the rollup over an
  unsupported minute is unsupported itself (`Marked`), in the committed file and in
  the transaction; that a save makes no row unsupported (`NoNewBad`), so that what a
  query has read does not become so behind it; and that what has been read so far
  is supported, blocks included, because they lie wholly in the range
  (`PartIsGood`, with `RangeIsSplit`).
* `AggregatesCountOnce`, `SeriesCountOnce`: `AggregateOnce`, `SeriesOnce`, without any
  assumption on what is saved. The strengthening `Seen` says it of every moment of a
  query, with the part of the range read so far (`ReadTo`): some table of `Past` has
  exactly the answer as its sum up to there, and the present rows are among those
  `seen`. A commit only adds to `Past` (`CommitSeen`). A `SELECT` reads, now, a part that the
  answer does not have yet, so the table is changed in this part to the present one
  (`SelectSeen`); for the rollups, which are exact, that is the minutes of whole blocks
  (`RollupsAddUp`, `RangeIsSplit`).

`MinuteLedgerProofs` has what `DataFilesProofs` and `DashboardProofs` both need of the
ledger: its types, and that no step but a press makes a copy that was not there
(`NothingNew`, `SnapshotsIn`), hence that no copy counts more than was pressed; and
what the line leaves in the rows when it is saved (`SavedOver`).

`DataFilesProofs`, from `FilesAssumption` (counts have 32 bits; of the edited files,
only that those within the rules are such), `CodecAssumption` (at most 65535 keys),
`SettingsAssumption` and `ModelValuesAssumption` (marks are no numbers, placeholders no
files):

* `EncodedIsReadBack`: every vector of 32-bit counts, listed in whatever order, is
  accepted and read back; it rests on the arithmetic of the bytes and on where an
  entry lies. `AcceptedOnlyEncodings`: every blob that is accepted is, byte for byte,
  the listing of the counts it is read as.
* `BlobsAreReadExactly`: `BlobsReadExactly`, for what is in the database. The row of a
  save is written in some order of the keys; that there is one, the order `Encode`
  writes them in, is an induction over the number of keys (`OrdersExist`).
* `TypeCorrect`, by the forms of the files (`FileTypes`), which a rename moves from one
  path to another, and `WithRecorder`. `SettingsAreKept`: `UserSettingsKept`, because
  the steps of `Save` are taken only while there is no file (`NothingToSpoil`).
* `StartsAgain`: `StartsUnlessSpoiled`. `WholeFiles` says that without a fault the
  temporary file is renamed only when all of `Serialize` is in it; `DefaultsLoad`, that
  `LoadOrCreate` reads what `Serialize` writes.
* `ExportsAreComplete`: `ExportIsComplete`. `Balance` says that the newest copy of a
  minute counts all its presses, in the live bucket or in the line, unless the
  minute is exposed. So when the flush before an export has returned every minute
  is there, in its row and in every copy that might still replace it (`Flushed`); what
  is written lists it (`Written`); and what is renamed is what was written
  (`Reported`), whatever was pressed meanwhile.
* `DestinationIsReplacedWhole`: `DestinationReplacedWhole`, an action property, from
  `Written`.

`DashboardProofs`, from `DashboardAssumption` (a finite set of keys, as sums need):

* `TypeCorrect`, of which the part that matters is that the live bucket on display
  lies in the range shown and the counts shown are the stored ones and the live
  ones (`Forms`, `WindowTypes`).
* `ShownIsNeverAhead`: `ShownNeverAhead`. The strengthening `Display` splits the range
  shown at the live bucket: the stored counts are of the rest of it, the live counts
  of the bucket, so that no minute is counted by both; `HalfWay` says it of the query
  before the live bucket while the one after it has not run.
* `TotalIsNeverAhead`: `TotalNeverAhead`, from `Covered`: no copy of a minute counts
  more than was pressed in it.

`SingleInstanceProofs`, from `InstanceAssumption`:

* `TypeCorrect`.
* `OnlyOneCounts`: `OneInstance`. The strengthening `OneHolder` says that whoever has
  passed `CreateMutex` as the first holds the mutex until it closes it, or was refused
  it, and that there is at most one such holder: a later one finds the mutex. A
  process that was refused the mutex counts outside this promise; the theorem says
  that nothing else breaks it.
* `RequestsAreKept`: `RequestsKept`. `FindWindow` looks for a window of any process; that
  the process asked counts alone, and that only one that counts has a window, makes
  it its own; where there is none (`GiveUp`), that process does not run. Steps of the
  others are on their own handles, threads and messages (`OthersRequests`).

`RawInputSourceProofs`, from `InputAssumption` (the keys are KeyIds, devices are finitely
many and none is 0, `Lossy` are system keys, `Repeating` are keys that can be held), for
every set of devices, every layout, any keys that get lost or repeat, and queues of
any length:

* `TypeCorrect`. What waits in the queue is of a key of its device (`SignalsAreOfKeys`, by
  the make codes and virtual keys of each key, through `Normalize`), so only such
  keys come to be held or counted.
* `NoneCountedTwice`: `NoDoubleCount`; `AllCounted`: `EveryPressCounted`;
  `HeldKeysAreDown`: `HeldAreDown`. None is inductive alone: what happens to a press is
  decided when its message is handled, and until then by what is ahead of it in the
  queue. `HeldAt` says whether a key will count as held when a message comes up,
  `ToCome` how many messages will count as presses. With these, `Credit` (what was
  recorded or passed over, is to come, or may come of keys that repeat, is within
  the presses and what clears and early releases allow), `Debt` (it falls short of
  the presses by no more than the lost messages) and `EndDown` (what is held once
  the queue is worked off is held on a device) speak of every state, and of one
  key at a time (`KeyInv`). A lost break leaves a key held in the queue's eyes: the
  press that will not count because of it is owed already (`Stale`). The sampler may
  find Tab down before the queue tells that it was let go: `Reserve` is the break
  that is still waiting then.
  The UI thread has many steps and a key few fates: it is handled from the front of
  the queue, released, or sampled ahead (`Outcomes`); a move presses it, repeats
  it, lets it go or pulls its device out (`MoveOutcomes`). `HandledKeeps` and
  `MovedKeeps` are about these fates only.

Left to TLC: liveness and fairness, with `ENABLED`, which are out of the prover's
reach (`FlushReturns`, `DisposeTerminates`, `AutoSave`, `StuckKeysRecover`,
`TotalCatchesUp`, `LivePressShown`, `ExitHonoured`, `ShowHonoured`). Every safety
property of a passing run is a theorem.

## Not modelled

* `KeyCatalog`: names and categories, which only drawing and the text of an export
  read.
* The ten-minute series of the timeline, drawing, layout, formatting, time zones.
* `Execute`, `CheckIntegrity` and `BindInsertLegacyMinute` of the repository: called
  by tests only.
* In `SingleInstance`: `CreateThread` or `CreateWindowExW` that fails; a process that is
  refused one of the two events only. `OpenEventW` and
  `SetEvent` of a later process are one step, and so are the calls of `CloseHandle` at
  the end, between which nothing but the process itself can tell a difference.
* Message boxes other than the question of the exit: their nested loops do what that
  of a box nobody has answered does. The box of a failed start delays the first
  `ShowWindow`; in `SingleInstance` a window is shown at once.
* `TrayIcon`, `StartupRegistration`: output only, and one registry value. (Disabling
  ignores the result of `RegDeleteValueW`, src/src/app/startup.cpp:50.)
* SQLite itself: a transaction is atomic, a `SELECT` reads what was committed when
  it ran.

## Plan

Done, in this order: the recorder and its ledger, its first theorems; time buckets
and the repository; input; the window; program life; the codec, the normalizer, the
settings and the export; exit questions; the theorems on flushes, codec, repository,
settings and program life; those on loss, the refinement, rollups and answers, the
window, blobs and the export; those on input; those on wakeups and requests.

What would come next: the ten-minute series of the timeline, on `Dashboard`.
