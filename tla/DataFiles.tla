------------------------------ MODULE DataFiles ------------------------------
(***************************************************************************)
(* The two files the program writes besides its database: settings.json,   *)
(* made by SettingsStore when there is none, and the CSV file of an        *)
(* export.  Both are written beside the destination, which is then removed *)
(* and the new file renamed.  Any of these calls may fail, a full disk may *)
(* cut a write short without anybody noticing, and the program may be      *)
(* killed between any two steps.                                           *)
(*                                                                         *)
(* Around them: InitializeStorage, which ends in a window without recorder *)
(* when the settings or the database cannot be read, and the recorder as   *)
(* MinuteLedger has it.  What exports read are blobs of CountVectorCodec.  *)
(***************************************************************************)
EXTENDS MinuteLedger, CountVectorCodec, SettingsStore

CONSTANTS
  NoFile, Earlier, \* model values: no file there; what the user had there before
  GoodFiles,       \* settings.json as a user may edit it, within its rules ...
  BadFiles,        \* ... and against them
  OldRows,         \* rows of a minute stored by another release, or damaged
  Ranges,          \* the ranges that are exported
  \* The bounds of a run:
  InUse,           \* the keys that are pressed
  MaxPresses,      \* presses, in all
  MaxExports, MaxFaults, MaxKills, MaxEdits,
  MaxSetBacks,     \* times the clock is set back
  MaxMishaps       \* faults, kills, edits and set backs together

ASSUME FilesAssumption ==
  /\ Keys = KeyIndexes
  /\ InUse \subseteq Keys
  /\ MaxCount \div 16777216 < 256
  /\ \A row \in OldRows : row.counts \in Seq(Bytes)
  /\ \A file \in GoodFiles : Loads(file)
  /\ \A file \in GoodFiles \cup BadFiles : DOMAIN file = Fields
  /\ {MaxPresses, MaxExports, MaxFaults, MaxKills, MaxEdits, MaxSetBacks, MaxMishaps}
       \subseteq Nat

Settings == "settings.json"
Csv      == "key-stats.csv"

\* Mutant: an export is written in its place.
TmpInPlace(path) == IF path = Settings THEN "settings.json.tmp" ELSE path

\* The temporary file beside a destination.
Tmp(path) == IF path = Settings THEN "settings.json.tmp" ELSE "key-stats.csv.tmp"
Paths == {Settings, Tmp(Settings), Csv, Tmp(Csv)}

OldMinute == -1

\* A row as this release writes it.
NewRow(counts) == [keymap_version |-> kKeyMapVersion, counts |-> Encode(counts)]

\* Export files, finished or not: lines of a minute, a key and its count.
ExportFiles ==
  [lines : SUBSET (Int \X Nat \X Nat), state : {"part", "cut", "whole"}]

ASSUME ModelValuesAssumption == NoFile \notin ExportFiles /\ Earlier \notin ExportFiles

VARIABLES
  disk,         \* the content of each file
  old_row,      \* the row of OldMinute
  ui,           \* where the UI thread stands; "off" without a process
  export_range, \* the arguments of ExportCsv
  report,       \* the message box that ended the last export
  \* History.
  pressed,      \* the presses of each minute while there was a recorder
  asked,        \* `pressed' when the export was asked for
  exposed,      \* minutes some of whose presses the recorder may have lost
  exports, faults, kills, edits, set_backs

files   == <<disk, ui>>
export  == <<export_range, report, asked>>
history == <<pressed, exposed>>
bounds  == <<exports, faults, kills, edits, set_backs>>
vars    == <<ledger, files, old_row, export, history, bounds>>

Init ==
  /\ LedgerInit
  /\ disk \in {[p \in Paths |-> IF p = Csv THEN c ELSE NoFile] : c \in {NoFile, Earlier}}
  /\ old_row = NewRow(ZeroCounts)
  /\ ui = "off"
  /\ export_range = [first |-> 0, second |-> 0]
  /\ report = "none"
  /\ pressed = [m \in Minutes |-> ZeroCounts]
  /\ asked = pressed
  /\ exposed = {}
  /\ exports = 0 /\ faults = 0 /\ kills = 0 /\ edits = 0 /\ set_backs = 0

\* What is counted of the presses of a minute: a counter stays at UINT32_MAX.
Capped(n) == IF n < MaxCount THEN n ELSE MaxCount
Counted(presses) == [k \in Keys |-> Capped(presses[k])]

\* The bound of faults, kills, edits and set backs together.
Mishap == faults + kills + edits + set_backs < MaxMishaps

Fault == Mishap /\ faults < MaxFaults /\ faults' = faults + 1

Goto(from, to) == ui = from /\ ui' = to

Write(path, content) == disk' = [disk EXCEPT ![path] = content]

-----------------------------------------------------------------------------
(***************************************************************************)
(* InitializeStorage: LoadOrCreate, Initialize, Create.  An exception ends *)
(* in the message box of RunApplication, and the window goes on: "stuck".  *)
(***************************************************************************)
Empty_ == [f \in Fields |-> Absent]

Launch ==
  /\ Goto("off", "look")
  /\ UNCHANGED <<ledger, disk, old_row, export, history, bounds>>

\* Mutant: the file is written anew at every start.
ExistsNever == FALSE

\* std::filesystem::exists.
Exists == disk[Settings] # NoFile

Look ==
  /\ Goto("look", IF Exists THEN "read" ELSE "create")
  /\ UNCHANGED <<ledger, disk, old_row, export, history, bounds>>

\* Save: the temporary file is opened, ...
CreateTemporary ==
  /\ Goto("create", "write")
  /\ Write(Tmp(Settings), Empty_)
  /\ UNCHANGED <<ledger, old_row, export, history, bounds>>

\* ... written, perhaps not to the end, since the stream is never asked, ...
WriteSettings ==
  /\ Goto("write", "remove")
  /\ \/ Write(Tmp(Settings), Defaults) /\ UNCHANGED faults
     \/ Fault /\ \E rest \in Truncations(Defaults) : Write(Tmp(Settings), rest)
  /\ UNCHANGED <<ledger, old_row, export, history, exports, kills, edits, set_backs>>

\* ... the old file removed, whether that works or not, ...
RemoveSettings ==
  /\ Goto("remove", "rename")
  /\ Write(Settings, NoFile)
  /\ UNCHANGED <<ledger, old_row, export, history, bounds>>

\* ... and the temporary one renamed.  The defaults are in use.
RenameSettings ==
  /\ Goto("rename", "open")
  /\ disk' = [disk EXCEPT ![Settings] = disk[Tmp(Settings)], ![Tmp(Settings)] = NoFile]
  /\ UNCHANGED <<ledger, old_row, export, history, bounds>>

ReadSettings ==
  /\ Goto("read", IF Loads(disk[Settings]) THEN "open" ELSE "stuck")
  /\ UNCHANGED <<ledger, disk, old_row, export, history, bounds>>

\* Mutant: no recorder is created.
OpenRepositoryOnly ==
  /\ Goto("open", "idle")
  /\ UNCHANGED <<ledger, disk, old_row, export, history, bounds>>

\* Initialize and Create.
OpenStorage ==
  /\ Goto("open", "idle")
  /\ Open
  /\ UNCHANGED <<disk, old_row, export, history, bounds>>

\* A call among these throws.
StartThrows ==
  /\ ui \in {"create", "rename", "read", "open"}
  /\ ui' = "stuck"
  /\ Fault
  /\ UNCHANGED <<ledger, disk, old_row, export, history, exports, kills, edits,
                 set_backs>>

-----------------------------------------------------------------------------
(***************************************************************************)
(* The export command and ExportCsv.  The save dialog is closed: a range   *)
(* and a path are given.  No press is handled before the handler returns.  *)
(***************************************************************************)
RowsRead(path, lines, state) == Write(path, [lines |-> lines, state |-> state])

Within(m, r) == r.first <= m /\ m < r.second
InRange(m) == Within(m, export_range)

\* What the old minute holds is left open until an export reads it.
Ask(r) ==
  /\ exports < MaxExports
  /\ old_row' \in IF Within(OldMinute, r) THEN OldRows ELSE {old_row}
  /\ exports' = exports + 1
  /\ export_range' = r
  /\ asked' = pressed

\* Mutant: nothing is flushed.
AskUnflushed(r) ==
  /\ Goto("idle", "export open")
  /\ Ask(r)
  /\ report' = "none"
  /\ UNCHANGED <<ledger, disk, history, faults, kills, edits, set_backs>>

\* FlushNow, first of all ...
AskForExport(r) ==
  /\ Goto("idle", "export open")
  /\ Ask(r)
  /\ FlushNow
  /\ report' = "none"
  /\ UNCHANGED <<disk, history, faults, kills, edits, set_backs>>

\* ... may throw.
FlushThrows(r) ==
  /\ ui = "idle"
  /\ Ask(r)
  /\ Fault
  /\ FlushNowThrows
  /\ report' = "failed"
  /\ UNCHANGED <<files, history, kills, edits, set_backs>>

OpenCsv ==
  /\ Goto("export open", "export write")
  /\ RowsRead(Tmp(Csv), {}, "part")
  /\ UNCHANGED <<ledger, old_row, export, history, bounds>>

\* The minutes of the range that have a row, and what it holds.
Selected == {m \in Minutes : InRange(m) /\ rows[m] # ZeroCounts}
              \cup IF InRange(OldMinute) THEN {OldMinute} ELSE {}
Row(m) == IF m = OldMinute THEN old_row ELSE NewRow(rows[m])

\* A line for each key a minute counts.
Lines(m) ==
  LET counts == Decode(Row(m).counts) IN {<<m, k, counts[k]>> : k \in NonZero(counts)}

\* ValidateKeyMapVersion and Decode do not throw.
Readable(m) ==
  /\ Row(m).keymap_version \in kMinimumSupportedKeyMapVersion .. kKeyMapVersion
  /\ Accepts(Row(m).counts)

\* The SELECT reads what is committed at its first step, and each row is decoded
\* and written; the stream is never asked here, either.  (Which lines a file cut
\* short has makes no difference here.)
WriteCsv ==
  /\ Goto("export write", "export remove")
  /\ \A m \in Selected : Readable(m)
  /\ LET lines == UNION {Lines(m) : m \in Selected} IN
     \/ RowsRead(Tmp(Csv), lines, "whole") /\ UNCHANGED faults
     \/ Fault /\ RowsRead(Tmp(Csv), {}, "cut")
  /\ UNCHANGED <<ledger, old_row, export, history, exports, kills, edits, set_backs>>

\* A row cannot be read.
RowThrows ==
  /\ Goto("export write", "idle")
  /\ \E m \in Selected : ~Readable(m)
  /\ report' = "failed"
  /\ UNCHANGED <<ledger, disk, old_row, export_range, asked, history, bounds>>

RemoveCsv ==
  /\ Goto("export remove", "export rename")
  /\ Write(Csv, NoFile)
  /\ UNCHANGED <<ledger, old_row, export, history, bounds>>

RenameCsv ==
  /\ Goto("export rename", "idle")
  /\ disk' = [disk EXCEPT ![Csv] = disk[Tmp(Csv)], ![Tmp(Csv)] = NoFile]
  /\ report' = "done"
  /\ UNCHANGED <<ledger, old_row, export_range, asked, history, bounds>>

\* A call throws: no file can be created, the database cannot be read, or the
\* destination is open in another program.
ExportThrows ==
  /\ ui \in {"export open", "export write", "export remove", "export rename"}
  /\ ui' = "idle"
  /\ Fault
  /\ report' = "failed"
  /\ UNCHANGED <<ledger, disk, old_row, export_range, asked, history, exports, kills,
                 edits, set_backs>>

-----------------------------------------------------------------------------
\* The recorder, the clock, the user and the system.

\* A minute that the clock was set back to starts from zero again: what it counted
\* before will be replaced.
Reentered == IF now # live.minute /\ pressed[now] # ZeroCounts THEN {now} ELSE {}

PressKey(k) ==
  /\ ui = "idle"
  /\ MapThenSumSet(LAMBDA m : MapThenSumSet(LAMBDA j : pressed[m][j], Keys), Minutes)
       < MaxPresses
  /\ Press(k)
  /\ pressed' = [pressed EXCEPT ![now][k] = @ + 1]
  /\ exposed' = exposed \cup Reentered
  /\ UNCHANGED <<files, old_row, export, bounds>>

SaveOne == Save /\ UNCHANGED <<files, old_row, export, history, bounds>>

\* A refused snapshot is gone; the live minute is saved again, others are not.
RefuseOne ==
  /\ Fault
  /\ Refuse
  /\ exposed' = exposed \cup ({Head(unsaved).minute} \ {live.minute})
  /\ UNCHANGED <<files, old_row, export, pressed, exports, kills, edits, set_backs>>

\* A bound of the model: the timer thread takes its snapshot when the line is empty.
TakeSnapshot ==
  /\ unsaved = << >>
  /\ Take
  /\ UNCHANGED <<files, old_row, export, history, bounds>>

\* One that the live bucket has overtaken may be saved last (StatisticsRecorder).
PutSnapshot ==
  /\ Put
  /\ exposed' = exposed \cup (IF held = live THEN {} ELSE {held.minute})
  /\ UNCHANGED <<files, old_row, export, pressed, bounds>>

\* A minute passes, or the clock is set back one.
ClockMoves ==
  /\ Tick
  /\ IF now' < now
     THEN Mishap /\ set_backs < MaxSetBacks /\ set_backs' = set_backs + 1
     ELSE UNCHANGED set_backs
  /\ UNCHANGED <<files, old_row, export, history, exports, faults, kills, edits>>

\* The process is killed.
Kill ==
  /\ ui # "off"
  /\ Mishap /\ kills < MaxKills
  /\ kills' = kills + 1
  /\ ui' = "off"
  /\ IF running THEN Close ELSE UNCHANGED ledger
  /\ exposed' = exposed \cup {m \in Minutes : rows[m] # Counted(pressed[m])}
  /\ UNCHANGED <<disk, old_row, export, pressed, exports, faults, edits, set_backs>>

\* ExitApplication: the destructor saves what is in line and the live bucket last.
\* What becomes of a snapshot the timer thread still has is left open.
Quit ==
  /\ ui \in {"idle", "stuck"}
  /\ ui' = "off"
  /\ rows' = Saved(IF HasInput(live) THEN Append(unsaved, live) ELSE unsaved)
  /\ running' = FALSE
  /\ live' = Empty
  /\ unsaved' = << >>
  /\ held' = None
  /\ exposed' = exposed \cup (IF held \in {live, None} THEN {} ELSE {held.minute})
  /\ UNCHANGED <<now, disk, old_row, export, pressed, bounds>>

\* The user edits the settings there are; they are read at the next start.
Edit(file) ==
  /\ ui = "off"
  /\ Mishap /\ edits < MaxEdits
  /\ edits' = edits + 1
  /\ disk[Settings] # NoFile
  /\ Write(Settings, file)
  /\ UNCHANGED <<ledger, old_row, ui, export, history, exports, faults, kills, set_backs>>

StartProgram ==
  \/ Launch \/ Look
  \/ CreateTemporary \/ WriteSettings \/ RemoveSettings \/ RenameSettings
  \/ ReadSettings \/ OpenStorage \/ StartThrows

ExportCsv == OpenCsv \/ WriteCsv \/ RowThrows \/ RemoveCsv \/ RenameCsv \/ ExportThrows

Next ==
  \/ StartProgram
  \/ \E r \in Ranges : AskForExport(r) \/ FlushThrows(r)
  \/ ExportCsv
  \/ \E k \in InUse : PressKey(k)
  \/ SaveOne \/ RefuseOne
  \/ TakeSnapshot \/ PutSnapshot
  \/ ClockMoves
  \/ Quit \/ Kill
  \/ \E file \in GoodFiles \cup BadFiles : Edit(file)

Spec == Init /\ [][Next]_vars

-----------------------------------------------------------------------------
Exported(content) == content \notin {NoFile, Earlier}

\* The recorder runs when InitializeStorage has returned, files have the form of
\* what was written to them, and no blob in the database is mistaken for another.
TypeOK ==
  /\ running <=> ui \in {"idle", "export open", "export write", "export remove",
                         "export rename"}
  /\ \A p \in {Settings, Tmp(Settings)} : disk[p] = NoFile \/ DOMAIN disk[p] = Fields
  /\ \A p \in {Csv, Tmp(Csv)} :
       Exported(disk[p]) => disk[p].state \in {"part", "cut", "whole"}
  /\ report \in {"none", "failed", "done"}

\* Every blob in the database, of this release or an earlier one, sound or
\* damaged, is read for exactly what it encodes, or refused.
BlobsReadExactly ==
  /\ AcceptedIsEncoding(old_row.counts)
  /\ \A m \in Minutes :
       LET order == InOrder(NonZero(rows[m]))
       IN  IsListing(order, NonZero(rows[m])) /\ ReadsBack(rows[m], order)

\* When the window says that an export is done, the destination lists, unless the
\* disk was full, every press made in the range before the command, as far as a
\* counter counts, live minutes included, and no other; a minute the recorder may
\* have lost presses of lists no more than was pressed.
ExportIsComplete ==
  report = "done" =>
    /\ Exported(disk[Csv])
    /\ disk[Csv].state = "whole" =>
         \A m \in {n \in Minutes : InRange(n)}, k \in Keys :
           LET listed == {line[3] : line \in {l \in disk[Csv].lines : l[1] = m /\ l[2] = k}}
           IN  IF m \in exposed
               THEN \A c \in listed : c <= asked[m][k]
               ELSE listed = {Capped(asked[m][k])} \ {0}

\* The destination is removed only while a finished export lies beside it, and
\* replaced only by one: no kill, exception or damaged row leaves a part of a file.
DestinationReplacedWhole ==
  [][disk'[Csv] # disk[Csv] =>
       IF disk'[Csv] = NoFile
       THEN Exported(disk[Tmp(Csv)]) /\ disk[Tmp(Csv)].state # "part"
       ELSE disk'[Csv].state # "part"]_vars

\* The settings a user has are never touched by the program, wherever it is
\* killed or fails.
UserSettingsKept ==
  [][disk[Settings] # NoFile /\ edits' = edits => disk'[Settings] = disk[Settings]]_vars

\* Whatever a kill leaves of settings.json and its temporary file, and whatever the
\* user makes of it within its rules, the next start reads it: only a call that
\* failed, or an edit against the rules, keeps the recorder from being created.
StartsUnlessSpoiled == ui = "stuck" => faults > 0 \/ disk[Settings] \in BadFiles

\* The settings file is there whole or not at all.
SettingsWrittenWhole == edits = 0 => disk[Settings] \in {NoFile, Defaults}
=============================================================================
