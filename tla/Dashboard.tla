------------------------------ MODULE Dashboard ------------------------------
(***************************************************************************)
(* The statistics window (src/app/application.cpp): the selected range,    *)
(* the stored counts it was last queried for, the live bucket added to     *)
(* them, and the history total.  It reads the recorder's live bucket and   *)
(* the database; both, and the line of snapshots between them, are         *)
(* MinuteLedger's.                                                         *)
(*                                                                         *)
(* Presses and every handler run on the UI thread, so the live bucket does *)
(* not change within a handler; the save thread commits between any two of *)
(* its queries.  A query is one step (MinuteStore takes it apart).         *)
(***************************************************************************)
EXTENDS MinuteLedger, Integers

CONSTANTS
  Presets,      \* the entries of the range box in play
  CustomRanges, \* the ranges the editors are set to
  DayLen,       \* minutes of a day
  RecentLen,    \* minutes of "Recent10"; of 7 and 30 days likewise
  \* The bounds of a run:
  MaxPresses,   \* presses, in all
  MaxSelects,   \* times the user picks a range or saves
  MaxRefusals,  \* saves the database refuses
  MaxErrors,    \* queries that throw
  MaxExits,     \* times the program ends
  MaxSetBacks,  \* times the clock is set back
  MaxMishaps    \* the last four together

ASSUME DashboardAssumption ==
  /\ IsFiniteSet(Keys)
  /\ Presets \subseteq {"Today", "Recent", "All", "Custom"}
  /\ \A r \in CustomRanges : {r.first, r.second} \subseteq Int
  /\ {DayLen, RecentLen} \subseteq Nat \ {0}
  /\ {MaxPresses, MaxSelects, MaxRefusals, MaxErrors, MaxExits, MaxSetBacks,
      MaxMishaps} \subseteq Nat

VARIABLES
  \* The window.
  preset,        \* g_range_preset
  range,         \* g_selected_range
  live_bucket,   \* g_live_bucket
  last_live,     \* g_last_live_counts
  stored,        \* g_selected_stored_counts
  shown,         \* g_selected_counts
  loaded,        \* the static flag of RefreshSelectedRange
  total,         \* the history total
  save_enabled,  \* the Save and Export buttons
  \* The handler that runs.
  ui, force, from_tick, partial,
  \* History.
  pressed,       \* the presses of each minute
  exposed,       \* minutes some of whose presses the recorder may have lost
  shown_range,   \* the range `stored' and `shown' are of
  selects, refusals, errors, exits, set_backs

window  == <<preset, range, live_bucket, last_live, stored, shown, loaded, total,
             save_enabled, shown_range>>
handler == <<ui, force, from_tick, partial>>
history == <<pressed, exposed>>
bounds  == <<selects, refusals, errors, exits, set_backs>>
vars    == <<ledger, window, handler, history, bounds>>

-----------------------------------------------------------------------------
NoMinute == MaxMinute + 1  \* no live bucket in the range
NoTotal  == -1             \* the total is "unavailable" or not yet loaded

Plus(c, d) == [k \in Keys |-> c[k] + d[k]]

\* The sum of a table of counts over some minutes, by key, and in all.
SumOver(table, minutes) ==
  [k \in Keys |-> SumFunctionOnSet([m \in Minutes |-> table[m][k]], minutes \cap Minutes)]
TotalCount(c) == SumFunction(c)

\* Mutant: the minute that is still live is not excluded.
QueryTotalAll(excluded) == TotalCount(SumOver(rows, Minutes))

\* QueryTotalCount: the row of the live minute is excluded.
QueryTotalCount(excluded) == TotalCount(SumOver(rows, Minutes \ {excluded}))

\* A minute lies in a range; its end is exclusive.
InRange(m, r) == r.first <= m /\ m < r.second

\* Where GetDataRange says data begins and ends, with the current minute.
Recorded == {m \in Minutes : rows[m] # ZeroCounts}

\* ResolvePreset.
Resolve(p) ==
  CASE p = "Today"  -> [first |-> (now \div DayLen) * DayLen, second |-> now + 1]
    [] p = "Recent" -> [first |-> now + 1 - RecentLen, second |-> now + 1]
    [] p = "All"    -> [first |-> Min(Recorded \cup {now}),
                        second |-> Max(Recorded \cup {now}) + 1]

\* Mutant: the whole range is queried, the live minute too.
PartsWhole(r) == <<r.first .. r.second - 1, {}>>

\* What RefreshSelectedRange queries: the range without the live minute.
Parts(r) ==
  IF InRange(live.minute, r)
  THEN <<r.first .. live.minute - 1, live.minute + 1 .. r.second - 1>>
  ELSE <<r.first .. r.second - 1, {}>>

-----------------------------------------------------------------------------
WindowInit ==
  /\ preset = "Today"
  /\ range = [first |-> 0, second |-> 0]
  /\ live_bucket = NoMinute
  /\ last_live = ZeroCounts
  /\ stored = ZeroCounts
  /\ shown = ZeroCounts
  /\ loaded = FALSE
  /\ total = NoTotal
  /\ save_enabled = FALSE
  /\ shown_range = [first |-> 0, second |-> 0]
  /\ ui = "idle"
  /\ force = FALSE
  /\ from_tick = FALSE
  /\ partial = ZeroCounts

Init ==
  /\ LedgerInit
  /\ WindowInit
  /\ pressed = [m \in Minutes |-> ZeroCounts]
  /\ exposed = {}
  /\ selects = 0
  /\ refusals = 0
  /\ errors = 0
  /\ exits = 0
  /\ set_backs = 0

\* RefreshStorageUi and RefreshSelectedRange begin, forced or not.  (The second's
\* argument is not needed any more once it has begun.)
RefreshStorage(forced, tick) ==
  /\ ui' = "total"
  /\ force' = forced
  /\ from_tick' = tick
  /\ partial' = ZeroCounts

RefreshRange(forced) ==
  /\ ui' = IF forced \/ ~loaded THEN "before" ELSE "idle"
  /\ force' = FALSE
  /\ from_tick' = FALSE
  /\ partial' = ZeroCounts

\* The bound of refusals, errors, exits and set backs together.
Mishap == refusals + errors + exits + set_backs < MaxMishaps

\* InitializeStorage, as far as nothing throws.
Start ==
  /\ Open
  /\ save_enabled' = TRUE
  /\ range' = Resolve(preset)
  /\ RefreshStorage(TRUE, FALSE)
  /\ UNCHANGED <<preset, live_bucket, last_live, stored, shown, loaded, total,
                 shown_range, history, bounds>>

-----------------------------------------------------------------------------
\* The user.

\* A minute that the clock was set back to starts from zero again: what it counted
\* before will be replaced.
Reentered == IF now # live.minute /\ pressed[now] # ZeroCounts THEN {now} ELSE {}

AllPresses == TotalCount(SumOver(pressed, Minutes))

PressKey(k) ==
  /\ ui = "idle"
  /\ AllPresses < MaxPresses
  /\ Press(k)
  /\ pressed' = [pressed EXCEPT ![now][k] = @ + 1]
  /\ exposed' = exposed \cup Reentered
  /\ UNCHANGED <<window, handler, bounds>>

\* The window handles a click.
Click ==
  /\ running
  /\ ui = "idle"
  /\ selects < MaxSelects
  /\ selects' = selects + 1

Displayed == <<live_bucket, last_live, stored, shown, loaded, total, save_enabled,
               shown_range>>

\* A preset is picked: resolved, and queried at once.
SelectPreset(p) ==
  /\ Click
  /\ p # "Custom"
  /\ preset' = p
  /\ range' = Resolve(p)
  /\ RefreshRange(TRUE)
  /\ UNCHANGED <<ledger, Displayed, history, refusals, errors, exits, set_backs>>

\* The custom entry is picked: its editors are enabled, the range remains.
SelectCustom ==
  /\ running
  /\ ui = "idle"
  /\ preset' = "Custom"
  /\ UNCHANGED <<ledger, range, Displayed, handler, history, bounds>>

\* ApplyCustomRange, with the editors enabled; it refuses an empty range.
ApplyCustomRange(r) ==
  /\ Click
  /\ preset = "Custom"
  /\ r.first < r.second
  /\ range' = r
  /\ RefreshRange(TRUE)
  /\ UNCHANGED <<ledger, preset, Displayed, history, refusals, errors, exits, set_backs>>

\* SaveNow, from the button or the tray: the UI thread waits in FlushNow, then
\* refreshes ...
SaveNow ==
  /\ Click
  /\ FlushNow
  /\ RefreshStorage(TRUE, FALSE)
  /\ UNCHANGED <<window, history, refusals, errors, exits, set_backs>>

\* ... or says in a message box that the save was refused.
SaveNowFails ==
  /\ Click
  /\ Mishap /\ refusals < MaxRefusals
  /\ refusals' = refusals + 1
  /\ FlushNowThrows
  /\ UNCHANGED <<window, handler, history, errors, exits, set_backs>>

-----------------------------------------------------------------------------
(***************************************************************************)
(* OnRefreshTick: RefreshLiveSelectedCounts, then RefreshStorageUi(false). *)
(***************************************************************************)
\* Mutant: the counts on display are taken over from the live bucket alone.
WithLiveAlone == live.counts

\* Mutant: the live counts are not added again.
WithoutLive == stored

\* The counts to display: stored and live.
WithLive == Plus(stored, live.counts)

\* A new minute has begun: RefreshStorageUi(true).
TickNewMinute ==
  /\ running /\ ui = "idle"
  /\ live_bucket \notin {NoMinute, live.minute}
  /\ RefreshStorage(TRUE, TRUE)
  /\ UNCHANGED <<ledger, window, history, bounds>>

\* The live minute, if it is on display and in the range, is brought up to date.
TickLive ==
  /\ running /\ ui = "idle"
  /\ live_bucket \in {NoMinute, live.minute}
  /\ IF live_bucket = live.minute /\ InRange(live.minute, range) /\ last_live # live.counts
     THEN shown' = WithLive /\ last_live' = live.counts
     ELSE UNCHANGED <<shown, last_live>>
  /\ ui' = "storage"
  /\ UNCHANGED <<ledger, preset, range, live_bucket, stored, loaded, total, save_enabled,
                 shown_range, force, from_tick, partial, history, bounds>>

\* RefreshStorageUi(false) returns at once within two seconds of the last time ...
Throttled ==
  /\ ui = "storage"
  /\ ui' = "idle"
  /\ UNCHANGED <<ledger, window, force, from_tick, partial, history, bounds>>

\* ... or goes on.
Due ==
  /\ ui = "storage"
  /\ RefreshStorage(FALSE, FALSE)
  /\ UNCHANGED <<ledger, window, history, bounds>>

-----------------------------------------------------------------------------
(***************************************************************************)
(* RefreshStorageUi, by its queries.                                       *)
(***************************************************************************)
\* Mutant: the live bucket is left out.
HistoryStored == QueryTotalCount(live.minute)

\* The history total: all other minutes, and the live one.
History == QueryTotalCount(live.minute) + TotalCount(live.counts)

ShowTotal ==
  /\ ui = "total"
  /\ total' = History
  /\ ui' = "resolve"
  /\ UNCHANGED <<ledger, preset, range, live_bucket, last_live, stored, shown, loaded,
                 save_enabled, shown_range, force, from_tick, partial, history, bounds>>

\* The preset is resolved anew and RefreshSelectedRange(force) called.
ResolveRange ==
  /\ ui = "resolve"
  /\ range' = IF preset = "Custom" THEN range ELSE Resolve(preset)
  /\ RefreshRange(force)
  /\ UNCHANGED <<ledger, preset, Displayed, history, bounds>>

\* The minutes before the live one, or the whole range without it.
QueryBefore ==
  /\ ui = "before"
  /\ partial' = SumOver(rows, Parts(range)[1])
  /\ ui' = "after"
  /\ UNCHANGED <<ledger, window, force, from_tick, history, bounds>>

\* The minutes after it; the result is kept and displayed.
QueryAfter ==
  LET counts == Plus(partial, SumOver(rows, Parts(range)[2])) IN
  /\ ui = "after"
  /\ stored' = counts
  /\ IF InRange(live.minute, range)
     THEN /\ live_bucket' = live.minute
          /\ last_live' = live.counts
          /\ shown' = Plus(counts, live.counts)
     ELSE /\ live_bucket' = NoMinute
          /\ last_live' = ZeroCounts
          /\ shown' = counts
  /\ loaded' = TRUE
  /\ shown_range' = range
  /\ ui' = "idle"
  /\ partial' = ZeroCounts
  /\ UNCHANGED <<ledger, preset, range, total, save_enabled, force, from_tick, history,
                 bounds>>

\* A query throws: RefreshStorageUi withdraws the total and disables the buttons.
\* Before it has set the time of the last refresh, the tick's second call tries
\* again; after, in GetDataRange, it does not.
StorageThrows ==
  /\ ui = "total" \/ (ui = "resolve" /\ preset = "All")
  /\ Mishap /\ errors < MaxErrors
  /\ errors' = errors + 1
  /\ total' = NoTotal
  /\ save_enabled' = FALSE
  /\ ui' = IF ui = "total" /\ from_tick THEN "storage" ELSE "idle"
  /\ force' = FALSE
  /\ from_tick' = FALSE
  /\ UNCHANGED <<ledger, preset, range, live_bucket, last_live, stored, shown, loaded,
                 shown_range, partial, history, selects, refusals,
                 exits, set_backs>>

\* RefreshSelectedRange leaves everything as it was.
RangeThrows ==
  /\ ui \in {"before", "after"}
  /\ Mishap /\ errors < MaxErrors
  /\ errors' = errors + 1
  /\ ui' = "idle"
  /\ partial' = ZeroCounts
  /\ UNCHANGED <<ledger, window, force, from_tick, history, selects, refusals, exits,
                 set_backs>>

-----------------------------------------------------------------------------
\* The recorder's threads, and the clock.

SaveOne == Save /\ UNCHANGED <<window, handler, history, bounds>>

RefuseOne ==
  /\ Mishap /\ refusals < MaxRefusals
  /\ refusals' = refusals + 1
  /\ Refuse
  /\ UNCHANGED <<window, handler, history, selects, errors, exits, set_backs>>

\* PeriodicFlush.  A bound of the model: the timer thread waits for an empty line.
PeriodicTake ==
  /\ Len(unsaved) = 0
  /\ Take
  /\ UNCHANGED <<window, handler, history, bounds>>

\* A snapshot of a minute that has ended, with more presses, may be saved last
\* (StatisticsRecorder).
Overtaken ==
  IF held.minute = live.minute \/ held.counts = pressed[held.minute]
  THEN {}
  ELSE {held.minute}

PeriodicPut ==
  /\ Len(unsaved) = 0
  /\ Put
  /\ exposed' = exposed \cup Overtaken
  /\ UNCHANGED <<window, handler, pressed, bounds>>

\* A minute passes, or the clock is set back one.
ClockMoves ==
  /\ Tick
  /\ IF now' < now
     THEN Mishap /\ set_backs < MaxSetBacks /\ set_backs' = set_backs + 1
     ELSE UNCHANGED set_backs
  /\ UNCHANGED <<window, handler, history, selects, refusals, errors, exits>>

\* ExitApplication, a kill, or an exception that leaves the window procedure.
Exit ==
  /\ Mishap /\ exits < MaxExits
  /\ exits' = exits + 1
  /\ Close
  /\ preset' = "Today"
  /\ range' = [first |-> 0, second |-> 0]
  /\ live_bucket' = NoMinute
  /\ last_live' = ZeroCounts
  /\ stored' = ZeroCounts
  /\ shown' = ZeroCounts
  /\ loaded' = FALSE
  /\ total' = NoTotal
  /\ save_enabled' = FALSE
  /\ shown_range' = [first |-> 0, second |-> 0]
  /\ ui' = "idle"
  /\ force' = FALSE
  /\ from_tick' = FALSE
  /\ partial' = ZeroCounts
  /\ UNCHANGED <<history, selects, refusals, errors, set_backs>>

OnRefreshTick == TickNewMinute \/ TickLive

\* A step of the handler that runs.
Handle ==
  \/ Throttled \/ Due
  \/ ShowTotal \/ ResolveRange \/ QueryBefore \/ QueryAfter
  \/ StorageThrows \/ RangeThrows

Next ==
  \/ Start
  \/ \E k \in Keys : PressKey(k)
  \/ \E p \in Presets : SelectPreset(p)
  \/ "Custom" \in Presets /\ SelectCustom
  \/ \E r \in CustomRanges : ApplyCustomRange(r)
  \/ SaveNow \/ SaveNowFails
  \/ OnRefreshTick
  \/ Handle
  \/ SaveOne \/ RefuseOne
  \/ PeriodicTake \/ PeriodicPut
  \/ ClockMoves
  \/ Exit

\* A handler that runs goes on, and the save thread too; the tick comes again and
\* again, whatever else the user does, and is not within two seconds of the last
\* refresh every time.
Fairness ==
  /\ WF_vars(Handle)
  /\ WF_vars(SaveOne)
  /\ SF_vars(OnRefreshTick)
  /\ SF_vars(Due)

Spec == Init /\ [][Next]_vars /\ Fairness

-----------------------------------------------------------------------------
PressesIn(r) == SumOver(pressed, r.first .. r.second - 1)

\* The live bucket on display lies in the range that was queried, and the counts
\* on display are the stored ones with those last seen of it.
TypeOK ==
  /\ preset \in {"Today", "Recent", "All", "Custom"}
  /\ ui \in {"idle", "storage", "total", "resolve", "before", "after"}
  /\ live_bucket # NoMinute => InRange(live_bucket, shown_range)
  /\ shown = Plus(stored, last_live)
  /\ total \in Nat \cup {NoTotal}
  /\ loaded \in BOOLEAN
  /\ save_enabled \in BOOLEAN

\* The history total never counts a press twice, whether its minute is live, on
\* its way to the database, saved, or saved and resumed after a restart.
TotalNeverAhead == total <= AllPresses

\* Nor do the counts on display exceed the presses of the range they were queried
\* for, whatever is saved between the queries and after.
ShownNeverAhead == \A k \in Keys : shown[k] <= PressesIn(shown_range)[k]

\* The presses of minutes the recorder cannot have lost any of.
SafePresses == TotalCount(SumOver(pressed, Minutes \ exposed))

\* These are all part of the history total in the end: a refresh that misses a
\* minute on its way to the database, or fails, is made good by a later one.  (Of an
\* exposed minute presses may be lost for good: an overtaken snapshot was saved last,
\* or the clock was set back.)
TotalCatchesUp ==
  \A n \in 1 .. MaxPresses :
    SafePresses >= n ~> total >= n \/ SafePresses < n \/ refusals > 0 \/ exits > 0

\* A press in the live minute reaches the display if the minute is on it.
LivePressShown ==
  \A k \in Keys, n \in 1 .. MaxPresses :
    live_bucket = live.minute /\ live.counts[k] >= n
      ~> shown[k] >= n \/ live_bucket # live.minute \/ ~InRange(live.minute, range)

\* While its minute lies in the selected range a press reaches the display.
PressInRangeShown ==
  \A k \in Keys, m \in Minutes :
    live.minute = m /\ live.counts[k] > 0 /\ InRange(m, range)
      ~> shown[k] > 0 \/ live.minute # m \/ ~InRange(m, range)
=============================================================================
