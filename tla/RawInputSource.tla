--------------------------- MODULE RawInputSource ---------------------------
(***************************************************************************)
(* RawInputSource (src/app/raw_input.cpp) on top of KeyboardCounter, with  *)
(* the keyboards and the window's message queue as its environment.        *)
(*                                                                         *)
(* The UI thread handles one message at a time.  Input waits in a queue;   *)
(* the key state GetAsyncKeyState reads changes at once, so it may be      *)
(* ahead of the queue.  Windows gives a timer message only when the queue  *)
(* is empty, but keys move between that moment and the handler's reads.    *)
(* A handler's reads of several keys are one step: each read decides about *)
(* another key, or whether the sampler goes on.                            *)
(***************************************************************************)
EXTENDS KeyboardCounter, PhysicalKeys, FiniteSets, Functions

CONSTANTS
  Devices,     \* the device handles of keyboards and mice, none of them 0
  Layouts,     \* which keys are on which device: one of these, for a whole run
  Lossy,       \* keys whose messages the system may keep when it switches tasks
  Repeating,   \* keys that repeat when held
  \* The bounds of a run:
  MaxPresses,  \* presses, in all
  MaxQueue,    \* messages waiting when a key moves
  MaxRare      \* repeats, lost messages, pauses, clears and removals, in all

Alts == {"LeftAlt", "RightAlt"}

\* The keys ReconcileSystemShortcutState watches.
SystemKeys == {"Tab"} \cup Alts

ASSUME InputAssumption ==
  /\ PhysicalKeys \subseteq KeyIds
  /\ IsFiniteSet(Devices) /\ 0 \notin Devices
  /\ Layouts \subseteq [Devices -> SUBSET PhysicalKeys]
  /\ Lossy \subseteq SystemKeys
  /\ Repeating \subseteq PhysicalKeys \ (MouseButtons \cup ReleasesAtOnce)
  /\ {MaxPresses, MaxQueue, MaxRare} \subseteq Nat

VARIABLES
  \* The keyboards, the mice and Windows.
  layout,      \* the keys or buttons of each device
  plugged,     \* the devices present
  down,        \* the keys held on each
  async,       \* the system keys GetAsyncKeyState reports down
  queue,       \* WM_INPUT and WM_INPUT_DEVICE_CHANGE messages
  \* RawInputSource and its timers.
  sampling,    \* the Alt sampling timer is set
  sampled_alt_tab_down,
  ui,          \* "idle", or the timer message that has been taken
  \* History: for each of PressedKeys, ...
  presses,     \* presses
  recorded,    \* calls of counted_sink_ (RecordKeyPress)
  paused_over, \* presses whose make arrived while paused
  early,       \* releases of a system key ahead of its messages
  \* ... and in all.
  repeats, lost, pauses, clears

windows == <<layout, plugged, down, async, queue>>
source  == <<sampling, sampled_alt_tab_down, ui>>
tally   == <<recorded, paused_over, early>>
bounds  == <<presses, repeats, lost, pauses, clears>>
vars    == <<counter, windows, source, tally, bounds>>

\* Keys as they count when held on a device.
HeldAs(d, keys) == {PressedKey(d, k) : k \in keys}
PressedKeys == UNION {HeldAs(d, layout[d]) : d \in Devices}

Init ==
  /\ CounterInit
  /\ layout \in Layouts
  /\ plugged = Devices
  /\ down = [d \in Devices |-> {}]
  /\ async = {}
  /\ queue = << >>
  /\ sampling = FALSE
  /\ sampled_alt_tab_down = FALSE
  /\ ui = "idle"
  /\ presses = [p \in PressedKeys |-> 0]
  /\ recorded = presses
  /\ paused_over = presses
  /\ early = presses
  /\ repeats = 0
  /\ lost = 0
  /\ pauses = 0
  /\ clears = 0

-----------------------------------------------------------------------------
\* The environment: keys move, and Windows queues what it does not keep.

Rare == repeats + lost + pauses + clears + Cardinality(Devices \ plugged) < MaxRare

Removal(d) == [kind |-> "removal", device |-> d]
Click(d, downs, ups) == [kind |-> "mouse", device |-> d, downs |-> downs, ups |-> ups]
Messages(d, signal, is_break) ==
  [i \in DOMAIN signal |->
     [kind |-> "input", device |-> d, event |-> signal[i], is_break |-> is_break]]

\* What a key sends when it goes down, and up.
PressMessages(d, k, signal) ==
  Messages(d, signal, FALSE) \o
    IF k \in ReleasesAtOnce THEN Messages(d, signal, TRUE) ELSE << >>
ReleaseMessages(d, k, signal) ==
  IF k \in ReleasesAtOnce THEN << >> ELSE Messages(d, signal, TRUE)

\* The messages of a key that moves are queued, or lost.
Deliver(k, messages) ==
  \/ queue' = queue \o messages /\ UNCHANGED lost
  \/ /\ k \in Lossy
     /\ Rare
     /\ lost' = lost + 1
     /\ UNCHANGED queue

PressKey(d, k) ==
  /\ d \in plugged
  /\ k \in layout[d] \ (down[d] \cup MouseButtons)
  /\ SumFunction(presses) < MaxPresses
  /\ Len(queue) < MaxQueue
  /\ down' = [down EXCEPT ![d] = @ \cup {k}]
  /\ async' = async \cup ({k} \cap SystemKeys)
  /\ \E signal \in Signals[k] : Deliver(k, PressMessages(d, k, signal))
  /\ presses' = Increased(presses, {PressedKey(d, k)})
  /\ UNCHANGED <<counter, layout, plugged, source, tally, repeats, pauses, clears>>

RepeatKey(d, k) ==
  /\ k \in down[d] \cap Repeating
  /\ Rare
  /\ Len(queue) < MaxQueue
  /\ repeats' = repeats + 1
  /\ async' = async \cup ({k} \cap SystemKeys)
  /\ \E signal \in Signals[k] : queue' = queue \o Messages(d, signal, FALSE)
  /\ UNCHANGED <<counter, layout, plugged, down, source, tally, presses, lost, pauses,
                 clears>>

LetGo(d, k) ==
  /\ k \in down[d] \ MouseButtons
  /\ Len(queue) < MaxQueue
  /\ down' = [down EXCEPT ![d] = @ \ {k}]
  /\ async' = async \ {k}
  /\ \E signal \in Signals[k] : Deliver(k, ReleaseMessages(d, k, signal))
  /\ UNCHANGED <<counter, layout, plugged, source, tally, presses, repeats, pauses, clears>>

\* Buttons of a mouse go up or down, both at once perhaps.
MoveButtons(d, buttons) ==
  LET downs == buttons \ down[d]
      ups   == buttons \cap down[d] IN
  /\ d \in plugged
  /\ buttons # {} /\ buttons \subseteq layout[d] \cap MouseButtons
  /\ SumFunction(presses) + Cardinality(downs) <= MaxPresses
  /\ Len(queue) < MaxQueue
  /\ down' = [down EXCEPT ![d] = (@ \cup downs) \ ups]
  /\ presses' = Increased(presses, HeldAs(d, downs))
  /\ queue' = Append(queue, Click(d, downs, ups))
  /\ UNCHANGED <<counter, layout, plugged, async, source, tally, repeats, lost, pauses,
                 clears>>

\* A device is pulled out; for GetAsyncKeyState, keys held on it may stay down.
Unplug(d) ==
  /\ d \in plugged
  /\ Rare
  /\ Len(queue) < MaxQueue
  /\ async' \in {async, async \ down[d]}
  /\ plugged' = plugged \ {d}
  /\ down' = [down EXCEPT ![d] = {}]
  /\ queue' = Append(queue, Removal(d))
  /\ UNCHANGED <<counter, layout, source, tally, bounds>>

-----------------------------------------------------------------------------
\* The UI thread.

AltDown == async \cap Alts # {}
AltTabDown == AltDown /\ "Tab" \in async

\* The KeyId ProcessRawInput takes a message to be of, if any.
KeyOf(m) ==
  IF m.kind # "input" \/ m.event.make_code = \hFF \/ m.event.virtual_key >= \hFF
  THEN NoKey
  ELSE Normalize(m.event)

\* A keyboard's message is next, of a key in this set.
NextIsOf(keys) == ui = "idle" /\ queue # << >> /\ Head(queue).kind = "input"
                 /\ KeyOf(Head(queue)) \in keys

\* counted_sink_, for the keys of those that go down which ProcessButton counted; and
\* those it passed over.
PassedOver(d, keys) == {k \in keys : is_paused /\ PressedKey(d, k) \notin pressed}
Tally(d, keys) ==
  /\ recorded' = Increased(recorded, HeldAs(d, Counted(d, keys)))
  /\ paused_over' = Increased(paused_over, HeldAs(d, PassedOver(d, keys)))

\* Of the keys of a set, those that count as held, and are: on a device, by what is in
\* the queue, or for GetAsyncKeyState.
MakeQueued(d, k) ==
  \E i \in DOMAIN queue :
    queue[i].device = d /\ KeyOf(queue[i]) = k /\ ~queue[i].is_break
Ahead(keys) ==
  {p \in pressed :
     /\ p[2] \in keys
     /\ \/ p[2] \in async
        \/ \E d \in Devices : PressedKey(d, p[2]) = p
                              /\ (p[2] \in down[d] \/ MakeQueued(d, p[2]))}
CountEarly(keys) == early' = Increased(early, Ahead(keys))

\* A message of no key is dropped.
DropInput ==
  /\ NextIsOf({NoKey})
  /\ queue' = Tail(queue)
  /\ UNCHANGED <<counter, layout, plugged, down, async, source, tally, bounds>>

\* A message of a key other than Alt: ProcessRawInput, UpdateSystemShortcutSampling
\* returning at once.
HandleKey ==
  LET m == Head(queue) IN
  /\ NextIsOf(PhysicalKeys \ Alts)
  /\ ProcessButton(m.device, KeyOf(m), m.is_break)
  /\ Tally(m.device, IF m.is_break THEN {} ELSE {KeyOf(m)})
  /\ queue' = Tail(queue)
  /\ UNCHANGED <<layout, plugged, down, async, source, early, bounds>>

\* The make of Alt sets the sampling timer.
HandleAltMake ==
  LET m == Head(queue) IN
  /\ NextIsOf(Alts) /\ ~m.is_break
  /\ ProcessButton(m.device, KeyOf(m), FALSE)
  /\ Tally(m.device, {KeyOf(m)})
  /\ sampling' = TRUE
  /\ queue' = Tail(queue)
  /\ UNCHANGED <<layout, plugged, down, async, sampled_alt_tab_down, ui, early, bounds>>

\* Its break stops the timer, unless an Alt is down again, and releases the Tab
\* the sampler had seen.
HandleAltBreak ==
  LET m        == Head(queue)
      released == IF sampled_alt_tab_down /\ ~AltDown THEN {"Tab"} ELSE {} IN
  /\ NextIsOf(Alts) /\ m.is_break
  /\ sampling' = (sampling /\ AltDown)
  /\ sampled_alt_tab_down' = (sampled_alt_tab_down /\ AltDown)
  /\ pressed' = pressed \ ({PressedKey(m.device, KeyOf(m))}
                             \cup {PressedKey(0, k) : k \in released})
  /\ queue' = Tail(queue)
  /\ CountEarly(released)
  /\ UNCHANGED <<counts, is_paused, layout, plugged, down, async, ui, recorded, paused_over,
                 bounds>>

\* A mouse message: what goes down, and what goes up.
HandleMouse ==
  LET m == Head(queue) IN
  /\ ui = "idle" /\ queue # << >> /\ m.kind = "mouse"
  /\ pressed' = (pressed \cup HeldAs(m.device, m.downs)) \ HeldAs(m.device, m.ups)
  /\ counts' = Increased(counts, Counted(m.device, m.downs))
  /\ Tally(m.device, m.downs)
  /\ queue' = Tail(queue)
  /\ UNCHANGED <<is_paused, layout, plugged, down, async, source, early, bounds>>

\* WM_INPUT_DEVICE_CHANGE.
HandleRemoval ==
  LET m == Head(queue) IN
  /\ ui = "idle" /\ queue # << >> /\ m.kind = "removal"
  /\ RemoveDevice(m.device)
  /\ queue' = Tail(queue)
  /\ UNCHANGED <<layout, plugged, down, async, source, tally, bounds>>

\* A timer message is taken; nothing else is waiting.
TakeTimer(timer) ==
  /\ ui = "idle"
  /\ queue = << >>
  /\ timer = "sample" => sampling
  /\ ui' = timer
  /\ UNCHANGED <<counter, windows, sampling, sampled_alt_tab_down, tally, bounds>>

\* OnAltSamplingTick, no Alt is down.
SampleEnds ==
  /\ ui = "sample"
  /\ ~AltDown
  /\ sampling' = FALSE
  /\ sampled_alt_tab_down' = FALSE
  /\ IF sampled_alt_tab_down
     THEN ProcessButton(0, "Tab", TRUE) /\ CountEarly({"Tab"})
     ELSE UNCHANGED <<counter, early>>
  /\ ui' = "idle"
  /\ UNCHANGED <<windows, recorded, paused_over, bounds>>

\* OnAltSamplingTick, an Alt is down: a change of Tab is processed.
Sample ==
  /\ ui = "sample"
  /\ AltDown
  /\ sampled_alt_tab_down' = AltTabDown
  /\ IF AltTabDown # sampled_alt_tab_down
     THEN /\ ProcessButton(0, "Tab", ~AltTabDown)
          /\ Tally(0, IF AltTabDown THEN {"Tab"} ELSE {})
          /\ CountEarly(IF AltTabDown THEN {} ELSE {"Tab"})
     ELSE UNCHANGED <<counter, tally>>
  /\ ui' = "idle"
  /\ UNCHANGED <<windows, sampling, bounds>>

\* Mutant: Tab is not reconciled.
WatchedAlts == Alts

\* The keys ReleaseIfPhysicallyUp is called for.
Watched == SystemKeys

\* OnRefreshTick calls ReconcileSystemShortcutState.
Reconcile ==
  /\ ui = "refresh"
  /\ ReleaseKeys(Watched \ async)
  /\ CountEarly(Watched \ async)
  /\ ui' = "idle"
  /\ UNCHANGED <<windows, sampling, sampled_alt_tab_down, recorded, paused_over, bounds>>

\* The buttons and the tray menu.
TogglePause ==
  /\ ui = "idle"
  /\ is_paused \/ Rare
  /\ SetPaused(~is_paused)
  /\ pauses' = IF is_paused THEN pauses ELSE pauses + 1
  /\ UNCHANGED <<windows, source, tally, presses, repeats, lost, clears>>

Clear ==
  /\ ui = "idle"
  /\ Rare
  /\ ClearCounts
  /\ clears' = clears + 1
  /\ UNCHANGED <<windows, source, tally, presses, repeats, lost, pauses>>

-----------------------------------------------------------------------------
HandleInput ==
  \/ DropInput \/ HandleKey \/ HandleAltMake \/ HandleAltBreak
  \/ HandleMouse
  \/ HandleRemoval
HandleTimer == SampleEnds \/ Sample \/ Reconcile

Next ==
  \/ \E d \in Devices, k \in PhysicalKeys : PressKey(d, k) \/ RepeatKey(d, k) \/ LetGo(d, k)
  \/ \E d \in Devices, buttons \in SUBSET MouseButtons : MoveButtons(d, buttons)
  \/ \E d \in Devices : Unplug(d)
  \/ HandleInput
  \/ \E timer \in {"sample", "refresh"} : TakeTimer(timer)
  \/ HandleTimer
  \/ TogglePause
  \/ Clear

\* The UI thread goes on; both timers fire again and again.
Fairness ==
  /\ WF_vars(HandleInput)
  /\ WF_vars(HandleTimer)
  /\ \A timer \in {"sample", "refresh"} : SF_vars(TakeTimer(timer))

Spec == Init /\ [][Next]_vars /\ Fairness

-----------------------------------------------------------------------------
\* Only keys of the device, or Tab under device 0, count as held, counters are
\* numbers, and a message that is waiting is of no key or of one of its device.
TypeOK ==
  /\ \A p \in pressed : IF p[1] = 0 THEN p[2] = "Tab" ELSE p[2] \in layout[p[1]] \ {"Tab"}
  /\ counts \in [KeyIds -> Nat]
  /\ \A k \in KeyIds : counts[k] > 0 => \E d \in Devices : k \in layout[d]
  /\ is_paused \in BOOLEAN
  /\ layout \in Layouts
  /\ plugged \subseteq Devices
  /\ \A d \in Devices : down[d] \subseteq layout[d]
  /\ async \subseteq SystemKeys
  /\ \A i \in DOMAIN queue : KeyOf(queue[i]) \in layout[queue[i].device] \cup {NoKey}
  /\ sampling \in BOOLEAN
  /\ sampled_alt_tab_down \in BOOLEAN
  /\ ui \in {"idle", "sample", "refresh"}

\* What became of the presses of a key on a device.
Accounted(p) == recorded[p] + paused_over[p]

\* No press is recorded twice, as another key, for another keyboard, or although it was
\* made while paused, whether the queue, the sampler or both report it and whatever
\* repeats; a clear lets a key that is held be recorded once more, and so does a system
\* key's release ahead of its messages.
NoDoubleCount ==
  \A p \in PressedKeys : Accounted(p) <= presses[p] + clears + early[p]

\* When the queue has been worked off, every press has been recorded, and for the
\* key it was of, unless it was made while paused; messages Windows kept cost one
\* press at most, be it the make itself or the break that has to come before the
\* next make.  (Of Tab, one keyboard's: two share the key.)
OnOneKeyboard(k) == \A d, e \in Devices : k \in layout[d] \cap layout[e] => d = e
EveryPressCounted ==
  queue = << >> =>
    \A p \in PressedKeys :
      (p[2] = "Tab" => OnOneKeyboard("Tab")) => Accounted(p) + lost >= presses[p]

\* When the queue has been worked off, whatever counts as held is held on a device
\* that is there, unless a message of it was kept; but a keyboard that is pulled
\* out may leave Tab held, until the timers see that it is up.
HeldAreDown ==
  queue = << >> =>
    \A p \in pressed :
      \/ p[2] \in Lossy /\ lost > 0
      \/ IF p[1] = 0 THEN plugged # Devices \/ \E d \in Devices : "Tab" \in down[d]
                     ELSE p[1] \in plugged /\ p[2] \in down[p[1]]

\* A system key whose break Windows kept is released by the refresh timer: it
\* does not count as held for ever.
StuckKeysRecover ==
  \A k \in SystemKeys :
    k \notin async ~> k \in async \/ \A p \in pressed : p[2] # k

\* Pressing Alt and Tab, with the sampler and raw input both reporting, counts each
\* press once.
OncePerPress == \A p \in PressedKeys : Accounted(p) <= presses[p] + clears
=============================================================================
