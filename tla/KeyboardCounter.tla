--------------------------- MODULE KeyboardCounter ---------------------------
(***************************************************************************)
(* KeyboardCounter (src/core/keyboard_counter.cpp): which keys are held,   *)
(* by device, and how often each was pressed since the last clear.  The    *)
(* operations are what a module that drives the counter builds its actions *)
(* of; all of them run on the UI thread.                                   *)
(***************************************************************************)
EXTENDS Naturals

CONSTANT KeyIds

VARIABLES pressed,   \* the PressedKeys: pairs of a device handle and a KeyId
          counts,    \* presses of each key since the last clear; total_count_ is their sum
          is_paused

counter == <<pressed, counts, is_paused>>

NoCounts == [k \in KeyIds |-> 0]

CounterInit ==
  /\ pressed = {}
  /\ counts = NoCounts
  /\ is_paused = FALSE

\* Mutant: a key's holder is the key alone, not the keyboard it is on.
SharedHolder(d, k) == <<0, k>>

\* Tab is tracked under device 0, where the Alt+Tab sampler reports it, too.
PressedKey(d, k) == <<IF k = "Tab" THEN 0 ELSE d, k>>

\* Mutant: a key that goes down while paused is not remembered as held.
AddUnlessPaused(d, k) == IF is_paused THEN pressed ELSE pressed \cup {PressedKey(d, k)}

\* pressed_.insert, paused or not.
Add(d, k) == pressed \cup {PressedKey(d, k)}

\* Counters, those of a set gone up by one.
Increased(counters, set) ==
  [x \in DOMAIN counters |-> IF x \in set THEN counters[x] + 1 ELSE counters[x]]

\* ProcessButton counts, of keys that go down, those that were not held, unless paused.
Counted(d, keys) == {k \in keys : PressedKey(d, k) \notin pressed /\ ~is_paused}

ProcessButton(d, k, is_break) ==
  /\ pressed' = IF is_break THEN pressed \ {PressedKey(d, k)} ELSE Add(d, k)
  /\ counts' = Increased(counts, IF is_break THEN {} ELSE Counted(d, {k}))
  /\ UNCHANGED is_paused

SetPaused(paused) ==
  /\ is_paused' = paused
  /\ UNCHANGED <<pressed, counts>>

\* ClearCounts(true), as the window calls it.
ClearCounts ==
  /\ counts' = NoCounts
  /\ pressed' = {}
  /\ UNCHANGED is_paused

\* Mutant: std::erase_if removes nothing.
HeldDespite(d) == pressed

\* The pressed keys without those of a device.
HeldWithout(d) == {p \in pressed : p[1] # d}

RemoveDevice(d) ==
  /\ pressed' = HeldWithout(d)
  /\ UNCHANGED <<counts, is_paused>>

\* ReleaseKey, for each key of a set.
ReleaseKeys(released) ==
  /\ pressed' = {p \in pressed : p[2] \notin released}
  /\ UNCHANGED <<counts, is_paused>>
=============================================================================
