---------------------------- MODULE PhysicalKeys ----------------------------
(***************************************************************************)
(* What keys send, as Windows reports it in raw input: the environment of  *)
(* KeyNormalizer.  Only keys whose events are not told apart by the make   *)
(* code alone are listed, and a few that share a make code with them.      *)
(***************************************************************************)
EXTENDS KeyNormalizer

Event(make_code, flags, vk) == [make_code |-> make_code, flags |-> flags, virtual_key |-> vk]

\* The left shift that extended keys send ahead of themselves.
FakeShift == Event(\h2A, {"E0"}, \hFF)

Plain(make_code, vk)    == {<<Event(make_code, {}, vk)>>}
Extended(make_code, vk) == {<<Event(make_code, {"E0"}, vk)>>}

\* A key of the numeric pad has a virtual key for each state of NumLock, which may
\* change while it is held; a navigation key sends a shift first in one of them.
Numpad(make_code, vks) == UNION {Plain(make_code, vk) : vk \in vks}
Navigation(make_code, vk) ==
  Extended(make_code, vk) \cup {<<FakeShift, Event(make_code, {"E0"}, vk)>>}

KeyboardKeys == {"A", "Tab", "LeftAlt", "RightAlt", "LeftControl", "RightControl", "LeftShift",
  "Enter", "NumpadEnter", "Numpad7", "Home", "B", "VolumeUp", "NumLock", "F13", "PrintScreen",
  "Pause"}

\* The events of a press or a release of a key: one of these sequences.
Signals == [k \in KeyboardKeys |->
  CASE k = "A"           -> Plain(\h1E, \h41)
    [] k = "Tab"         -> Plain(\h0F, \h09)
    [] k = "LeftAlt"     -> Plain(\h38, \h12)
    [] k = "RightAlt"    -> Extended(\h38, \h12)
    [] k = "LeftControl" -> Plain(\h1D, \h11)
    [] k = "RightControl" -> Extended(\h1D, \h11)
    [] k = "LeftShift"   -> Plain(\h2A, \h10)
    [] k = "Enter"       -> Plain(\h1C, \h0D)
    [] k = "NumpadEnter" -> Extended(\h1C, \h0D)
    [] k = "Numpad7"     -> Numpad(\h47, {\h67, \h24})
    [] k = "Home"        -> Navigation(\h47, \h24)
    [] k = "B"           -> Plain(\h30, \h42)
    [] k = "VolumeUp"    -> Extended(\h30, \hAF)
    [] k = "NumLock"     -> Plain(\h45, \h90)
    [] k = "F13"         -> Plain(\h64, \h7C)
    \* With a shift ahead, or, while Alt is held, as SysRq.
    [] k = "PrintScreen" -> {<<FakeShift, Event(\h37, {"E0"}, \h2C)>>,
                             <<Event(\h54, {}, \h2C)>>}
    [] k = "Pause"       -> {<<Event(\h1D, {"E1"}, \h13), Event(\h45, {}, \hFF)>>}]

\* Pause sends its release together with its press.
ReleasesAtOnce == {"Pause"}

MouseButtons == {"MouseLeftButton", "MouseRightButton"}
PhysicalKeys == KeyboardKeys \cup MouseButtons
=============================================================================
