-------------------------- MODULE MCRawInputSource --------------------------
(***************************************************************************)
(* Small instances of RawInputSource for TLC.  Device handles are numbers, *)
(* because Tab is tracked under 0; keys are strings, because the code      *)
(* singles some of them out.                                               *)
(***************************************************************************)
EXTENDS RawInputSource

MCKeyIds == PhysicalKeys

\* A key on two keyboards, the buttons of a mouse, Alt and Tab, and two keys of one
\* keyboard whose events share a make code or a virtual key.
MCLayouts ==
  {<<{"A"}, {"A"}>>, <<{}, MouseButtons>>, <<{"Tab", "RightAlt"}, {}>>}
    \cup {<<pair, {}>> : pair \in {
            {"LeftControl", "RightControl"}, {"Enter", "NumpadEnter"},
            {"Numpad7", "Home"}, {"B", "VolumeUp"}, {"LeftShift", "PrintScreen"},
            {"NumLock", "Pause"}, {"F13"}}}

MCAltTab == {<<{"Tab", "LeftAlt"}>>}
=============================================================================
