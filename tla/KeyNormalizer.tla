---------------------------- MODULE KeyNormalizer ----------------------------
(***************************************************************************)
(* KeyNormalizer (src/core/key_normalizer.cpp): which KeyId a raw keyboard *)
(* event is of.  A KeyId is its name, NoKey is std::nullopt; an event is a *)
(* record of its make code, the set of its flags and its virtual key.      *)
(***************************************************************************)
EXTENDS Integers, Sequences, TLC

NoKey == "no key"

kVkPause    == \h13
kVkSnapshot == \h2C

\* Mutant: the range begins one too late.
kVkF13Late == \h7D

kVkF13 == \h7C
kVkF24 == \h87

\* The KeyIds in the order of the enumeration: from F13, and from BrowserBack.
FunctionKeys == <<"F13", "F14", "F15", "F16", "F17", "F18", "F19", "F20", "F21", "F22", "F23",
                  "F24">>
MediaKeys == <<"BrowserBack", "BrowserForward", "BrowserRefresh", "BrowserStop",
  "BrowserSearch", "BrowserFavorites", "BrowserHome", "VolumeMute", "VolumeDown", "VolumeUp",
  "MediaNext", "MediaPrevious", "MediaStop", "MediaPlayPause", "LaunchMail", "LaunchMedia",
  "LaunchApplication1", "LaunchApplication2">>

NormalizeExtendedVirtualKey(vk) ==
  IF vk = \h5F THEN "Sleep"
  ELSE IF vk \in \hA6 .. \hB7 THEN MediaKeys[vk - \hA6 + 1]
  ELSE NoKey

\* The make codes from 1 up, without flags.
ScanCodeKeys == <<"Escape", "Digit1", "Digit2", "Digit3", "Digit4", "Digit5", "Digit6",
  "Digit7", "Digit8", "Digit9", "Digit0", "Minus", "Equal", "Backspace",
  "Tab", "Q", "W", "E", "R", "T", "Y", "U", "I", "O", "P", "LeftBracket", "RightBracket",
  "Enter", "LeftControl", "A", "S", "D", "F", "G", "H", "J", "K", "L", "Semicolon",
  "Apostrophe", "Grave", "LeftShift", "Backslash", "Z", "X", "C", "V", "B", "N", "M",
  "Comma", "Period", "Slash", "RightShift", "NumpadMultiply", "LeftAlt", "Space",
  "CapsLock", "F1", "F2", "F3", "F4", "F5", "F6", "F7", "F8", "F9", "F10", "NumLock",
  "ScrollLock", "Numpad7", "Numpad8", "Numpad9", "NumpadSubtract", "Numpad4", "Numpad5",
  "Numpad6", "NumpadAdd", "Numpad1", "Numpad2", "Numpad3", "Numpad0", "NumpadDecimal",
  NoKey, NoKey, "Oem102", "F11", "F12", NoKey, NoKey, "LeftWindows", "RightWindows",
  "Application">>

PlainKey(make_code) ==
  IF make_code \in DOMAIN ScanCodeKeys THEN ScanCodeKeys[make_code] ELSE NoKey

\* Some mean another key with E0.
ExtendedKey(make_code) ==
  CASE make_code = \h1C -> "NumpadEnter"  [] make_code = \h1D -> "RightControl"
    [] make_code = \h2A -> NoKey          [] make_code = \h35 -> "NumpadDivide"
    [] make_code = \h36 -> NoKey          [] make_code = \h37 -> "PrintScreen"
    [] make_code = \h38 -> "RightAlt"     [] make_code = \h47 -> "Home"
    [] make_code = \h48 -> "ArrowUp"      [] make_code = \h49 -> "PageUp"
    [] make_code = \h4B -> "ArrowLeft"    [] make_code = \h4D -> "ArrowRight"
    [] make_code = \h4F -> "End"          [] make_code = \h50 -> "ArrowDown"
    [] make_code = \h51 -> "PageDown"     [] make_code = \h52 -> "Insert"
    [] make_code = \h53 -> "Delete"       [] OTHER -> PlainKey(make_code)

OfScanCode(make_code, flags) ==
  IF make_code = \h45 /\ "E1" \in flags THEN "Pause"
  ELSE IF "E0" \in flags THEN ExtendedKey(make_code)
  ELSE PlainKey(make_code)

\* The virtual key decides, where it is one of these; else the make code does.
Normalize(event) ==
  LET vk == event.virtual_key IN
  CASE vk = 0 \/ vk = \hFF       -> NoKey
    [] vk = kVkPause             -> "Pause"
    [] vk = kVkSnapshot          -> "PrintScreen"
    [] vk \in kVkF13 .. kVkF24   -> FunctionKeys[vk - kVkF13 + 1]
    [] NormalizeExtendedVirtualKey(vk) # NoKey -> NormalizeExtendedVirtualKey(vk)
    [] OTHER                     -> OfScanCode(event.make_code, event.flags)
=============================================================================
