------------------------- MODULE RawInputSourceProofs -------------------------
(*****************************************************************************)
(* What holds of RawInputSource for every set of devices and layouts and     *)
(* every bound: its type invariant, and that no press is counted twice, none *)
(* is left out, and no key counts as held that is not.                       *)
(*                                                                           *)
(* The argument is made for one key at a time.  HeldAt says whether a key    *)
(* will count as held when a message of the queue is handled, ToCome how     *)
(* many of the messages will count as presses of it.  What was recorded or   *)
(* passed over and what is to come never exceeds the presses (Credit), falls *)
(* short of them by no more than the messages that were lost (Debt), and     *)
(* what is held once the queue is worked off is held on a device (EndDown).  *)
(* A step of the UI thread handles the first message, releases the key or    *)
(* samples it ahead of the queue (Outcomes); a move presses the key, repeats *)
(* it, lets it go or pulls its device out (MoveOutcomes).  HandledKeeps and  *)
(* MovedKeeps show of these few cases that they keep the invariant.          *)
(*****************************************************************************)
EXTENDS RawInputSource, SumLemmas, SequenceTheorems

-------------------------------------------------------------------------------
(* Every signal is of its key: one event of it is, the others are of none. *)
Events == [make_code : Nat, flags : SUBSET {"E0", "E1"}, virtual_key : Nat]

\* KeyOf, of an event.
EventKey(event) ==
  IF event.make_code = \hFF \/ event.virtual_key >= \hFF THEN NoKey ELSE Normalize(event)

IsEventOf(k, event) == event \in Events /\ EventKey(event) = k

IsSignal(signal, k) ==
  /\ signal \in Seq(Events)
  /\ \E n \in 1 .. Len(signal) : \A i \in 1 .. Len(signal) :
       EventKey(signal[i]) = IF i = n THEN k ELSE NoKey

LEMMA EventFacts ==
  ASSUME NEW c \in Nat, NEW flags \in SUBSET {"E0", "E1"}, NEW vk \in Nat
  PROVE  LET e == Event(c, flags, vk) IN
         /\ e \in Events
         /\ e.make_code = c /\ e.flags = flags /\ e.virtual_key = vk
  BY DEF Event, Events

\* Where the virtual key says nothing, the make code decides.
LEMMA ByMakeCode ==
  ASSUME NEW c \in Nat, NEW flags \in SUBSET {"E0", "E1"}, NEW vk \in Nat, c # \hFF,
         vk \in {\h09, \h0D, \h10, \h11, \h12, \h24, \h41, \h42, \h67, \h90}
  PROVE  IsEventOf(OfScanCode(c, flags), Event(c, flags, vk))
<1> DEFINE e == Event(c, flags, vk)
<1>1. e.make_code = c /\ e.flags = flags /\ e.virtual_key = vk
  BY EventFacts
<1> HIDE DEF e
<1>2. NormalizeExtendedVirtualKey(vk) = NoKey
  BY DEF NormalizeExtendedVirtualKey
<1>3. vk # kVkPause /\ vk # kVkSnapshot /\ vk \notin kVkF13 .. kVkF24 /\ vk # 0 /\ vk # \hFF
  BY DEF kVkPause, kVkSnapshot, kVkF13, kVkF24
<1>4. Normalize(e) = OfScanCode(c, flags)
  BY <1>1, <1>2, <1>3 DEF Normalize
<1>5. EventKey(e) = Normalize(e)
  BY <1>1 DEF EventKey
<1>6. e \in Events
  BY EventFacts DEF e
<1> QED
  BY <1>4, <1>5, <1>6 DEF e, IsEventOf

LEMMA PlainKeys ==
  /\ PlainKey(\h1E) = "A" /\ PlainKey(\h0F) = "Tab" /\ PlainKey(\h38) = "LeftAlt"
  /\ PlainKey(\h1D) = "LeftControl" /\ PlainKey(\h2A) = "LeftShift" /\ PlainKey(\h1C) = "Enter"
  /\ PlainKey(\h47) = "Numpad7" /\ PlainKey(\h30) = "B" /\ PlainKey(\h45) = "NumLock"
  BY DEF PlainKey, ScanCodeKeys

LEMMA ScanCodes ==
  /\ OfScanCode(\h1E, {}) = "A" /\ OfScanCode(\h0F, {}) = "Tab"
  /\ OfScanCode(\h38, {}) = "LeftAlt" /\ OfScanCode(\h38, {"E0"}) = "RightAlt"
  /\ OfScanCode(\h1D, {}) = "LeftControl" /\ OfScanCode(\h1D, {"E0"}) = "RightControl"
  /\ OfScanCode(\h2A, {}) = "LeftShift"
  /\ OfScanCode(\h1C, {}) = "Enter" /\ OfScanCode(\h1C, {"E0"}) = "NumpadEnter"
  /\ OfScanCode(\h47, {}) = "Numpad7" /\ OfScanCode(\h47, {"E0"}) = "Home"
  /\ OfScanCode(\h30, {}) = "B" /\ OfScanCode(\h45, {}) = "NumLock"
<1>1. /\ ExtendedKey(\h38) = "RightAlt" /\ ExtendedKey(\h1D) = "RightControl"
      /\ ExtendedKey(\h1C) = "NumpadEnter" /\ ExtendedKey(\h47) = "Home"
  BY DEF ExtendedKey
<1> QED
  BY <1>1, PlainKeys DEF OfScanCode

\* The events whose virtual key decides, and those of no key.
LEMMA VirtualKeys ==
  /\ IsEventOf("VolumeUp", Event(\h30, {"E0"}, \hAF))
  /\ IsEventOf("F13", Event(\h64, {}, \h7C))
  /\ IsEventOf("PrintScreen", Event(\h37, {"E0"}, \h2C))
  /\ IsEventOf("PrintScreen", Event(\h54, {}, \h2C))
  /\ IsEventOf("Pause", Event(\h1D, {"E1"}, \h13))
  /\ IsEventOf(NoKey, Event(\h45, {}, \hFF))
  /\ IsEventOf(NoKey, FakeShift)
<1>1. ASSUME NEW c \in Nat, NEW flags \in SUBSET {"E0", "E1"}, NEW vk \in Nat, c # \hFF
      PROVE  LET e == Event(c, flags, vk) IN
             /\ vk = \h13 => IsEventOf("Pause", e)
             /\ vk = \h2C => IsEventOf("PrintScreen", e)
             /\ vk = \h7C => IsEventOf("F13", e)
             /\ vk = \hAF => IsEventOf("VolumeUp", e)
             /\ vk = \hFF => IsEventOf(NoKey, e)
  <2> DEFINE e == Event(c, flags, vk)
  <2>1. e.make_code = c /\ e.virtual_key = vk /\ e \in Events
    BY EventFacts
  <2>2. /\ NormalizeExtendedVirtualKey(\h13) = NoKey /\
           NormalizeExtendedVirtualKey(\h2C) = NoKey
        /\ NormalizeExtendedVirtualKey(\h7C) = NoKey
        /\ NormalizeExtendedVirtualKey(\hAF) = "VolumeUp"
        /\ FunctionKeys[1] = "F13"
    BY DEF NormalizeExtendedVirtualKey, MediaKeys, FunctionKeys
  <2> HIDE DEF e
  <2>3. /\ vk = \h13 => Normalize(e) = "Pause"
        /\ vk = \h2C => Normalize(e) = "PrintScreen"
    BY <2>1, <2>2 DEF Normalize, kVkPause, kVkSnapshot, kVkF13, kVkF24
  <2>4. vk = \h7C => Normalize(e) = "F13"
    BY <2>1, <2>2 DEF Normalize, kVkPause, kVkSnapshot, kVkF13, kVkF24
  <2>5. ASSUME vk = \hAF
        PROVE  Normalize(e) = "VolumeUp"
    <3>1. /\ NormalizeExtendedVirtualKey(vk) = "VolumeUp"
          /\ NormalizeExtendedVirtualKey(vk) # NoKey
      BY <2>2, <2>5 DEF NoKey
    <3>2. vk # kVkPause /\ vk # kVkSnapshot /\ vk \notin kVkF13 .. kVkF24 /\ vk # 0 /\
          vk # \hFF
      BY <2>5 DEF kVkPause, kVkSnapshot, kVkF13, kVkF24
    <3> QED
      BY <2>1, <3>1, <3>2 DEF Normalize
  <2>6. EventKey(e) = IF vk >= \hFF THEN NoKey ELSE Normalize(e)
    BY <2>1, <1>1 DEF EventKey
  <2> QED
    BY <2>1, <2>3, <2>4, <2>5, <2>6 DEF e, IsEventOf
<1>2. {{}, {"E0"}, {"E1"}} \subseteq SUBSET {"E0", "E1"}
  OBVIOUS
<1> QED
  BY <1>1, <1>2 DEF FakeShift

LEMMA SignalOfOne ==
  ASSUME NEW k, NEW e, IsEventOf(k, e)
  PROVE  IsSignal(<<e>>, k)
<1>1. <<e>> \in Seq(Events) /\ Len(<<e>>) = 1 /\ <<e>>[1] = e /\ EventKey(e) = k
  BY DEF IsEventOf
<1>2. \A i \in 1 .. 1 : i = 1
  OBVIOUS
<1> QED
  BY <1>1, <1>2 DEF IsSignal

LEMMA SignalOfTwo ==
  ASSUME NEW k, NEW e, NEW f,
         \/ IsEventOf(k, e) /\ IsEventOf(NoKey, f)
         \/ IsEventOf(NoKey, e) /\ IsEventOf(k, f)
  PROVE  IsSignal(<<e, f>>, k)
<1>1. /\ <<e, f>> \in Seq(Events) /\ Len(<<e, f>>) = 2
      /\ <<e, f>>[1] = e /\ <<e, f>>[2] = f
  BY DEF IsEventOf
<1>2. 1 \in 1 .. 2 /\ 2 \in 1 .. 2 /\ \A i \in 1 .. 2 : i = 1 \/ i = 2
  OBVIOUS
<1>3. CASE EventKey(e) = k /\ EventKey(f) = NoKey
  <2>1. \A i \in 1 .. 2 : EventKey(<<e, f>>[i]) = IF i = 1 THEN k ELSE NoKey
    BY <1>1, <1>2, <1>3
  <2> QED
    BY <1>1, <1>2, <2>1 DEF IsSignal
<1>4. CASE EventKey(e) = NoKey /\ EventKey(f) = k
  <2>1. \A i \in 1 .. 2 : EventKey(<<e, f>>[i]) = IF i = 2 THEN k ELSE NoKey
    BY <1>1, <1>2, <1>4
  <2> QED
    BY <1>1, <1>2, <2>1 DEF IsSignal
<1> QED
  BY <1>3, <1>4 DEF IsEventOf

LEMMA MakeCodes ==
  /\ IsEventOf("A", Event(\h1E, {}, \h41))
  /\ IsEventOf("Tab", Event(\h0F, {}, \h09))
  /\ IsEventOf("LeftAlt", Event(\h38, {}, \h12))
  /\ IsEventOf("RightAlt", Event(\h38, {"E0"}, \h12))
  /\ IsEventOf("LeftControl", Event(\h1D, {}, \h11))
  /\ IsEventOf("RightControl", Event(\h1D, {"E0"}, \h11))
  /\ IsEventOf("LeftShift", Event(\h2A, {}, \h10))
  /\ IsEventOf("Enter", Event(\h1C, {}, \h0D))
  /\ IsEventOf("NumpadEnter", Event(\h1C, {"E0"}, \h0D))
  /\ IsEventOf("Numpad7", Event(\h47, {}, \h67))
  /\ IsEventOf("Numpad7", Event(\h47, {}, \h24))
  /\ IsEventOf("Home", Event(\h47, {"E0"}, \h24))
  /\ IsEventOf("B", Event(\h30, {}, \h42))
  /\ IsEventOf("NumLock", Event(\h45, {}, \h90))
<1>1. IsEventOf("A", Event(\h1E, {}, \h41))
  BY ByMakeCode, ScanCodes
<1>2. IsEventOf("Tab", Event(\h0F, {}, \h09))
  BY ByMakeCode, ScanCodes
<1>3. IsEventOf("LeftAlt", Event(\h38, {}, \h12))
  BY ByMakeCode, ScanCodes
<1>4. IsEventOf("RightAlt", Event(\h38, {"E0"}, \h12))
  BY ByMakeCode, ScanCodes
<1>5. IsEventOf("LeftControl", Event(\h1D, {}, \h11))
  BY ByMakeCode, ScanCodes
<1>6. IsEventOf("RightControl", Event(\h1D, {"E0"}, \h11))
  BY ByMakeCode, ScanCodes
<1>7. IsEventOf("LeftShift", Event(\h2A, {}, \h10))
  BY ByMakeCode, ScanCodes
<1>8. IsEventOf("Enter", Event(\h1C, {}, \h0D))
  BY ByMakeCode, ScanCodes
<1>9. IsEventOf("NumpadEnter", Event(\h1C, {"E0"}, \h0D))
  BY ByMakeCode, ScanCodes
<1>10. IsEventOf("Numpad7", Event(\h47, {}, \h67))
  BY ByMakeCode, ScanCodes
<1>11. IsEventOf("Numpad7", Event(\h47, {}, \h24))
  BY ByMakeCode, ScanCodes
<1>12. IsEventOf("Home", Event(\h47, {"E0"}, \h24))
  BY ByMakeCode, ScanCodes
<1>13. IsEventOf("B", Event(\h30, {}, \h42))
  BY ByMakeCode, ScanCodes
<1>14. IsEventOf("NumLock", Event(\h45, {}, \h90))
  BY ByMakeCode, ScanCodes
<1> QED
  BY <1>1, <1>2, <1>3, <1>4, <1>5, <1>6, <1>7, <1>8, <1>9, <1>10, <1>11, <1>12, <1>13, <1>14

LEMMA SignalsAreOfKeys ==
  ASSUME NEW k \in KeyboardKeys, NEW signal \in Signals[k]
  PROVE  IsSignal(signal, k)
<1>1. ASSUME NEW e, IsEventOf(k, e)
      PROVE  IsSignal(<<e>>, k) /\ IsSignal(<<FakeShift, e>>, k)
  BY <1>1, SignalOfOne, SignalOfTwo, VirtualKeys
<1>2. CASE k = "A"
  <2>1. signal = <<Event(\h1E, {}, \h41)>>
    BY <1>2 DEF Signals, Plain
  <2> QED
    BY <1>1, <1>2, <2>1, MakeCodes
<1>3. CASE k = "Tab"
  <2>1. signal = <<Event(\h0F, {}, \h09)>>
    BY <1>3 DEF Signals, Plain
  <2> QED
    BY <1>1, <1>3, <2>1, MakeCodes
<1>4. CASE k = "LeftAlt"
  <2>1. signal = <<Event(\h38, {}, \h12)>>
    BY <1>4 DEF Signals, Plain
  <2> QED
    BY <1>1, <1>4, <2>1, MakeCodes
<1>5. CASE k = "RightAlt"
  <2>1. signal = <<Event(\h38, {"E0"}, \h12)>>
    BY <1>5 DEF Signals, Extended
  <2> QED
    BY <1>1, <1>5, <2>1, MakeCodes
<1>6. CASE k = "LeftControl"
  <2>1. signal = <<Event(\h1D, {}, \h11)>>
    BY <1>6 DEF Signals, Plain
  <2> QED
    BY <1>1, <1>6, <2>1, MakeCodes
<1>7. CASE k = "RightControl"
  <2>1. signal = <<Event(\h1D, {"E0"}, \h11)>>
    BY <1>7 DEF Signals, Extended
  <2> QED
    BY <1>1, <1>7, <2>1, MakeCodes
<1>8. CASE k = "LeftShift"
  <2>1. signal = <<Event(\h2A, {}, \h10)>>
    BY <1>8 DEF Signals, Plain
  <2> QED
    BY <1>1, <1>8, <2>1, MakeCodes
<1>9. CASE k = "Enter"
  <2>1. signal = <<Event(\h1C, {}, \h0D)>>
    BY <1>9 DEF Signals, Plain
  <2> QED
    BY <1>1, <1>9, <2>1, MakeCodes
<1>10. CASE k = "NumpadEnter"
  <2>1. signal = <<Event(\h1C, {"E0"}, \h0D)>>
    BY <1>10 DEF Signals, Extended
  <2> QED
    BY <1>1, <1>10, <2>1, MakeCodes
<1>11. CASE k = "Numpad7"
  <2>1. signal = <<Event(\h47, {}, \h67)>> \/ signal = <<Event(\h47, {}, \h24)>>
    BY <1>11 DEF Signals, Numpad, Plain
  <2> QED
    BY <1>1, <1>11, <2>1, MakeCodes
<1>12. CASE k = "Home"
  <2>1. \/ signal = <<Event(\h47, {"E0"}, \h24)>>
        \/ signal = <<FakeShift, Event(\h47, {"E0"}, \h24)>>
    BY <1>12 DEF Signals, Navigation, Extended
  <2> QED
    BY <1>1, <1>12, <2>1, MakeCodes
<1>13. CASE k = "B"
  <2>1. signal = <<Event(\h30, {}, \h42)>>
    BY <1>13 DEF Signals, Plain
  <2> QED
    BY <1>1, <1>13, <2>1, MakeCodes
<1>14. CASE k = "NumLock"
  <2>1. signal = <<Event(\h45, {}, \h90)>>
    BY <1>14 DEF Signals, Plain
  <2> QED
    BY <1>1, <1>14, <2>1, MakeCodes
<1>15. CASE k = "VolumeUp"
  <2>1. signal = <<Event(\h30, {"E0"}, \hAF)>>
    BY <1>15 DEF Signals, Plain, Extended
  <2> QED
    BY <1>1, <1>15, <2>1, VirtualKeys
<1>16. CASE k = "F13"
  <2>1. signal = <<Event(\h64, {}, \h7C)>>
    BY <1>16 DEF Signals, Plain, Extended
  <2> QED
    BY <1>1, <1>16, <2>1, VirtualKeys
<1>17. CASE k = "PrintScreen"
  <2>1. \/ signal = <<FakeShift, Event(\h37, {"E0"}, \h2C)>>
        \/ signal = <<Event(\h54, {}, \h2C)>>
    BY <1>17 DEF Signals
  <2> QED
    BY <1>1, <1>17, <2>1, VirtualKeys
<1>18. CASE k = "Pause"
  <2>1. signal = <<Event(\h1D, {"E1"}, \h13), Event(\h45, {}, \hFF)>>
    BY <1>18 DEF Signals
  <2> QED
    BY <1>18, <2>1, VirtualKeys, SignalOfTwo
<1> QED
  BY <1>2, <1>3, <1>4, <1>5, <1>6, <1>7, <1>8, <1>9, <1>10, <1>11, <1>12, <1>13, <1>14, <1>15,
     <1>16, <1>17, <1>18 DEF KeyboardKeys

-------------------------------------------------------------------------------
(* What a queue of messages does to a key, once they are handled. *)

\* A message that says a key goes down, or up.
Makes(m, p) ==
  \/ m.kind = "input" /\ ~m.is_break /\ KeyOf(m) # NoKey /\ p = PressedKey(m.device, KeyOf(m))
  \/ m.kind = "mouse" /\ p \in HeldAs(m.device, m.downs)

Breaks(m, p) ==
  \/ m.kind = "input" /\ m.is_break /\ KeyOf(m) # NoKey /\ p = PressedKey(m.device, KeyOf(m))
  \/ m.kind = "mouse" /\ p \in HeldAs(m.device, m.ups)
  \/ m.kind = "removal" /\ p[1] = m.device

Touches(m, p) == Makes(m, p) \/ Breaks(m, p)

\* A key counts as held when message i is handled: it did at first, or an earlier
\* message made it so, and none since has ended that.
HeldAt(q, held, i, p) ==
  \E j \in 0 .. i - 1 :
    /\ IF j = 0 THEN p \in held ELSE Makes(q[j], p)
    /\ \A l \in j + 1 .. i - 1 : ~Breaks(q[l], p)

\* The messages that will count as presses, and whether the key is held in the end.
Fresh(q, held, p) == {i \in 1 .. Len(q) : Makes(q[i], p) /\ ~HeldAt(q, held, i, p)}
HeldAtEnd(q, held, p) == HeldAt(q, held, Len(q) + 1, p)

\* The first message that touches a key.
First(q, i, p) ==
  /\ i \in 1 .. Len(q)
  /\ Touches(q[i], p)
  /\ \A j \in 1 .. i - 1 : ~Touches(q[j], p)
BreakFirst(q, p) == \E i \in 1 .. Len(q) : First(q, i, p) /\ ~Makes(q[i], p)
Untouched(q, p)  == \A i \in 1 .. Len(q) : ~Touches(q[i], p)

One(condition) == IF condition THEN 1 ELSE 0

LEMMA FreshCounts ==
  ASSUME NEW S, NEW q \in Seq(S), NEW held, NEW p
  PROVE  IsFiniteSet(Fresh(q, held, p)) /\ Cardinality(Fresh(q, held, p)) \in Nat
<1>1. IsFiniteSet(1 .. Len(q)) /\ Fresh(q, held, p) \subseteq 1 .. Len(q)
  BY FS_Interval DEF Fresh
<1> QED
  BY <1>1, FS_Subset, FS_CardinalityType

\* From one message to the next.
LEMMA HeldNext ==
  ASSUME NEW q, NEW held, NEW p, NEW i \in Nat \ {0}
  PROVE  /\ HeldAt(q, held, 1, p) <=> p \in held
         /\ HeldAt(q, held, i + 1, p)
              <=> Makes(q[i], p) \/ (HeldAt(q, held, i, p) /\ ~Breaks(q[i], p))
<1>1. HeldAt(q, held, 1, p) <=> p \in held
  BY DEF HeldAt
<1>2. ASSUME HeldAt(q, held, i + 1, p)
      PROVE  Makes(q[i], p) \/ (HeldAt(q, held, i, p) /\ ~Breaks(q[i], p))
  <2>1. PICK j \in 0 .. i : /\ IF j = 0 THEN p \in held ELSE Makes(q[j], p)
                            /\ \A l \in j + 1 .. i : ~Breaks(q[l], p)
    BY <1>2 DEF HeldAt
  <2>2. CASE j = i
    BY <2>1, <2>2
  <2>3. CASE j # i
    <3>1. j \in 0 .. i - 1 /\ i \in j + 1 .. i
      BY <2>3
    <3>2. \A l \in j + 1 .. i - 1 : l \in j + 1 .. i
      OBVIOUS
    <3> QED
      BY <2>1, <3>1, <3>2 DEF HeldAt
  <2> QED
    BY <2>2, <2>3
<1>3. ASSUME Makes(q[i], p)
      PROVE  HeldAt(q, held, i + 1, p)
  <2>1. i \in 0 .. (i + 1) - 1 /\ i # 0 /\ i + 1 .. (i + 1) - 1 = {}
    OBVIOUS
  <2> QED
    BY <1>3, <2>1 DEF HeldAt
<1>4. ASSUME HeldAt(q, held, i, p), ~Breaks(q[i], p)
      PROVE  HeldAt(q, held, i + 1, p)
  <2>1. PICK j \in 0 .. i - 1 : /\ IF j = 0 THEN p \in held ELSE Makes(q[j], p)
                                /\ \A l \in j + 1 .. i - 1 : ~Breaks(q[l], p)
    BY <1>4 DEF HeldAt
  <2>2. j \in 0 .. (i + 1) - 1
        /\ \A l \in j + 1 .. (i + 1) - 1 : l = i \/ l \in j + 1 .. i - 1
    OBVIOUS
  <2> QED
    BY <1>4, <2>1, <2>2 DEF HeldAt
<1> QED
  BY <1>1, <1>2, <1>3, <1>4

\* Messages that do not touch a key leave it as it is.
LEMMA HeldOn ==
  ASSUME NEW q, NEW held, NEW p, NEW a \in Nat \ {0}, NEW b \in Nat, a <= b,
         \A l \in a .. b - 1 : ~Touches(q[l], p)
  PROVE  HeldAt(q, held, b, p) <=> HeldAt(q, held, a, p)
<1>1. ASSUME HeldAt(q, held, b, p)
      PROVE  HeldAt(q, held, a, p)
  <2>1. PICK j \in 0 .. b - 1 : /\ IF j = 0 THEN p \in held ELSE Makes(q[j], p)
                                /\ \A l \in j + 1 .. b - 1 : ~Breaks(q[l], p)
    BY <1>1 DEF HeldAt
  <2>2. j \in 0 .. a - 1
    BY <2>1 DEF Touches
  <2>3. \A l \in j + 1 .. a - 1 : l \in j + 1 .. b - 1
    OBVIOUS
  <2> QED
    BY <2>1, <2>2, <2>3 DEF HeldAt
<1>2. ASSUME HeldAt(q, held, a, p)
      PROVE  HeldAt(q, held, b, p)
  <2>1. PICK j \in 0 .. a - 1 : /\ IF j = 0 THEN p \in held ELSE Makes(q[j], p)
                                /\ \A l \in j + 1 .. a - 1 : ~Breaks(q[l], p)
    BY <1>2 DEF HeldAt
  <2>2. j \in 0 .. b - 1 /\ \A l \in j + 1 .. b - 1 : l \in j + 1 .. a - 1 \/ l \in a .. b - 1
    OBVIOUS
  <2> QED
    BY <2>1, <2>2 DEF HeldAt, Touches
<1> QED
  BY <1>1, <1>2

\* Only the messages before count.
LEMMA HeldAgree ==
  ASSUME NEW q, NEW r, NEW held, NEW p, NEW i \in Nat,
         \A l \in 1 .. i - 1 : q[l] = r[l]
  PROVE  HeldAt(q, held, i, p) <=> HeldAt(r, held, i, p)
<1>1. \A j \in 0 .. i - 1 : /\ j # 0 => j \in 1 .. i - 1
                            /\ \A l \in j + 1 .. i - 1 : l \in 1 .. i - 1
  OBVIOUS
<1> QED
  BY <1>1 DEF HeldAt

\* The first message is handled.
LEMMA HeldShift ==
  ASSUME NEW q, NEW r, NEW held, NEW after, NEW p, NEW i \in Nat \ {0},
         \A l \in 1 .. i - 1 : r[l] = q[l + 1],
         p \in after <=> HeldAt(q, held, 2, p)
  PROVE  HeldAt(r, after, i, p) <=> HeldAt(q, held, i + 1, p)
<1>1. ASSUME HeldAt(r, after, i, p)
      PROVE  HeldAt(q, held, i + 1, p)
  <2>1. PICK j \in 0 .. i - 1 : /\ IF j = 0 THEN p \in after ELSE Makes(r[j], p)
                                /\ \A l \in j + 1 .. i - 1 : ~Breaks(r[l], p)
    BY <1>1 DEF HeldAt
  <2>2. \A l \in (j + 1) + 1 .. i : ~Breaks(q[l], p)
    <3>1. \A l \in (j + 1) + 1 .. i : l - 1 \in j + 1 .. i - 1 /\ l - 1 \in 1 .. i - 1
                                      /\ (l - 1) + 1 = l
      OBVIOUS
    <3> QED
      BY <2>1, <3>1
  <2>3. CASE j = 0
    <3>1. PICK n \in 0 .. 1 : /\ IF n = 0 THEN p \in held ELSE Makes(q[n], p)
                              /\ \A l \in n + 1 .. 1 : ~Breaks(q[l], p)
      BY <2>1, <2>3 DEF HeldAt
    <3>2. n \in 0 .. (i + 1) - 1 /\ \A l \in n + 1 .. (i + 1) - 1 :
                                      l \in n + 1 .. 1 \/ l \in (0 + 1) + 1 .. i
      OBVIOUS
    <3> QED
      BY <2>2, <2>3, <3>1, <3>2 DEF HeldAt
  <2>4. CASE j # 0
    <3>1. j \in 1 .. i - 1 /\ j + 1 \in 0 .. (i + 1) - 1 /\ j + 1 # 0 /\ (i + 1) - 1 = i
      BY <2>4
    <3>2. Makes(q[j + 1], p)
      BY <2>1, <2>4, <3>1
    <3> QED
      BY <2>2, <3>1, <3>2 DEF HeldAt
  <2> QED
    BY <2>3, <2>4
<1>2. ASSUME HeldAt(q, held, i + 1, p)
      PROVE  HeldAt(r, after, i, p)
  <2>1. PICK j \in 0 .. i : /\ IF j = 0 THEN p \in held ELSE Makes(q[j], p)
                            /\ \A l \in j + 1 .. i : ~Breaks(q[l], p)
    BY <1>2 DEF HeldAt
  <2>2. CASE j \in 0 .. 1
    <3>1. HeldAt(q, held, 2, p)
      <4>1. j \in 0 .. 2 - 1 /\ \A l \in j + 1 .. 2 - 1 : l \in j + 1 .. i
        BY <2>2
      <4> QED
        BY <2>1, <4>1 DEF HeldAt
    <3>2. \A l \in 0 + 1 .. i - 1 : l \in 1 .. i - 1 /\ l + 1 \in j + 1 .. i
      BY <2>2
    <3>3. \A l \in 0 + 1 .. i - 1 : ~Breaks(r[l], p)
      BY <2>1, <3>2
    <3> QED
      BY <3>1, <3>3 DEF HeldAt
  <2>3. CASE j \notin 0 .. 1
    <3>1. j - 1 \in 0 .. i - 1 /\ j - 1 # 0 /\ j - 1 \in 1 .. i - 1 /\ (j - 1) + 1 = j /\ j # 0
      BY <2>3
    <3>2. \A l \in (j - 1) + 1 .. i - 1 : l \in 1 .. i - 1 /\ l + 1 \in j + 1 .. i
      BY <3>1
    <3>3. Makes(r[j - 1], p) /\ \A l \in (j - 1) + 1 .. i - 1 : ~Breaks(r[l], p)
      BY <2>1, <3>1, <3>2
    <3> QED
      BY <3>1, <3>3 DEF HeldAt
  <2> QED
    BY <2>2, <2>3
<1> QED
  BY <1>1, <1>2

LEMMA HeadHandled ==
  ASSUME NEW S, NEW q \in Seq(S), q # << >>, NEW held, NEW after, NEW p,
         p \in after <=> Makes(q[1], p) \/ (p \in held /\ ~Breaks(q[1], p))
  PROVE  /\ Cardinality(Fresh(q, held, p))
              = Cardinality(Fresh(Tail(q), after, p)) + One(Makes(q[1], p) /\ p \notin held)
         /\ HeldAtEnd(Tail(q), after, p) <=> HeldAtEnd(q, held, p)
<1> DEFINE r == Tail(q)
           n == Len(q)
           G == Fresh(q, held, p)
           F == Fresh(r, after, p)
           f == [i \in F |-> i + 1]
<1>1. r \in Seq(S) /\ n \in Nat \ {0} /\ Len(r) = n - 1 /\
      \A l \in 1 .. n - 1 : r[l] = q[l + 1]
  OBVIOUS
<1>2. p \in after <=> HeldAt(q, held, 2, p)
  <2>1. HeldAt(q, held, 1, p) <=> p \in held
    BY HeldNext
  <2>2. HeldAt(q, held, 1 + 1, p) <=> Makes(q[1], p) \/
        (HeldAt(q, held, 1, p) /\ ~Breaks(q[1], p))
    BY HeldNext
  <2> QED
    BY <2>1, <2>2
<1>3. \A i \in 1 .. n : HeldAt(r, after, i, p) <=> HeldAt(q, held, i + 1, p)
  <2> SUFFICES ASSUME NEW i \in 1 .. n
               PROVE  HeldAt(r, after, i, p) <=> HeldAt(q, held, i + 1, p)
    OBVIOUS
  <2>1. i \in Nat \ {0} /\ \A l \in 1 .. i - 1 : r[l] = q[l + 1]
    BY <1>1
  <2> HIDE DEF r
  <2> QED
    BY <1>2, <2>1, HeldShift
<1>4. HeldAtEnd(r, after, p) <=> HeldAtEnd(q, held, p)
  BY <1>1, <1>3 DEF HeldAtEnd
<1>5. 1 \in G <=> Makes(q[1], p) /\ p \notin held
  BY <1>1, HeldNext DEF Fresh
<1>6. \A i \in 1 .. n - 1 : i \in F <=> i + 1 \in G
  BY <1>1, <1>3 DEF Fresh
<1>7. F \subseteq 1 .. n - 1 /\ G \subseteq 1 .. n
  BY <1>1 DEF Fresh
<1>8. IsFiniteSet(F) /\ IsFiniteSet(G) /\ Cardinality(F) \in Nat /\ Cardinality(G) \in Nat
  BY <1>1, FreshCounts
<1> HIDE DEF F, G, n
<1>9. f \in Bijection(F, G \ {1})
  <2>1. n \in Nat
    BY <1>1
  <2>2. f \in [F -> G \ {1}]
    BY <2>1, <1>6, <1>7
  <2>3. \A x, y \in F : f[x] = f[y] => x = y
    BY <2>1, <1>7
  <2>4. \A g \in G \ {1} : \E x \in F : f[x] = g
    <3> SUFFICES ASSUME NEW g \in G \ {1}
                 PROVE  \E x \in F : f[x] = g
      OBVIOUS
    <3>1. g - 1 \in 1 .. n - 1 /\ (g - 1) + 1 = g
      BY <2>1, <1>7
    <3>2. g - 1 \in F
      BY <3>1, <1>6
    <3> QED
      BY <3>1, <3>2
  <2> QED
    BY <2>2, <2>3, <2>4 DEF Bijection, Injection, Surjection, IsInjective
<1>10. Cardinality(G \ {1}) = Cardinality(F)
  <2>1. f \in Bijection(F, G \ {1}) /\ IsFiniteSet(F)
    BY <1>8, <1>9
  <2> HIDE DEF f
  <2> QED
    BY <2>1, FS_Bijection DEF ExistsBijection
<1>11. Cardinality(G) = Cardinality(F) + (IF 1 \in G THEN 1 ELSE 0)
  <2>1. Cardinality(G \ {1}) = IF 1 \in G THEN Cardinality(G) - 1 ELSE Cardinality(G)
    BY <1>8, FS_RemoveElement
  <2> QED
    BY <2>1, <1>8, <1>10
<1>12. One(Makes(q[1], p) /\ p \notin held) = IF 1 \in G THEN 1 ELSE 0
  BY <1>5, Zenon DEF One
<1> QED
  BY <1>4, <1>11, <1>12, Zenon DEF G, F

\* More messages are queued: none that touches the key, ...
LEMMA JoinFacts ==
  ASSUME NEW S, NEW q \in Seq(S), NEW s \in Seq(S)
  PROVE  /\ q \o s \in Seq(S) /\ Len(q) \in Nat /\ Len(s) \in Nat
         /\ Len(q \o s) = Len(q) + Len(s)
         /\ \A i \in 1 .. Len(q) : (q \o s)[i] = q[i]
         /\ \A i \in 1 .. Len(s) : (q \o s)[Len(q) + i] = s[i]
  OBVIOUS

LEMMA OldMessages ==
  ASSUME NEW S, NEW q \in Seq(S), NEW s \in Seq(S), NEW held, NEW p
  PROVE  /\ \A i \in 1 .. Len(q) + 1 : HeldAt(q \o s, held, i, p) <=> HeldAt(q, held, i, p)
         /\ \A i \in 1 .. Len(q) : i \in Fresh(q \o s, held, p) <=> i \in Fresh(q, held, p)
         /\ \A i \in 1 .. Len(q) : First(q \o s, i, p) <=> First(q, i, p)
<1> DEFINE r == q \o s
<1>1. /\ Len(q) \in Nat /\ Len(s) \in Nat /\ Len(r) = Len(q) + Len(s)
      /\ \A i \in 1 .. Len(q) : r[i] = q[i]
  BY JoinFacts
<1> HIDE DEF r
<1>2. ASSUME NEW i \in 1 .. Len(q) + 1
      PROVE  HeldAt(r, held, i, p) <=> HeldAt(q, held, i, p)
  <2>1. i \in Nat /\ \A l \in 1 .. i - 1 : r[l] = q[l]
    BY <1>1
  <2> QED
    BY <2>1, HeldAgree
<1>3. \A i \in 1 .. Len(q) : i \in Fresh(r, held, p) <=> i \in Fresh(q, held, p)
  BY <1>1, <1>2 DEF Fresh
<1>4. \A i \in 1 .. Len(q) : First(r, i, p) <=> First(q, i, p)
  BY <1>1 DEF First
<1> QED
  BY <1>2, <1>3, <1>4 DEF r

LEMMA AppendNone ==
  ASSUME NEW S, NEW q \in Seq(S), NEW s \in Seq(S), NEW held, NEW p,
         Untouched(s, p)
  PROVE  /\ Fresh(q \o s, held, p) = Fresh(q, held, p)
         /\ HeldAtEnd(q \o s, held, p) <=> HeldAtEnd(q, held, p)
         /\ BreakFirst(q \o s, p) <=> BreakFirst(q, p)
         /\ Untouched(q \o s, p) <=> Untouched(q, p)
<1> DEFINE r == q \o s
           n == Len(q)
<1>1. /\ n \in Nat /\ Len(s) \in Nat /\ Len(r) = n + Len(s)
      /\ \A i \in 1 .. n : r[i] = q[i]
      /\ \A i \in 1 .. Len(s) : r[n + i] = s[i]
  BY JoinFacts
<1>2. /\ \A i \in 1 .. n + 1 : HeldAt(r, held, i, p) <=> HeldAt(q, held, i, p)
      /\ \A i \in 1 .. n : i \in Fresh(r, held, p) <=> i \in Fresh(q, held, p)
      /\ \A i \in 1 .. n : First(r, i, p) <=> First(q, i, p)
  BY OldMessages
<1>3. \A i \in n + 1 .. Len(r) : ~Touches(r[i], p)
  <2>1. \A i \in n + 1 .. Len(r) : i - n \in 1 .. Len(s) /\ n + (i - n) = i
    BY <1>1
  <2> QED
    BY <1>1, <2>1 DEF Untouched
<1> HIDE DEF r
<1>4. \A i \in 1 .. Len(r) : i \in 1 .. n \/ i \in n + 1 .. Len(r)
  BY <1>1
<1>5. Fresh(r, held, p) = Fresh(q, held, p)
  <2>1. Fresh(r, held, p) \subseteq 1 .. n /\ Fresh(q, held, p) \subseteq 1 .. n
    BY <1>3, <1>4 DEF Fresh, Touches
  <2> QED
    BY <1>2, <2>1
<1>6. HeldAtEnd(r, held, p) <=> HeldAtEnd(q, held, p)
  <2>1. HeldAt(r, held, Len(r) + 1, p) <=> HeldAt(r, held, n + 1, p)
    <3>1. n + 1 \in Nat \ {0} /\ Len(r) + 1 \in Nat /\ n + 1 <= Len(r) + 1
          /\ \A l \in n + 1 .. (Len(r) + 1) - 1 : l \in n + 1 .. Len(r)
      BY <1>1
    <3> QED
      BY <1>3, <3>1, HeldOn
  <2>2. n + 1 \in 1 .. n + 1
    BY <1>1
  <2> QED
    BY <1>2, <2>1, <2>2 DEF HeldAtEnd
<1>7. BreakFirst(r, p) <=> BreakFirst(q, p)
  <2>1. \A i \in 1 .. Len(r) : First(r, i, p) => i \in 1 .. n
    BY <1>3, <1>4 DEF First
  <2>2. \A i \in 1 .. n : i \in 1 .. Len(r)
    BY <1>1
  <2> QED
    BY <1>1, <1>2, <2>1, <2>2 DEF BreakFirst
<1>8. Untouched(r, p) <=> Untouched(q, p)
  <2>1. \A i \in 1 .. n : i \in 1 .. Len(r)
    BY <1>1
  <2> QED
    BY <1>1, <1>3, <1>4, <2>1 DEF Untouched
<1> QED
  BY <1>5, <1>6, <1>7, <1>8 DEF r

\* ... or one that does.
TouchedOnce(s, p, n) ==
  /\ n \in 1 .. Len(s)
  /\ \A i \in 1 .. Len(s) : Touches(s[i], p) <=> i = n
  /\ ~(Makes(s[n], p) /\ Breaks(s[n], p))

LEMMA AppendOne ==
  ASSUME NEW S, NEW q \in Seq(S), NEW s \in Seq(S), NEW held, NEW p,
         NEW n, TouchedOnce(s, p, n)
  PROVE  /\ Cardinality(Fresh(q \o s, held, p))
              = Cardinality(Fresh(q, held, p))
                  + One(Makes(s[n], p) /\ ~HeldAtEnd(q, held, p))
         /\ HeldAtEnd(q \o s, held, p) <=> Makes(s[n], p)
         /\ BreakFirst(q \o s, p) <=> BreakFirst(q, p) \/ (Untouched(q, p) /\ ~Makes(s[n], p))
         /\ ~Untouched(q \o s, p)
<1> DEFINE r == q \o s
           a == Len(q)
           G == Fresh(r, held, p)
           F == Fresh(q, held, p)
<1>1. /\ a \in Nat /\ Len(s) \in Nat /\ Len(r) = a + Len(s) /\ r \in Seq(S)
      /\ \A i \in 1 .. a : r[i] = q[i]
      /\ \A i \in 1 .. Len(s) : r[a + i] = s[i]
  BY JoinFacts
<1>2. /\ \A i \in 1 .. a + 1 : HeldAt(r, held, i, p) <=> HeldAt(q, held, i, p)
      /\ \A i \in 1 .. a : i \in G <=> i \in F
      /\ \A i \in 1 .. a : First(r, i, p) <=> First(q, i, p)
  BY OldMessages
<1>3. /\ n \in 1 .. Len(s) /\ n \in Nat \ {0} /\ a + n \in 1 .. Len(r) /\ a + n \notin 1 .. a
      /\ r[a + n] = s[n] /\ Touches(s[n], p) /\ ~(Makes(s[n], p) /\ Breaks(s[n], p))
  BY <1>1 DEF TouchedOnce
<1>4. \A i \in a + 1 .. Len(r) : i # a + n => ~Touches(r[i], p)
  <2>1. \A i \in a + 1 .. Len(r) : i - a \in 1 .. Len(s) /\ a + (i - a) = i /\
                                   (i # a + n => i - a # n)
    BY <1>1, <1>3
  <2> QED
    BY <1>1, <2>1 DEF TouchedOnce
<1> HIDE DEF r
<1>5. \A i \in 1 .. Len(r) : i \in 1 .. a \/ i \in a + 1 .. Len(r)
  BY <1>1
<1>6. HeldAt(r, held, a + n, p) <=> HeldAtEnd(q, held, p)
  <2>1. /\ a + 1 \in Nat \ {0} /\ a + n \in Nat /\ a + 1 <= a + n /\ a + 1 \in 1 .. a + 1
        /\ \A l \in a + 1 .. (a + n) - 1 : l \in a + 1 .. Len(r) /\ l # a + n
    BY <1>1, <1>3
  <2>2. HeldAt(r, held, a + n, p) <=> HeldAt(r, held, a + 1, p)
    BY <1>4, <2>1, HeldOn
  <2> QED
    BY <1>2, <2>1, <2>2 DEF HeldAtEnd
<1>7. HeldAtEnd(r, held, p) <=> Makes(s[n], p)
  <2>1. /\ (a + n) + 1 \in Nat \ {0} /\ Len(r) + 1 \in Nat /\ (a + n) + 1 <= Len(r) + 1
        /\ a + n \in Nat \ {0}
        /\ \A l \in (a + n) + 1 .. (Len(r) + 1) - 1 : l \in a + 1 .. Len(r) /\ l # a + n
    BY <1>1, <1>3
  <2>2. HeldAt(r, held, Len(r) + 1, p) <=> HeldAt(r, held, (a + n) + 1, p)
    BY <1>4, <2>1, HeldOn
  <2>3. HeldAt(r, held, (a + n) + 1, p)
          <=> Makes(r[a + n], p) \/ (HeldAt(r, held, a + n, p) /\ ~Breaks(r[a + n], p))
    BY <2>1, HeldNext
  <2> QED
    BY <1>3, <2>2, <2>3 DEF HeldAtEnd, Touches
<1>8. a + n \in G <=> Makes(s[n], p) /\ ~HeldAtEnd(q, held, p)
  BY <1>3, <1>6 DEF Fresh
<1>9. G \ {a + n} = F
  <2>1. F \subseteq 1 .. a
    BY DEF Fresh
  <2>2. G \ {a + n} \subseteq 1 .. a
    BY <1>4, <1>5 DEF Fresh, Touches
  <2> QED
    BY <1>2, <1>3, <2>1, <2>2
<1>10. IsFiniteSet(F) /\ IsFiniteSet(G) /\ Cardinality(F) \in Nat /\ Cardinality(G) \in Nat
  BY <1>1, FreshCounts
<1>11. Cardinality(G) = Cardinality(F) + (IF a + n \in G THEN 1 ELSE 0)
  <2> DEFINE x == a + n
  <2>1. G \ {x} = F
    BY <1>9
  <2> HIDE DEF F, G, x
  <2>2. Cardinality(G \ {x}) = IF x \in G THEN Cardinality(G) - 1 ELSE Cardinality(G)
    BY <1>10, FS_RemoveElement
  <2>3. Cardinality(G) = Cardinality(F) + (IF x \in G THEN 1 ELSE 0)
    <3>1. Cardinality(F) = IF x \in G THEN Cardinality(G) - 1 ELSE Cardinality(G)
      BY <2>1, <2>2, Zenon
    <3>2. Cardinality(F) \in Nat /\ Cardinality(G) \in Nat
      BY <1>10
    <3> QED
      BY <3>1, <3>2
  <2> QED
    BY <2>3 DEF x
<1>12. One(Makes(s[n], p) /\ ~HeldAtEnd(q, held, p)) = IF a + n \in G THEN 1 ELSE 0
  BY <1>8, Zenon DEF One
<1>13. ~Untouched(r, p)
  BY <1>3 DEF Untouched
<1>14. BreakFirst(r, p) <=> BreakFirst(q, p) \/ (Untouched(q, p) /\ ~Makes(s[n], p))
  <2>1. \A i \in 1 .. Len(r) : First(r, i, p) => i \in 1 .. a \/ i = a + n
    BY <1>4, <1>5 DEF First
  <2>2. First(r, a + n, p) <=> Untouched(q, p)
    <3>1. \A j \in 1 .. (a + n) - 1 : j \in 1 .. a \/ (j \in a + 1 .. Len(r) /\ j # a + n)
      BY <1>1, <1>3
    <3>2. \A j \in 1 .. a : j \in 1 .. (a + n) - 1
      BY <1>1, <1>3
    <3>3. \A j \in 1 .. (a + n) - 1 : j \in 1 .. a \/ ~Touches(r[j], p)
      BY <1>4, <3>1
    <3> QED
      BY <1>1, <1>3, <3>2, <3>3 DEF First, Untouched
  <2>3. \A i \in 1 .. a : i \in 1 .. Len(r)
    BY <1>1
  <2>4. ASSUME BreakFirst(r, p)
        PROVE  BreakFirst(q, p) \/ (Untouched(q, p) /\ ~Makes(s[n], p))
    <3>1. PICK i \in 1 .. Len(r) : First(r, i, p) /\ ~Makes(r[i], p)
      BY <2>4 DEF BreakFirst
    <3> QED
      BY <1>1, <1>2, <1>3, <2>1, <2>2, <3>1 DEF BreakFirst
  <2>5. ASSUME BreakFirst(q, p) \/ (Untouched(q, p) /\ ~Makes(s[n], p))
        PROVE  BreakFirst(r, p)
    <3>1. CASE BreakFirst(q, p)
      BY <1>1, <1>2, <2>3, <3>1 DEF BreakFirst
    <3>2. CASE Untouched(q, p) /\ ~Makes(s[n], p)
      BY <1>3, <2>2, <3>2 DEF BreakFirst
    <3> QED
      BY <2>5, <3>1, <3>2
  <2> QED
    BY <2>4, <2>5
<1>15. Cardinality(G) = Cardinality(F) + One(Makes(s[n], p) /\ ~HeldAtEnd(q, held, p))
  BY <1>11, <1>12, Zenon
<1> QED
  BY <1>7, <1>13, <1>14, <1>15, Zenon DEF r, G, F

\* From where they agree on it, two sets of held keys make no difference.
LEMMA HeldOnceAgreed ==
  ASSUME NEW q, NEW x, NEW y, NEW p, NEW a \in Nat \ {0}, NEW b \in Nat, a <= b,
         HeldAt(q, x, a, p) => HeldAt(q, y, a, p), HeldAt(q, x, b, p)
  PROVE  HeldAt(q, y, b, p)
<1>1. PICK j \in 0 .. b - 1 : /\ IF j = 0 THEN p \in x ELSE Makes(q[j], p)
                              /\ \A l \in j + 1 .. b - 1 : ~Breaks(q[l], p)
  BY DEF HeldAt
<1>2. CASE j >= a
  <2>1. j # 0
    BY <1>2
  <2> QED
    BY <1>1, <2>1 DEF HeldAt
<1>3. CASE j < a
  <2>1. j \in 0 .. a - 1 /\ \A l \in j + 1 .. a - 1 : l \in j + 1 .. b - 1
    BY <1>3
  <2>2. HeldAt(q, x, a, p)
    BY <1>1, <2>1 DEF HeldAt
  <2>3. PICK n \in 0 .. a - 1 : /\ IF n = 0 THEN p \in y ELSE Makes(q[n], p)
                                /\ \A l \in n + 1 .. a - 1 : ~Breaks(q[l], p)
    BY <2>2 DEF HeldAt
  <2>4. n \in 0 .. b - 1 /\ \A l \in n + 1 .. b - 1 : l \in n + 1 .. a - 1 \/
        l \in j + 1 .. b - 1
    BY <1>3
  <2> QED
    BY <1>1, <2>3, <2>4 DEF HeldAt
<1> QED
  BY <1>2, <1>3

LEMMA SomeFirst ==
  ASSUME NEW S, NEW q \in Seq(S), NEW p, ~Untouched(q, p)
  PROVE  \E i \in 1 .. Len(q) : First(q, i, p)
<1> DEFINE T == {i \in 1 .. Len(q) : Touches(q[i], p)}
<1>1. T \in SUBSET Nat /\ T # {}
  BY DEF Untouched
<1>2. PICK i \in T : \A j \in T : i <= j
  <2> HIDE DEF T
  <2> QED
    BY <1>1, LeastNatural
<1>3. i \in 1 .. Len(q) /\ Touches(q[i], p) /\ Len(q) \in Nat
  OBVIOUS
<1>4. \A j \in 1 .. i - 1 : j \in 1 .. Len(q) /\ ~(i <= j)
  BY <1>3
<1>5. \A j \in 1 .. i - 1 : ~Touches(q[j], p)
  BY <1>2, <1>4
<1> QED
  BY <1>3, <1>5 DEF First

\* What it makes for the end of the queue whether a key was held before it: all, if no
\* message touches it; nothing, if a break comes first; if a make does, whether that is
\* a press.
MakeFirst(q, p) == \E i \in 1 .. Len(q) : Makes(q[i], p)

LEMMA HeldOrNot ==
  ASSUME NEW S, NEW q \in Seq(S), NEW p, NEW more, NEW less, p \in more, p \notin less
  PROVE  LET with    == Cardinality(Fresh(q, more, p))
             without == Cardinality(Fresh(q, less, p)) IN
         \/ /\ Untouched(q, p) /\ without = with
            /\ HeldAtEnd(q, more, p) /\ ~HeldAtEnd(q, less, p)
         \/ /\ BreakFirst(q, p) /\ ~Untouched(q, p) /\ without = with
            /\ HeldAtEnd(q, more, p) <=> HeldAtEnd(q, less, p)
         \/ /\ ~BreakFirst(q, p) /\ ~Untouched(q, p) /\ MakeFirst(q, p) /\ without = with + 1
            /\ HeldAtEnd(q, more, p) <=> HeldAtEnd(q, less, p)
<1>1. Len(q) \in Nat
  OBVIOUS
<1>2. HeldAt(q, more, 1, p) /\ ~HeldAt(q, less, 1, p)
  BY HeldNext
<1>3. CASE Untouched(q, p)
  <2>1. Fresh(q, more, p) = {} /\ Fresh(q, less, p) = {}
    BY <1>3 DEF Fresh, Untouched, Touches
  <2>2. HeldAt(q, more, Len(q) + 1, p) /\ ~HeldAt(q, less, Len(q) + 1, p)
    <3>1. Len(q) + 1 \in Nat /\ 1 <= Len(q) + 1 /\ 1 \in Nat \ {0}
          /\ \A l \in 1 .. (Len(q) + 1) - 1 : l \in 1 .. Len(q)
      BY <1>1
    <3> QED
      BY <1>2, <1>3, <3>1, HeldOn DEF Untouched
  <2> QED
    BY <1>3, <2>1, <2>2 DEF HeldAtEnd
<1>4. CASE ~Untouched(q, p)
  <2>1. PICK i \in 1 .. Len(q) : First(q, i, p)
    BY <1>4, SomeFirst
  <2>2. i \in Nat \ {0} /\ Touches(q[i], p) /\ \A j \in 1 .. i - 1 : ~Touches(q[j], p)
    BY <2>1 DEF First
  <2>3. \A j \in 1 .. Len(q) : First(q, j, p) => j = i
    <3>1. \A j \in 1 .. Len(q) : j < i => j \in 1 .. i - 1
      BY <2>2
    <3>2. \A j \in 1 .. Len(q) : i < j => i \in 1 .. j - 1
      BY <2>2
    <3>3. \A j \in 1 .. Len(q) : j < i \/ i < j \/ j = i
      BY <2>2
    <3> QED
      BY <2>1, <3>1, <3>2, <3>3 DEF First
  <2>4. ASSUME NEW a \in 1 .. i
        PROVE  HeldAt(q, more, a, p) /\ ~HeldAt(q, less, a, p)
    <3>1. a \in Nat /\ 1 <= a /\ 1 \in Nat \ {0} /\ \A l \in 1 .. a - 1 : l \in 1 .. i - 1
      BY <2>2
    <3> QED
      BY <1>2, <2>2, <3>1, HeldOn
  <2>5. HeldAt(q, more, i + 1, p) <=> HeldAt(q, less, i + 1, p)
    <3>1. i \in 1 .. i
      BY <2>2
    <3> QED
      BY <2>2, <2>4, <3>1, HeldNext DEF Touches
  <2>6. ASSUME NEW b \in Nat, i < b
        PROVE  HeldAt(q, more, b, p) <=> HeldAt(q, less, b, p)
    <3>1. i + 1 \in Nat \ {0} /\ i + 1 <= b
      BY <2>2, <2>6
    <3> QED
      BY <2>5, <3>1, HeldOnceAgreed
  <2>7. HeldAtEnd(q, more, p) <=> HeldAtEnd(q, less, p)
    <3>1. Len(q) + 1 \in Nat /\ i < Len(q) + 1
      BY <1>1, <2>2
    <3> QED
      BY <2>6, <3>1 DEF HeldAtEnd
  <2> DEFINE G == Fresh(q, less, p)
             F == Fresh(q, more, p)
  <2>8. \A l \in 1 .. Len(q) : l # i => (l \in G <=> l \in F)
    <3> SUFFICES ASSUME NEW l \in 1 .. Len(q), l # i
                 PROVE  l \in G <=> l \in F
      OBVIOUS
    <3>1. CASE l < i
      <4>1. l \in 1 .. i - 1
        BY <2>2, <3>1
      <4> QED
        BY <2>2, <4>1 DEF Fresh, Touches
    <3>2. CASE i < l
      <4>1. l \in Nat
        OBVIOUS
      <4> QED
        BY <2>6, <3>2, <4>1 DEF Fresh
    <3>3. l < i \/ i < l
      BY <2>2
    <3> QED
      BY <3>1, <3>2, <3>3
  <2>9. i \notin F /\ (i \in G <=> Makes(q[i], p))
    <3>1. i \in 1 .. i
      BY <2>2
    <3> QED
      BY <2>4, <3>1 DEF Fresh
  <2>10. F \subseteq 1 .. Len(q) /\ G \subseteq 1 .. Len(q)
    BY DEF Fresh
  <2>11. IsFiniteSet(F) /\ Cardinality(F) \in Nat
    BY FreshCounts
  <2>12. BreakFirst(q, p) <=> ~Makes(q[i], p)
    BY <2>1, <2>3 DEF BreakFirst
  <2> HIDE DEF F, G
  <2>13. CASE Makes(q[i], p)
    <3>1. G = F \cup {i}
      BY <2>8, <2>9, <2>10, <2>13
    <3>2. Cardinality(G) = Cardinality(F) + 1
      BY <2>9, <2>11, <3>1, FS_AddElement
    <3>3. MakeFirst(q, p)
      BY <2>13 DEF MakeFirst
    <3> QED
      BY <1>4, <2>7, <2>12, <2>13, <3>2, <3>3 DEF F, G
  <2>14. CASE ~Makes(q[i], p)
    <3>1. \A l \in 1 .. Len(q) : l \in G <=> l \in F
      BY <2>8, <2>9, <2>14, Zenon
    <3>2. G = F
      BY <2>10, <3>1
    <3> QED
      BY <1>4, <2>7, <2>12, <2>14, <3>2 DEF F, G
  <2> QED
    BY <2>13, <2>14
<1> QED
  BY <1>3, <1>4

-------------------------------------------------------------------------------
(* The types of what is queued and counted. *)
InputMail ==
  {m \in [kind : {"input"}, device : Devices, event : Events, is_break : BOOLEAN] :
     KeyOf(m) \in (layout[m.device] \ MouseButtons) \cup {NoKey}}
MouseMail ==
  {m \in [kind : {"mouse"}, device : Devices,
          downs : SUBSET MouseButtons, ups : SUBSET MouseButtons] :
     m.downs \cup m.ups \subseteq layout[m.device] /\ m.downs \cap m.ups = {}}
RemovalMail == [kind : {"removal"}, device : Devices]
Mail == InputMail \cup MouseMail \cup RemovalMail

KeysTyped ==
  /\ layout \in Layouts
  /\ plugged \subseteq Devices
  /\ down \in [Devices -> SUBSET PhysicalKeys]
  /\ \A d \in Devices : down[d] \subseteq layout[d]
  /\ async \subseteq SystemKeys
  /\ \A k \in async : \E d \in Devices : k \in layout[d]

CounterTyped ==
  /\ pressed \subseteq PressedKeys
  /\ counts \in [KeyIds -> Nat]
  /\ \A k \in KeyIds : counts[k] > 0 => \E d \in Devices : k \in layout[d]
  /\ is_paused \in BOOLEAN

SourceTyped ==
  /\ sampling \in BOOLEAN
  /\ sampled_alt_tab_down \in BOOLEAN
  /\ ui \in {"idle", "sample", "refresh"}

TallyTyped ==
  /\ {presses, recorded, paused_over, early} \subseteq [PressedKeys -> Nat]
  /\ {repeats, lost, pauses, clears} \subseteq Nat

Typed == KeysTyped /\ queue \in Seq(Mail) /\ CounterTyped /\ SourceTyped /\ TallyTyped

\* The keys of a run, and as what they count.
LEMMA KeyFacts ==
  /\ SystemKeys \subseteq KeyboardKeys /\ Alts \subseteq SystemKeys
  /\ "Tab" \in SystemKeys /\ "Tab" \notin Alts
  /\ KeyboardKeys \cap MouseButtons = {}
  /\ NoKey \notin PhysicalKeys
  /\ ReleasesAtOnce \cap SystemKeys = {} /\ ReleasesAtOnce \subseteq KeyboardKeys
<1> USE DEF SystemKeys, Alts, KeyboardKeys, MouseButtons, ReleasesAtOnce
<1>1. SystemKeys \subseteq KeyboardKeys /\ Alts \subseteq SystemKeys
      /\ "Tab" \in SystemKeys /\ "Tab" \notin Alts
  OBVIOUS
<1>2. KeyboardKeys \cap MouseButtons = {}
  OBVIOUS
<1>3. NoKey \notin PhysicalKeys
  BY DEF NoKey, PhysicalKeys
<1>4. ReleasesAtOnce \cap SystemKeys = {} /\ ReleasesAtOnce \subseteq KeyboardKeys
  OBVIOUS
<1> QED
  BY <1>1, <1>2, <1>3, <1>4

LEMMA LayoutFacts ==
  ASSUME KeysTyped
  PROVE  /\ layout \in [Devices -> SUBSET PhysicalKeys]
         /\ \A d \in Devices : layout[d] \subseteq PhysicalKeys /\ NoKey \notin layout[d]
  BY InputAssumption, KeyFacts DEF KeysTyped

LEMMA PressedKeyFacts ==
  ASSUME KeysTyped
  PROVE  /\ \A d \in Devices : \A k \in layout[d] : PressedKey(d, k) \in PressedKeys
         /\ \A p \in PressedKeys : \E d \in Devices :
              p[2] \in layout[d] /\ p = PressedKey(d, p[2])
         /\ \A d, k : PressedKey(d, k)[2] = k
         /\ \A k : \A d \in Devices : PressedKey(d, k)[1] = 0 <=> k = "Tab"
         /\ \A d, e, k, l : PressedKey(d, k) = PressedKey(e, l) =>
                            k = l /\ (d = e \/ k = "Tab")
         /\ \A d, e : PressedKey(d, "Tab") = <<0, "Tab">>
<1>1. \A d \in Devices : \A k \in layout[d] : PressedKey(d, k) \in PressedKeys
  BY DEF PressedKeys, HeldAs
<1>2. \A d, k : PressedKey(d, k)[2] = k
  BY DEF PressedKey
<1>3. \A p \in PressedKeys : \E d \in Devices : p[2] \in layout[d] /\ p = PressedKey(d, p[2])
  BY <1>2 DEF PressedKeys, HeldAs
<1>4. \A k : \A d \in Devices : PressedKey(d, k)[1] = 0 <=> k = "Tab"
  BY InputAssumption DEF PressedKey
<1>5. \A d, e, k, l : PressedKey(d, k) = PressedKey(e, l) => k = l /\ (d = e \/ k = "Tab")
  BY DEF PressedKey
<1>6. \A d : PressedKey(d, "Tab") = <<0, "Tab">>
  BY DEF PressedKey
<1> QED
  BY <1>1, <1>2, <1>3, <1>4, <1>5, <1>6

LEMMA KeyOfInput ==
  ASSUME NEW d, NEW e, NEW b
  PROVE  LET m == [kind |-> "input", device |-> d, event |-> e, is_break |-> b] IN
         KeyOf(m) = EventKey(e)
  BY DEF KeyOf, EventKey

LEMMA IncreasedFacts ==
  ASSUME NEW D, NEW f \in [D -> Nat], NEW X
  PROVE  /\ Increased(f, X) \in [D -> Nat]
         /\ \A x \in D : Increased(f, X)[x] = f[x] + One(x \in X)
  BY DEF Increased, One

\* What a key sends is mail, and one of its messages is of the key.
LEMMA MessagesFacts ==
  ASSUME Typed, NEW d \in Devices, NEW k \in layout[d] \ MouseButtons,
         NEW signal \in Signals[k], NEW b \in BOOLEAN
  PROVE  LET s == Messages(d, signal, b) IN
         /\ s \in Seq(Mail)
         /\ \A p \in PressedKeys : p # PressedKey(d, k) => Untouched(s, p)
         /\ \E n : TouchedOnce(s, PressedKey(d, k), n) /\
            (Makes(s[n], PressedKey(d, k)) <=> ~b)
<1> DEFINE s == Messages(d, signal, b)
           p == PressedKey(d, k)
<1>1. k \in KeyboardKeys /\ k # NoKey
  BY LayoutFacts, KeyFacts DEF Typed, PhysicalKeys
<1>2. PICK n \in 1 .. Len(signal) : \A i \in 1 .. Len(signal) :
        EventKey(signal[i]) = IF i = n THEN k ELSE NoKey
  BY <1>1, SignalsAreOfKeys DEF IsSignal
<1>3. signal \in Seq(Events)
  BY <1>1, SignalsAreOfKeys DEF IsSignal
<1>4. Len(signal) \in Nat /\ DOMAIN signal = 1 .. Len(signal)
      /\ \A i \in 1 .. Len(signal) : signal[i] \in Events
  BY <1>3
<1>5. /\ DOMAIN s = 1 .. Len(signal)
      /\ \A i \in 1 .. Len(signal) :
           s[i] = [kind |-> "input", device |-> d, event |-> signal[i], is_break |-> b]
  BY <1>4 DEF Messages
<1>6. \A i \in 1 .. Len(signal) : KeyOf(s[i]) = IF i = n THEN k ELSE NoKey
  BY <1>2, <1>5, KeyOfInput
<1>7. \A i \in 1 .. Len(signal) : s[i] \in Mail
  <2> SUFFICES ASSUME NEW i \in 1 .. Len(signal)
               PROVE  s[i] \in Mail
    OBVIOUS
  <2>1. s[i] \in [kind : {"input"}, device : Devices, event : Events, is_break : BOOLEAN]
        /\ s[i].device = d
    BY <1>4, <1>5
  <2>2. KeyOf(s[i]) \in (layout[d] \ MouseButtons) \cup {NoKey}
    BY <1>6
  <2> QED
    BY <2>1, <2>2 DEF Mail, InputMail
<1>8. s \in Seq(Mail) /\ Len(s) = Len(signal)
  <2>1. s = [i \in 1 .. Len(signal) |-> s[i]]
    BY <1>4 DEF Messages
  <2> HIDE DEF s
  <2>2. s \in [1 .. Len(signal) -> Mail]
    BY <1>7, <2>1
  <2> QED
    BY <1>4, <2>2
<1> HIDE DEF s
<1>9. ASSUME NEW i \in 1 .. Len(signal), NEW x
      PROVE  /\ Makes(s[i], x) <=> i = n /\ x = p /\ ~b
             /\ Breaks(s[i], x) <=> i = n /\ x = p /\ b
  <2>1. /\ s[i].kind = "input" /\ s[i].device = d /\ s[i].is_break = b
        /\ "input" # "mouse" /\ "input" # "removal"
    BY <1>5
  <2>2. KeyOf(s[i]) # NoKey <=> i = n
    BY <1>1, <1>6
  <2>3. i = n => KeyOf(s[i]) = k
    BY <1>6
  <2> QED
    BY <2>1, <2>2, <2>3 DEF Makes, Breaks
<1>10. \A x \in PressedKeys : x # p => Untouched(s, x)
  BY <1>8, <1>9 DEF Untouched, Touches
<1>11. TouchedOnce(s, p, n) /\ (Makes(s[n], p) <=> ~b)
  BY <1>8, <1>9 DEF TouchedOnce, Touches
<1> QED
  BY <1>8, <1>10, <1>11 DEF s

LEMMA MailFacts ==
  ASSUME KeysTyped, NEW m \in Mail
  PROVE  /\ m.device \in Devices
         /\ \A p : ~(Makes(m, p) /\ Breaks(m, p))
         /\ m.kind = "input" => m \in InputMail
         /\ m.kind = "mouse" => m \in MouseMail
         /\ KeyOf(m) \in (layout[m.device] \ MouseButtons) \cup {NoKey}
         /\ KeyOf(m) # NoKey => m.kind = "input"
<1>1. CASE m \in InputMail
  <2>1. m.kind = "input" /\ "input" # "mouse" /\ "input" # "removal" /\ m.device \in Devices
        /\ KeyOf(m) \in (layout[m.device] \ MouseButtons) \cup {NoKey}
    BY <1>1 DEF InputMail
  <2> QED
    BY <1>1, <2>1 DEF Makes, Breaks
<1>2. CASE m \in MouseMail
  <2>1. m.kind = "mouse" /\ m.device \in Devices /\ m.downs \cap m.ups = {} /\ KeyOf(m) = NoKey
        /\ "mouse" # "input" /\ "mouse" # "removal"
    BY <1>2 DEF MouseMail, KeyOf
  <2>2. \A p : p \in HeldAs(m.device, m.downs) => p \notin HeldAs(m.device, m.ups)
    BY <2>1 DEF HeldAs, PressedKey
  <2> QED
    BY <1>2, <2>1, <2>2 DEF Makes, Breaks
<1>3. CASE m \in RemovalMail
  <2>1. m.kind = "removal" /\ m.device \in Devices /\ KeyOf(m) = NoKey
        /\ "removal" # "input" /\ "mouse" # "removal"
    BY <1>3 DEF RemovalMail, KeyOf
  <2> QED
    BY <2>1 DEF Makes, Breaks
<1> QED
  BY <1>1, <1>2, <1>3 DEF Mail

LEMMA HeadFacts ==
  ASSUME Typed, queue # << >>
  PROVE  /\ Head(queue) = queue[1]
         /\ Head(queue) \in Mail
         /\ Tail(queue) \in Seq(Mail)
         /\ Head(queue).device \in Devices
         /\ KeyOf(Head(queue)) # NoKey =>
              /\ KeyOf(Head(queue)) \in layout[Head(queue).device] \ MouseButtons
              /\ KeyOf(Head(queue)) \in KeyboardKeys
              /\ PressedKey(Head(queue).device, KeyOf(Head(queue))) \in PressedKeys
<1>1. queue \in Seq(Mail) /\ KeysTyped
  BY DEF Typed
<1>2. Head(queue) = queue[1] /\ Head(queue) \in Mail /\ Tail(queue) \in Seq(Mail)
  BY <1>1
<1> QED
  BY <1>1, <1>2, MailFacts, PressedKeyFacts, LayoutFacts DEF PhysicalKeys

LEMMA TypesHold == Typed => TypeOK
<1> SUFFICES ASSUME Typed
             PROVE  TypeOK
  OBVIOUS
<1>1. KeysTyped
  BY DEF Typed
<1>2. ASSUME NEW p \in pressed
      PROVE  IF p[1] = 0 THEN p[2] = "Tab" ELSE p[2] \in layout[p[1]] \ {"Tab"}
  <2>1. p \in PressedKeys
    BY DEF Typed, CounterTyped
  <2>2. PICK d \in Devices : p[2] \in layout[d] /\ p = PressedKey(d, p[2])
    BY <1>1, <2>1, PressedKeyFacts
  <2>3. p[1] = IF p[2] = "Tab" THEN 0 ELSE d
    BY <2>2 DEF PressedKey
  <2> QED
    BY <2>2, <2>3, InputAssumption
<1>3. ASSUME NEW i \in DOMAIN queue
      PROVE  KeyOf(queue[i]) \in layout[queue[i].device] \cup {NoKey}
  <2>1. queue[i] \in Mail
    BY DEF Typed
  <2> QED
    BY <1>1, <2>1, MailFacts
<1> QED
  BY <1>1, <1>2, <1>3 DEF TypeOK, Typed, KeysTyped, CounterTyped, SourceTyped

LEMMA SameRun ==
  layout' = layout => PressedKeys' = PressedKeys /\ Mail' = Mail
  BY DEF PressedKeys, Mail, InputMail, MouseMail, RemovalMail

LEMMA InitTyped == Init => Typed
<1> SUFFICES ASSUME Init
             PROVE  Typed
  OBVIOUS
<1> USE DEF Init
<1>1. layout \in [Devices -> SUBSET PhysicalKeys]
  BY InputAssumption
<1>2. KeysTyped
  BY <1>1 DEF KeysTyped
<1>3. queue \in Seq(Mail)
  OBVIOUS
<1>4. CounterTyped
  <2>1. counts = [k \in KeyIds |-> 0] /\ pressed = {} /\ is_paused = FALSE
    BY DEF CounterInit, NoCounts
  <2>2. counts \in [KeyIds -> Nat] /\ \A k \in KeyIds : ~(counts[k] > 0)
    BY <2>1
  <2> QED
    BY <2>1, <2>2 DEF CounterTyped
<1>5. SourceTyped
  BY DEF SourceTyped
<1>6. TallyTyped
  BY DEF TallyTyped
<1> QED
  BY <1>2, <1>3, <1>4, <1>5, <1>6 DEF Typed

\* How the steps are grouped: what the keys and Windows do, and what the UI thread does.
KeyMoves == \E d \in Devices, k \in PhysicalKeys : PressKey(d, k) \/ RepeatKey(d, k) \/
            LetGo(d, k)
Moves ==
  \/ KeyMoves
  \/ \E d \in Devices, buttons \in SUBSET MouseButtons : MoveButtons(d, buttons)
  \/ \E d \in Devices : Unplug(d)
Handles ==
  \/ HandleInput \/ HandleTimer \/ TogglePause \/ Clear
  \/ \E timer \in {"sample", "refresh"} : TakeTimer(timer)

LEMMA StepGroups ==
  /\ Next => Moves \/ Handles
  /\ Moves \/ Handles => layout' = layout
  /\ Moves => UNCHANGED <<counter, source, tally, pauses, clears>>
  /\ Handles => UNCHANGED <<layout, plugged, down, async, presses, repeats, lost>>
<1>1. Next => Moves \/ Handles
  BY DEF Next, Moves, KeyMoves, Handles
<1>2. Moves => UNCHANGED <<layout, counter, source, tally, pauses, clears>>
  BY DEF Moves, KeyMoves, PressKey, RepeatKey, LetGo, MoveButtons, Unplug, bounds
<1>3. ASSUME HandleInput
      PROVE  UNCHANGED <<layout, plugged, down, async, presses, repeats, lost>>
  BY <1>3 DEF HandleInput, DropInput, HandleKey, HandleAltMake, HandleAltBreak, HandleMouse,
              HandleRemoval, bounds
<1>4. ASSUME HandleTimer
      PROVE  UNCHANGED <<layout, plugged, down, async, presses, repeats, lost>>
  BY <1>4 DEF HandleTimer, SampleEnds, Sample, Reconcile, bounds, windows
<1>5. ASSUME \/ TogglePause \/ Clear
             \/ \E timer \in {"sample", "refresh"} : TakeTimer(timer)
      PROVE  UNCHANGED <<layout, plugged, down, async, presses, repeats, lost>>
  BY <1>5 DEF TogglePause, Clear, TakeTimer, bounds, windows
<1> QED
  BY <1>1, <1>2, <1>3, <1>4, <1>5 DEF Handles

LEMMA StepKeysTyped == Typed /\ Next => KeysTyped'
<1> SUFFICES ASSUME Typed, Next
             PROVE  KeysTyped'
  OBVIOUS
<1> USE DEF KeysTyped
<1>1. KeysTyped /\ layout' = layout
  BY StepGroups DEF Typed
<1>2. layout \in [Devices -> SUBSET PhysicalKeys] /\
      \A d \in Devices : layout[d] \subseteq PhysicalKeys
  BY <1>1, LayoutFacts
<1>3. CASE Handles
  BY <1>1, <1>3, StepGroups
<1>4. ASSUME NEW d \in Devices, NEW k \in PhysicalKeys, PressKey(d, k)
      PROVE  KeysTyped'
  <2>1. /\ down' = [down EXCEPT ![d] = @ \cup {k}] /\ plugged' = plugged /\ k \in layout[d]
        /\ async' = async \cup ({k} \cap SystemKeys)
    BY <1>4 DEF PressKey
  <2>2. down' \in [Devices -> SUBSET PhysicalKeys]
    BY <1>1, <2>1
  <2>3. \A e \in Devices : down'[e] \subseteq layout[e]
    BY <1>1, <2>1
  <2>4. async' \subseteq SystemKeys /\ \A l \in async' : \E e \in Devices : l \in layout[e]
    BY <1>1, <2>1
  <2> QED
    BY <1>1, <2>1, <2>2, <2>3, <2>4
<1>5. ASSUME NEW d \in Devices, NEW k \in PhysicalKeys, RepeatKey(d, k)
      PROVE  KeysTyped'
  <2>1. /\ UNCHANGED <<down, plugged>> /\ k \in down[d]
        /\ async' = async \cup ({k} \cap SystemKeys)
    BY <1>5 DEF RepeatKey
  <2>2. k \in layout[d]
    BY <1>1, <2>1
  <2>3. async' \subseteq SystemKeys /\ \A l \in async' : \E e \in Devices : l \in layout[e]
    BY <1>1, <2>1, <2>2
  <2> QED
    BY <1>1, <2>1, <2>3
<1>6. ASSUME NEW d \in Devices, NEW k \in PhysicalKeys, LetGo(d, k)
      PROVE  KeysTyped'
  <2>1. /\ down' = [down EXCEPT ![d] = @ \ {k}] /\ plugged' = plugged
        /\ async' = async \ {k}
    BY <1>6 DEF LetGo
  <2>2. down' \in [Devices -> SUBSET PhysicalKeys]
    BY <1>1, <2>1
  <2>3. \A e \in Devices : down'[e] \subseteq layout[e]
    BY <1>1, <2>1
  <2> QED
    BY <1>1, <2>1, <2>2, <2>3
<1>7. ASSUME NEW d \in Devices, NEW buttons \in SUBSET MouseButtons, MoveButtons(d, buttons)
      PROVE  KeysTyped'
  <2>1. /\ down' = [down EXCEPT ![d] = (@ \cup (buttons \ down[d])) \ (buttons \cap down[d])]
        /\ UNCHANGED <<plugged, async>> /\ buttons \subseteq layout[d]
    BY <1>7 DEF MoveButtons
  <2>2. down' \in [Devices -> SUBSET PhysicalKeys]
    BY <1>1, <1>2, <2>1
  <2>3. \A e \in Devices : down'[e] \subseteq layout[e]
    BY <1>1, <2>1
  <2> QED
    BY <1>1, <2>1, <2>2, <2>3
<1>8. ASSUME NEW d \in Devices, Unplug(d)
      PROVE  KeysTyped'
  <2>1. /\ down' = [down EXCEPT ![d] = {}] /\ plugged' = plugged \ {d}
        /\ async' \in {async, async \ down[d]}
    BY <1>8 DEF Unplug
  <2>2. down' \in [Devices -> SUBSET PhysicalKeys]
    BY <1>1, <2>1
  <2>3. \A e \in Devices : down'[e] \subseteq layout[e]
    BY <1>1, <2>1
  <2> QED
    BY <1>1, <2>1, <2>2, <2>3
<1> QED
  BY <1>3, <1>4, <1>5, <1>6, <1>7, <1>8, StepGroups DEF Moves, KeyMoves

LEMMA ClickIsMail ==
  ASSUME KeysTyped, NEW d \in Devices, NEW buttons \in SUBSET (layout[d] \cap MouseButtons)
  PROVE  Click(d, buttons \ down[d], buttons \cap down[d]) \in MouseMail
  BY DEF Click, MouseMail

LEMMA KeyMessagesTyped ==
  ASSUME Typed, NEW d \in Devices, NEW k \in layout[d] \ MouseButtons,
         NEW signal \in Signals[k]
  PROVE  PressMessages(d, k, signal) \in Seq(Mail) /\
         ReleaseMessages(d, k, signal) \in Seq(Mail)
<1> DEFINE make == Messages(d, signal, FALSE)
           break == Messages(d, signal, TRUE)
<1>1. make \in Seq(Mail) /\ break \in Seq(Mail)
  BY MessagesFacts
<1>2. << >> \in Seq(Mail)
  OBVIOUS
<1>3. CASE k \in ReleasesAtOnce
  <2>1. PressMessages(d, k, signal) = make \o break /\ ReleaseMessages(d, k, signal) = << >>
    BY <1>3, Zenon DEF PressMessages, ReleaseMessages
  <2> HIDE DEF make, break
  <2> QED
    BY <1>1, <1>2, <2>1, JoinFacts
<1>4. CASE k \notin ReleasesAtOnce
  <2>1. PressMessages(d, k, signal) = make \o << >> /\ ReleaseMessages(d, k, signal) = break
    BY <1>4, Zenon DEF PressMessages, ReleaseMessages
  <2> HIDE DEF make, break
  <2> QED
    BY <1>1, <1>2, <2>1, JoinFacts
<1> QED
  BY <1>3, <1>4

LEMMA DeliverTyped ==
  ASSUME NEW k, NEW messages \in Seq(Mail), queue \in Seq(Mail), Deliver(k, messages)
  PROVE  queue' \in Seq(Mail)
<1>1. CASE queue' = queue \o messages
  BY <1>1, JoinFacts
<1>2. CASE queue' = queue
  BY <1>2
<1> QED
  BY <1>1, <1>2 DEF Deliver

\* The queue only gains mail.
LEMMA StepQueueTyped == Typed /\ Next => queue' \in Seq(Mail)
<1> SUFFICES ASSUME Typed, Next
             PROVE  queue' \in Seq(Mail)
  OBVIOUS
<1>1. queue \in Seq(Mail) /\ KeysTyped
  BY DEF Typed
<1>2. ASSUME NEW d \in Devices, NEW k \in PhysicalKeys, PressKey(d, k)
      PROVE  queue' \in Seq(Mail)
  <2>1. k \in layout[d] \ MouseButtons
    BY <1>2 DEF PressKey
  <2>2. PICK signal \in Signals[k] : Deliver(k, PressMessages(d, k, signal))
    BY <1>2 DEF PressKey
  <2>3. PressMessages(d, k, signal) \in Seq(Mail)
    BY <2>1, KeyMessagesTyped
  <2> QED
    BY <1>1, <2>2, <2>3, DeliverTyped
<1>3. ASSUME NEW d \in Devices, NEW k \in PhysicalKeys, RepeatKey(d, k)
      PROVE  queue' \in Seq(Mail)
  <2>1. k \in layout[d] \ MouseButtons
    BY <1>1, <1>3, InputAssumption DEF RepeatKey, KeysTyped
  <2>2. PICK signal \in Signals[k] : queue' = queue \o Messages(d, signal, FALSE)
    BY <1>3 DEF RepeatKey
  <2>3. Messages(d, signal, FALSE) \in Seq(Mail)
    BY <2>1, MessagesFacts
  <2> QED
    BY <1>1, <2>2, <2>3, JoinFacts
<1>4. ASSUME NEW d \in Devices, NEW k \in PhysicalKeys, LetGo(d, k)
      PROVE  queue' \in Seq(Mail)
  <2>1. k \in layout[d] \ MouseButtons
    BY <1>1, <1>4 DEF LetGo, KeysTyped
  <2>2. PICK signal \in Signals[k] : Deliver(k, ReleaseMessages(d, k, signal))
    BY <1>4 DEF LetGo
  <2>3. ReleaseMessages(d, k, signal) \in Seq(Mail)
    BY <2>1, KeyMessagesTyped
  <2> QED
    BY <1>1, <2>2, <2>3, DeliverTyped
<1>5. ASSUME NEW d \in Devices, NEW buttons \in SUBSET MouseButtons, MoveButtons(d, buttons)
      PROVE  queue' \in Seq(Mail)
  <2>1. Click(d, buttons \ down[d], buttons \cap down[d]) \in Mail
    BY <1>1, <1>5, ClickIsMail DEF MoveButtons, Mail
  <2> QED
    BY <1>1, <1>5, <2>1 DEF MoveButtons
<1>6. ASSUME NEW d \in Devices, Unplug(d)
      PROVE  queue' \in Seq(Mail)
  <2>1. Removal(d) \in Mail
    BY DEF Removal, Mail, RemovalMail
  <2> QED
    BY <1>1, <1>6, <2>1 DEF Unplug
<1>7. ASSUME HandleInput
      PROVE  queue' \in Seq(Mail)
  <2>1. queue # << >> /\ queue' = Tail(queue)
    BY <1>7 DEF HandleInput, DropInput, HandleKey, HandleAltMake, HandleAltBreak, HandleMouse,
                HandleRemoval, NextIsOf
  <2> QED
    BY <2>1, HeadFacts
<1>8. ASSUME \/ HandleTimer \/ TogglePause \/ Clear
             \/ \E timer \in {"sample", "refresh"} : TakeTimer(timer)
      PROVE  queue' \in Seq(Mail)
  BY <1>1, <1>8 DEF HandleTimer, SampleEnds, Sample, Reconcile, TogglePause, Clear,
     TakeTimer, windows
<1> QED
  BY <1>2, <1>3, <1>4, <1>5, <1>6, <1>7, <1>8, StepGroups DEF Moves, KeyMoves, Handles

\* What a message does to the counter: ProcessButton, of a key of a device.
LEMMA ButtonTyped ==
  ASSUME Typed, NEW d, NEW k, NEW b, b \/ PressedKey(d, k) \in PressedKeys,
         ProcessButton(d, k, b), layout' = layout
  PROVE  CounterTyped'
<1>1. /\ pressed \subseteq PressedKeys /\ counts \in [KeyIds -> Nat] /\ is_paused \in BOOLEAN
      /\ \A x \in KeyIds : counts[x] > 0 => \E e \in Devices : x \in layout[e]
  BY DEF Typed, CounterTyped
<1>2. ~b => \E e \in Devices : k \in layout[e]
  <2>1. PressedKey(d, k)[2] = k /\ KeysTyped
    BY DEF PressedKey, Typed
  <2> QED
    BY <2>1, PressedKeyFacts
<1>3. pressed' \subseteq PressedKeys /\ is_paused' \in BOOLEAN
  BY <1>1 DEF ProcessButton, Add
<1> DEFINE X == IF b THEN {} ELSE Counted(d, {k})
<1>4. counts' = Increased(counts, X) /\ X \subseteq {k} /\ (b => X = {})
  BY DEF ProcessButton, Counted
<1> HIDE DEF X
<1>5. counts' \in [KeyIds -> Nat] /\ \A x \in KeyIds : counts'[x] = counts[x] + One(x \in X)
  BY <1>1, <1>4, IncreasedFacts
<1>6. \A x \in KeyIds : x # k \/ b => counts'[x] = counts[x]
  BY <1>1, <1>4, <1>5 DEF One
<1>7. \A x \in KeyIds : counts'[x] > 0 => \E e \in Devices : x \in layout'[e]
  BY <1>1, <1>2, <1>6
<1> QED
  BY <1>3, <1>5, <1>7, SameRun DEF CounterTyped

LEMMA HeadInput ==
  ASSUME Typed, NEW keys, NextIsOf(keys), NoKey \notin keys
  PROVE  LET m == Head(queue) IN
         /\ queue # << >> /\ m.kind = "input" /\ m.is_break \in BOOLEAN /\ m.device \in Devices
         /\ KeyOf(m) \in keys /\ KeyOf(m) \in layout[m.device] \ MouseButtons
         /\ PressedKey(m.device, KeyOf(m)) \in PressedKeys
<1>1. queue # << >> /\ Head(queue).kind = "input" /\ KeyOf(Head(queue)) \in keys
  BY DEF NextIsOf
<1>2. Head(queue) \in InputMail
  BY <1>1, HeadFacts, MailFacts DEF Typed
<1> QED
  BY <1>1, <1>2, HeadFacts DEF InputMail

\* Tab, when the sampler sees it, is a key of the run.
LEMMA SampledTab ==
  ASSUME Typed, "Tab" \in async
  PROVE  <<0, "Tab">> \in PressedKeys
<1>1. PICK d \in Devices : "Tab" \in layout[d]
  BY DEF Typed, KeysTyped
<1> QED
  BY <1>1, PressedKeyFacts DEF Typed

LEMMA StepCounterTyped == Typed /\ Next => CounterTyped'
<1> SUFFICES ASSUME Typed, Next
             PROVE  CounterTyped'
  OBVIOUS
<1>1. /\ pressed \subseteq PressedKeys /\ counts \in [KeyIds -> Nat] /\ is_paused \in BOOLEAN
      /\ \A x \in KeyIds : counts[x] > 0 => \E e \in Devices : x \in layout[e]
      /\ KeysTyped /\ NoKey \notin PhysicalKeys /\ NoKey \notin Alts
      /\ NoKey \notin PhysicalKeys \ Alts
  BY KeyFacts DEF Typed, CounterTyped, PhysicalKeys
<1>2. layout' = layout /\ PressedKeys' = PressedKeys
  BY StepGroups, SameRun
<1>3. ASSUME UNCHANGED counts, pressed' \subseteq pressed, is_paused' \in BOOLEAN
      PROVE  CounterTyped'
  BY <1>1, <1>2, <1>3 DEF CounterTyped
<1>4. CASE Moves
  BY <1>1, <1>3, <1>4, StepGroups DEF counter
<1>5. CASE DropInput
  BY <1>1, <1>3, <1>5 DEF DropInput, counter
<1>6. CASE HandleKey
  BY <1>1, <1>2, <1>6, HeadInput, ButtonTyped DEF HandleKey
<1>7. CASE HandleAltMake
  BY <1>1, <1>2, <1>7, HeadInput, ButtonTyped DEF HandleAltMake
<1>8. CASE HandleAltBreak
  BY <1>1, <1>3, <1>8 DEF HandleAltBreak
<1>9. CASE HandleMouse
  <2> DEFINE m == Head(queue)
             X == Counted(m.device, m.downs)
  <2>1. m \in Mail /\ m.device \in Devices /\ m.kind = "mouse"
    BY <1>9, HeadFacts DEF HandleMouse
  <2>2. m.downs \subseteq layout[m.device]
    BY <1>1, <2>1, MailFacts DEF MouseMail
  <2>3. HeldAs(m.device, m.downs) \subseteq PressedKeys
    BY <1>1, <2>1, <2>2, PressedKeyFacts DEF HeldAs
  <2>4. pressed' \subseteq PressedKeys /\ is_paused' = is_paused /\
        counts' = Increased(counts, X)
    BY <1>1, <1>9, <2>3 DEF HandleMouse
  <2>5. X \subseteq layout[m.device]
    BY <2>2 DEF Counted
  <2> HIDE DEF m, X
  <2>6. counts' \in [KeyIds -> Nat] /\ \A x \in KeyIds : counts'[x] = counts[x] + One(x \in X)
    BY <1>1, <2>4, IncreasedFacts
  <2>7. \A x \in KeyIds : x \notin X => counts'[x] = counts[x]
    BY <1>1, <2>6 DEF One
  <2>8. \A x \in KeyIds : counts'[x] > 0 => \E e \in Devices : x \in layout'[e]
    BY <1>1, <1>2, <2>1, <2>5, <2>7
  <2> QED
    BY <1>1, <1>2, <2>4, <2>6, <2>8 DEF CounterTyped
<1>10. CASE HandleRemoval
  BY <1>1, <1>3, <1>10 DEF HandleRemoval, RemoveDevice, HeldWithout
<1>11. CASE SampleEnds
  <2>1. CASE sampled_alt_tab_down
    BY <1>2, <1>11, <2>1, ButtonTyped DEF SampleEnds
  <2>2. CASE ~sampled_alt_tab_down
    BY <1>1, <1>3, <1>11, <2>2 DEF SampleEnds, counter
  <2> QED
    BY <2>1, <2>2
<1>12. CASE Sample
  <2>1. CASE AltTabDown # sampled_alt_tab_down
    <3>1. ProcessButton(0, "Tab", ~AltTabDown)
      BY <1>12, <2>1, Zenon DEF Sample
    <3>2. AltTabDown => PressedKey(0, "Tab") \in PressedKeys
      BY SampledTab DEF AltTabDown, PressedKey
    <3> QED
      BY <1>2, <3>1, <3>2, ButtonTyped
  <2>2. CASE ~(AltTabDown # sampled_alt_tab_down)
    BY <1>1, <1>3, <1>12, <2>2 DEF Sample, counter
  <2> QED
    BY <2>1, <2>2
<1>13. CASE Reconcile
  BY <1>1, <1>3, <1>13 DEF Reconcile, ReleaseKeys
<1>14. CASE TogglePause
  BY <1>1, <1>3, <1>14 DEF TogglePause, SetPaused
<1>15. CASE Clear
  <2>1. counts' = [k \in KeyIds |-> 0] /\ pressed' = {} /\ is_paused' = is_paused
    BY <1>15 DEF Clear, ClearCounts, NoCounts
  <2> QED
    BY <1>1, <2>1 DEF CounterTyped
<1>16. CASE \E timer \in {"sample", "refresh"} : TakeTimer(timer)
  BY <1>1, <1>3, <1>16 DEF TakeTimer, counter
<1> QED
  BY <1>4, <1>5, <1>6, <1>7, <1>8, <1>9, <1>10, <1>11, <1>12, <1>13, <1>14, <1>15, <1>16,
     StepGroups DEF Handles, HandleInput, HandleTimer

LEMMA StepSourceTyped == Typed /\ Next => SourceTyped'
<1> SUFFICES ASSUME Typed, Next
             PROVE  SourceTyped'
  OBVIOUS
<1>1. SourceTyped
  BY DEF Typed
<1> USE DEF SourceTyped
<1>2. CASE Moves
  BY <1>1, <1>2, StepGroups DEF source
<1>3. CASE HandleInput
  BY <1>1, <1>3 DEF HandleInput, DropInput, HandleKey, HandleAltMake, HandleAltBreak,
                    HandleMouse, HandleRemoval, source
<1>4. CASE HandleTimer
  BY <1>1, <1>4 DEF HandleTimer, SampleEnds, Sample, Reconcile, AltTabDown
<1>5. CASE \/ TogglePause \/ Clear
           \/ \E timer \in {"sample", "refresh"} : TakeTimer(timer)
  BY <1>1, <1>5 DEF TogglePause, Clear, TakeTimer, source
<1> QED
  BY <1>2, <1>3, <1>4, <1>5, StepGroups DEF Handles

LEMMA StepTallyTyped == Typed /\ Next => TallyTyped'
<1> SUFFICES ASSUME Typed, Next
             PROVE  TallyTyped'
  OBVIOUS
<1>1. /\ presses \in [PressedKeys -> Nat] /\ recorded \in [PressedKeys -> Nat]
      /\ paused_over \in [PressedKeys -> Nat] /\ early \in [PressedKeys -> Nat]
      /\ repeats \in Nat /\ lost \in Nat /\ pauses \in Nat /\ clears \in Nat
  BY DEF Typed, TallyTyped
<1>2. PressedKeys' = PressedKeys
  BY StepGroups, SameRun
<1>3. /\ presses' \in [PressedKeys -> Nat] /\ recorded' \in [PressedKeys -> Nat]
      /\ paused_over' \in [PressedKeys -> Nat] /\ early' \in [PressedKeys -> Nat]
      /\ repeats' \in Nat /\ lost' \in Nat /\ pauses' \in Nat /\ clears' \in Nat
      => TallyTyped'
  BY <1>2 DEF TallyTyped
<1>4. /\ \A X : Increased(presses, X) \in [PressedKeys -> Nat]
      /\ \A X : Increased(recorded, X) \in [PressedKeys -> Nat]
      /\ \A X : Increased(paused_over, X) \in [PressedKeys -> Nat]
      /\ \A X : Increased(early, X) \in [PressedKeys -> Nat]
  BY <1>1, IncreasedFacts
<1>5. CASE KeyMoves
  <2>1. /\ UNCHANGED <<tally, pauses, clears>>
        /\ presses' = presses \/ \E X : presses' = Increased(presses, X)
    BY <1>5 DEF KeyMoves, PressKey, RepeatKey, LetGo
  <2>2. repeats' \in {repeats, repeats + 1} /\ lost' \in {lost, lost + 1}
    BY <1>5 DEF KeyMoves, PressKey, RepeatKey, LetGo, Deliver
  <2> QED
    BY <1>1, <1>3, <1>4, <2>1, <2>2 DEF tally
<1>6. CASE \E d \in Devices, buttons \in SUBSET MouseButtons : MoveButtons(d, buttons)
  BY <1>1, <1>3, <1>4, <1>6 DEF MoveButtons, tally
<1>7. CASE \E d \in Devices : Unplug(d)
  BY <1>1, <1>3, <1>7 DEF Unplug, tally, bounds
<1>8. CASE HandleInput
  <2>1. /\ UNCHANGED bounds
        /\ recorded' = recorded \/ \E X : recorded' = Increased(recorded, X)
        /\ paused_over' = paused_over \/ \E X : paused_over' = Increased(paused_over, X)
    BY <1>8 DEF HandleInput, DropInput, HandleKey, HandleAltMake, HandleAltBreak, HandleMouse,
                HandleRemoval, Tally, tally
  <2>2. early' = early \/ \E X : early' = Increased(early, X)
    BY <1>8 DEF HandleInput, DropInput, HandleKey, HandleAltMake, HandleAltBreak, HandleMouse,
                HandleRemoval, CountEarly, tally
  <2> QED
    BY <1>1, <1>3, <1>4, <2>1, <2>2 DEF bounds
<1>9. CASE HandleTimer
  <2>1. /\ UNCHANGED bounds
        /\ recorded' = recorded \/ \E X : recorded' = Increased(recorded, X)
        /\ paused_over' = paused_over \/ \E X : paused_over' = Increased(paused_over, X)
    BY <1>9 DEF HandleTimer, SampleEnds, Sample, Reconcile, Tally, tally
  <2>2. early' = early \/ \E X : early' = Increased(early, X)
    BY <1>9 DEF HandleTimer, SampleEnds, Sample, Reconcile, CountEarly, tally
  <2> QED
    BY <1>1, <1>3, <1>4, <2>1, <2>2 DEF bounds
<1>10. CASE \/ TogglePause \/ Clear
            \/ \E timer \in {"sample", "refresh"} : TakeTimer(timer)
  BY <1>1, <1>3, <1>10 DEF TogglePause, Clear, TakeTimer, tally, bounds
<1> QED
  BY <1>5, <1>6, <1>7, <1>8, <1>9, <1>10, StepGroups DEF Handles, Moves

LEMMA StepTyped == Typed /\ [Next]_vars => Typed'
<1> SUFFICES ASSUME Typed, [Next]_vars
             PROVE  Typed'
  OBVIOUS
<1>1. CASE Next
  <2>1. layout' = layout /\ Mail' = Mail
    BY <1>1, StepGroups, SameRun
  <2>2. queue' \in Seq(Mail')
    BY <1>1, <2>1, StepQueueTyped
  <2> QED
    BY <1>1, <2>2, StepKeysTyped, StepCounterTyped, StepSourceTyped, StepTallyTyped DEF Typed
<1>2. CASE UNCHANGED vars
  <2>1. layout' = layout /\ Mail' = Mail /\ PressedKeys' = PressedKeys
    BY <1>2, SameRun DEF vars, windows
  <2> QED
    BY <1>2, <2>1 DEF vars, counter, windows, source, tally, bounds, Typed, KeysTyped,
                      CounterTyped, SourceTyped, TallyTyped
<1> QED
  BY <1>1, <1>2

\* Held keys are keys of their devices, counters are numbers, and what waits in the queue is
\* of no key or of a key of its device, whatever is pressed, lost, sampled or pulled out.
THEOREM TypeCorrect == Spec => []TypeOK
<1>1. Spec => []Typed
  BY InitTyped, StepTyped, PTL DEF Spec
<1> QED
  BY <1>1, TypesHold, PTL

-------------------------------------------------------------------------------
(* What the steps do to one key. *)

\* Presses that will be recorded or passed over, and whether the key counts as held, when
\* the queue has been worked off; and the devices it is held on.
ToCome(p)  == Cardinality(Fresh(queue, pressed, p))
AtEnd(p)   == HeldAtEnd(queue, pressed, p)
Holding(p) == {d \in Devices : PressedKey(d, p[2]) = p /\ p[2] \in down[d]}

\* What allows a key that is held to be recorded once more.
Credits(p) == clears + early[p]

\* The sampler is about to look, and may find Tab down again before the queue tells that it
\* has been let go.
Reserve(p) ==
  One(p = <<0, "Tab">> /\ ui = "sample" /\ p \notin pressed /\ BreakFirst(queue, p))

LEMMA Quantities ==
  ASSUME Typed, NEW p \in PressedKeys
  PROVE  /\ {ToCome(p), Accounted(p), Credits(p), presses[p], lost, Reserve(p)} \subseteq Nat
         /\ Accounted(p) = recorded[p] + paused_over[p] /\ recorded[p] \in Nat
         /\ paused_over[p] \in Nat /\ early[p] \in Nat /\ clears \in Nat
         /\ Reserve(p) \in {0, 1}
<1>1. queue \in Seq(Mail)
  BY DEF Typed
<1>2. ToCome(p) \in Nat
  BY <1>1, FreshCounts DEF ToCome
<1>3. /\ presses[p] \in Nat /\ recorded[p] \in Nat /\ paused_over[p] \in Nat
      /\ early[p] \in Nat /\ lost \in Nat /\ clears \in Nat
  BY DEF Typed, TallyTyped
<1>4. Reserve(p) \in {0, 1}
  BY DEF Reserve, One
<1> QED
  BY <1>2, <1>3, <1>4 DEF Accounted, Credits

\* Presses are recorded or passed over when they are of keys that did not count as held.
LEMMA TallyFacts ==
  ASSUME Typed, NEW d, NEW keys, Tally(d, keys), NEW p \in PressedKeys
  PROVE  Accounted(p)' = Accounted(p) + One(p \in HeldAs(d, keys) /\ p \notin pressed)
<1> DEFINE A == HeldAs(d, Counted(d, keys))
           B == HeldAs(d, PassedOver(d, keys))
<1>1. recorded' = Increased(recorded, A) /\ paused_over' = Increased(paused_over, B)
  BY DEF Tally
<1>2. /\ recorded \in [PressedKeys -> Nat] /\ paused_over \in [PressedKeys -> Nat]
      /\ recorded[p] \in Nat /\ paused_over[p] \in Nat
  BY DEF Typed, TallyTyped
<1>3. /\ p \in A <=> p \in HeldAs(d, keys) /\ p \notin pressed /\ ~is_paused
      /\ p \in B <=> p \in HeldAs(d, keys) /\ p \notin pressed /\ is_paused
  BY DEF HeldAs, Counted, PassedOver
<1> HIDE DEF A, B
<1>4. recorded'[p] = recorded[p] + One(p \in A) /\
      paused_over'[p] = paused_over[p] + One(p \in B)
  BY <1>1, <1>2, IncreasedFacts
<1>5. CASE p \in HeldAs(d, keys) /\ p \notin pressed
  <2>1. One(p \in HeldAs(d, keys) /\ p \notin pressed) = 1
    BY <1>5 DEF One
  <2>2. One(p \in A) + One(p \in B) = 1 /\ One(p \in A) \in Nat /\ One(p \in B) \in Nat
    BY <1>3, <1>5 DEF One
  <2> QED
    BY <1>2, <1>4, <2>1, <2>2 DEF Accounted
<1>6. CASE ~(p \in HeldAs(d, keys) /\ p \notin pressed)
  <2>1. One(p \in HeldAs(d, keys) /\ p \notin pressed) = 0
    BY <1>6 DEF One
  <2>2. One(p \in A) = 0 /\ One(p \in B) = 0
    BY <1>3, <1>6 DEF One
  <2> QED
    BY <1>2, <1>4, <2>1, <2>2 DEF Accounted
<1> QED
  BY <1>5, <1>6

\* What the UI thread does to a key: nothing in the end, ...
Calm(p) ==
  /\ Accounted(p)' + ToCome(p)' = Accounted(p) + ToCome(p)
  /\ AtEnd(p)' <=> AtEnd(p)
  /\ Credits(p)' >= Credits(p)

\* ... or it releases the key, so that one more press may come of it, ...
Freed(p) ==
  /\ Accounted(p)' = Accounted(p)
  /\ \/ /\ ToCome(p)' = ToCome(p) + 1
        /\ AtEnd(p)' <=> AtEnd(p)
        /\ Credits(p)' > Credits(p)
     \/ /\ ToCome(p)' = ToCome(p)
        /\ AtEnd(p) /\ ~AtEnd(p)'
        /\ \/ Credits(p)' > Credits(p)
           \/ Credits(p)' = Credits(p) /\ Holding(p) = {} /\ p[2] \notin async

\* ... or it samples Tab ahead of the queue.
Sampled(p) ==
  /\ p = <<0, "Tab">> /\ "Tab" \in async
  /\ Accounted(p)' = Accounted(p) + 1
  /\ ToCome(p)' = ToCome(p)
  /\ Credits(p)' = Credits(p)
  /\ \/ ~AtEnd(p) /\ AtEnd(p)'
     \/ (AtEnd(p)' <=> AtEnd(p)) /\ Reserve(p) = 1

Handled(p) == Calm(p) \/ Freed(p) \/ Sampled(p)

\* The message that is next is handled.
LEMMA HeadOutcome ==
  ASSUME Typed, NEW p \in PressedKeys, queue # << >>, queue' = Tail(queue),
         p \in pressed' <=> Makes(Head(queue), p) \/
           (p \in pressed /\ ~Breaks(Head(queue), p)),
         Accounted(p)' = Accounted(p) + One(Makes(Head(queue), p) /\ p \notin pressed),
         Credits(p)' >= Credits(p)
  PROVE  Handled(p)
<1> DEFINE m == Head(queue)
           x == One(Makes(m, p) /\ p \notin pressed)
<1>1. queue \in Seq(Mail) /\ queue[1] = m
  BY DEF Typed
<1>2. /\ Cardinality(Fresh(queue, pressed, p)) =
         Cardinality(Fresh(Tail(queue), pressed', p)) + x
      /\ HeldAtEnd(Tail(queue), pressed', p) <=> HeldAtEnd(queue, pressed, p)
  BY <1>1, HeadHandled
<1>3. Cardinality(Fresh(Tail(queue), pressed', p)) \in Nat /\ Accounted(p) \in Nat
  <2>1. Tail(queue) \in Seq(Mail)
    BY <1>1
  <2> QED
    BY <2>1, FreshCounts, Quantities
<1>4. x \in Nat /\ Accounted(p)' = Accounted(p) + x
  BY DEF One
<1> HIDE DEF x
<1>5. Accounted(p)' + ToCome(p)' = Accounted(p) + ToCome(p)
  BY <1>2, <1>3, <1>4 DEF ToCome
<1> QED
  BY <1>2, <1>5 DEF Handled, Calm, AtEnd

\* Nothing happens to a key.
LEMMA NoOutcome ==
  ASSUME NEW p, queue' = queue, p \in pressed' <=> p \in pressed,
         Accounted(p)' = Accounted(p), Credits(p)' >= Credits(p)
  PROVE  Handled(p)
<1>1. \A i \in 1 .. Len(queue) + 1 : HeldAt(queue, pressed', i, p) <=>
                                     HeldAt(queue, pressed, i, p)
  BY DEF HeldAt
<1>2. Fresh(queue, pressed', p) = Fresh(queue, pressed, p)
  BY <1>1 DEF Fresh
<1>3. HeldAtEnd(queue, pressed', p) <=> HeldAtEnd(queue, pressed, p)
  BY DEF HeldAtEnd, HeldAt
<1> QED
  BY <1>2, <1>3 DEF Handled, Calm, ToCome, AtEnd

LEMMA EarlyFacts ==
  ASSUME Typed, NEW keys, CountEarly(keys), clears' = clears, NEW p \in PressedKeys
  PROVE  /\ Credits(p)' = Credits(p) + One(p \in Ahead(keys))
         /\ Credits(p)' >= Credits(p)
<1>1. early \in [PressedKeys -> Nat] /\ early[p] \in Nat /\ clears \in Nat
  BY DEF Typed, TallyTyped
<1>2. early'[p] = early[p] + One(p \in Ahead(keys))
  BY <1>1, IncreasedFacts DEF CountEarly
<1>3. One(p \in Ahead(keys)) \in Nat
  BY DEF One
<1> QED
  BY <1>1, <1>2, <1>3 DEF Credits

LEMMA MakesQueued ==
  ASSUME Typed, NEW p \in PressedKeys, p[2] \in SystemKeys, MakeFirst(queue, p)
  PROVE  \E d \in Devices : PressedKey(d, p[2]) = p /\ MakeQueued(d, p[2])
<1>1. queue \in Seq(Mail) /\ KeysTyped
  BY DEF Typed
<1>2. PICK i \in 1 .. Len(queue) : Makes(queue[i], p)
  BY DEF MakeFirst
<1> DEFINE m == queue[i]
<1>3. m \in Mail /\ i \in DOMAIN queue /\ m.device \in Devices
  BY <1>1, MailFacts
<1>4. CASE m.kind = "mouse" /\ p \in HeldAs(m.device, m.downs)
  <2>1. m.downs \subseteq MouseButtons
    BY <1>1, <1>3, <1>4, MailFacts DEF MouseMail
  <2>2. p[2] \in m.downs
    BY <1>4 DEF HeldAs, PressedKey
  <2> QED
    BY <2>1, <2>2, KeyFacts
<1>5. CASE m.kind = "input" /\ ~m.is_break /\ KeyOf(m) # NoKey /\
           p = PressedKey(m.device, KeyOf(m))
  <2>1. p[2] = KeyOf(m)
    BY <1>5 DEF PressedKey
  <2> QED
    BY <1>3, <1>5, <2>1 DEF MakeQueued
<1> QED
  BY <1>2, <1>4, <1>5 DEF Makes

\* A system key is released whatever the queue says.
LEMMA ReleaseOutcome ==
  ASSUME Typed, NEW p \in PressedKeys, p \in pressed,
         NEW keys \in SUBSET SystemKeys, p[2] \in keys, CountEarly(keys), clears' = clears,
         Accounted(p)' = Accounted(p), NEW less, p \notin less,
         ToCome(p)' = Cardinality(Fresh(queue, less, p)),
         AtEnd(p)' <=> HeldAtEnd(queue, less, p)
  PROVE  Handled(p)
<1>1. queue \in Seq(Mail)
  BY DEF Typed
<1>2. Credits(p)' = Credits(p) + One(p \in Ahead(keys)) /\ Credits(p)' >= Credits(p)
      /\ Credits(p) \in Nat
  BY EarlyFacts, Quantities
<1>3. p \in Ahead(keys) <=>
        p[2] \in async \/ Holding(p) # {}
        \/ \E d \in Devices : PressedKey(d, p[2]) = p /\ MakeQueued(d, p[2])
  BY DEF Ahead, Holding
<1>4. CASE p \in Ahead(keys)
  <2>1. Credits(p)' > Credits(p)
    BY <1>2, <1>4 DEF One
  <2>2. \/ ToCome(p)' = ToCome(p) /\ AtEnd(p) /\ ~AtEnd(p)'
        \/ ToCome(p)' = ToCome(p) /\ (AtEnd(p)' <=> AtEnd(p))
        \/ ToCome(p)' = ToCome(p) + 1 /\ (AtEnd(p)' <=> AtEnd(p))
    BY <1>1, HeldOrNot, Zenon DEF ToCome, AtEnd
  <2>3. ToCome(p)' = ToCome(p) => Accounted(p)' + ToCome(p)' = Accounted(p) + ToCome(p)
    OBVIOUS
  <2> QED
    BY <1>2, <2>1, <2>2, <2>3, Zenon DEF Handled, Calm, Freed
<1>5. CASE p \notin Ahead(keys)
  <2>1. Credits(p)' = Credits(p)
    BY <1>2, <1>5 DEF One
  <2>2. ~MakeFirst(queue, p)
    BY <1>3, <1>5, MakesQueued
  <2>3. \/ ToCome(p)' = ToCome(p) /\ AtEnd(p) /\ ~AtEnd(p)'
        \/ ToCome(p)' = ToCome(p) /\ (AtEnd(p)' <=> AtEnd(p))
    BY <1>1, <2>2, HeldOrNot, Zenon DEF ToCome, AtEnd
  <2>4. ToCome(p)' = ToCome(p) => Accounted(p)' + ToCome(p)' = Accounted(p) + ToCome(p)
    OBVIOUS
  <2>5. Holding(p) = {} /\ p[2] \notin async
    BY <1>3, <1>5
  <2> QED
    BY <1>2, <2>1, <2>3, <2>4, <2>5, Zenon DEF Handled, Calm, Freed
<1> QED
  BY <1>4, <1>5

LEMMA TalliedOutcome ==
  ASSUME Typed, NEW p \in PressedKeys, queue # << >>, queue' = Tail(queue),
         p \in pressed' <=> Makes(Head(queue), p) \/
           (p \in pressed /\ ~Breaks(Head(queue), p)),
         NEW keys, Tally(Head(queue).device, keys),
         p \in HeldAs(Head(queue).device, keys) <=> Makes(Head(queue), p),
         UNCHANGED <<early, clears>>
  PROVE  Handled(p)
<1>1. Accounted(p)' =
        Accounted(p) + One(p \in HeldAs(Head(queue).device, keys) /\ p \notin pressed)
  BY TallyFacts
<1>2. One(p \in HeldAs(Head(queue).device, keys) /\ p \notin pressed)
        = One(Makes(Head(queue), p) /\ p \notin pressed)
  BY DEF One
<1>3. Credits(p)' >= Credits(p)
  BY Quantities DEF Credits
<1> QED
  BY <1>1, <1>2, <1>3, HeadOutcome

\* A message that makes nothing, and its handler records nothing.
LEMMA UntalliedOutcome ==
  ASSUME Typed, NEW p \in PressedKeys, queue # << >>, queue' = Tail(queue),
         ~Makes(Head(queue), p), p \in pressed' <=> p \in pressed /\ ~Breaks(Head(queue), p),
         UNCHANGED <<recorded, paused_over, clears>>, Credits(p)' >= Credits(p)
  PROVE  Handled(p)
<1>1. One(Makes(Head(queue), p) /\ p \notin pressed) = 0
  BY DEF One
<1>2. Accounted(p)' = Accounted(p) + One(Makes(Head(queue), p) /\ p \notin pressed)
  BY <1>1, Quantities DEF Accounted
<1> QED
  BY <1>2, HeadOutcome

LEMMA InputFacts ==
  ASSUME NEW m, m.kind = "input", KeyOf(m) # NoKey, NEW p
  PROVE  /\ Makes(m, p) <=> ~m.is_break /\ p = PressedKey(m.device, KeyOf(m))
         /\ Breaks(m, p) <=> m.is_break /\ p = PressedKey(m.device, KeyOf(m))
<1>1. m.kind # "mouse" /\ m.kind # "removal"
  OBVIOUS
<1> QED
  BY <1>1 DEF Makes, Breaks

LEMMA KeyOutcome ==
  ASSUME Typed, NEW p \in PressedKeys, HandleKey \/ HandleAltMake
  PROVE  Handled(p)
<1> DEFINE m == Head(queue)
           k == KeyOf(m)
           keys == IF m.is_break THEN {} ELSE {k}
<1>1. NoKey \notin PhysicalKeys \ Alts /\ NoKey \notin Alts
  BY KeyFacts DEF PhysicalKeys
<1>2. /\ NextIsOf(PhysicalKeys \ Alts) \/ NextIsOf(Alts)
      /\ ProcessButton(m.device, k, m.is_break) /\ Tally(m.device, keys)
      /\ queue' = Tail(queue) /\ UNCHANGED <<early, clears>>
  <2>1. CASE HandleKey
    BY <2>1 DEF HandleKey, bounds
  <2>2. CASE HandleAltMake
    BY <2>2 DEF HandleAltMake, bounds, ProcessButton
  <2> QED
    BY <2>1, <2>2
<1>3. queue # << >> /\ m.kind = "input" /\ k # NoKey /\ m.is_break \in BOOLEAN
  BY <1>1, <1>2, HeadInput
<1>4. /\ Makes(m, p) <=> ~m.is_break /\ p = PressedKey(m.device, k)
      /\ Breaks(m, p) <=> m.is_break /\ p = PressedKey(m.device, k)
  BY <1>3, InputFacts
<1>5. p \in pressed' <=> Makes(m, p) \/ (p \in pressed /\ ~Breaks(m, p))
  BY <1>2, <1>4 DEF ProcessButton, Add
<1>6. p \in HeldAs(m.device, keys) <=> Makes(m, p)
  BY <1>4 DEF HeldAs
<1> HIDE DEF keys
<1> QED
  BY <1>2, <1>3, <1>5, <1>6, TalliedOutcome

LEMMA MouseOutcome ==
  ASSUME Typed, NEW p \in PressedKeys, HandleMouse
  PROVE  Handled(p)
<1> DEFINE m == Head(queue)
<1>1. /\ queue # << >> /\ m.kind = "mouse" /\ "mouse" # "input" /\ "mouse" # "removal"
      /\ pressed' = (pressed \cup HeldAs(m.device, m.downs)) \ HeldAs(m.device, m.ups)
      /\ Tally(m.device, m.downs) /\ queue' = Tail(queue) /\ UNCHANGED <<early, clears>>
  BY DEF HandleMouse, bounds
<1>2. /\ Makes(m, p) <=> p \in HeldAs(m.device, m.downs)
      /\ Breaks(m, p) <=> p \in HeldAs(m.device, m.ups)
  BY <1>1 DEF Makes, Breaks
<1>3. ~(Makes(m, p) /\ Breaks(m, p))
  BY <1>1, HeadFacts, MailFacts DEF Typed
<1>4. p \in pressed' <=> Makes(m, p) \/ (p \in pressed /\ ~Breaks(m, p))
  BY <1>1, <1>2, <1>3
<1> QED
  BY <1>1, <1>2, <1>4, TalliedOutcome

LEMMA DropOutcome ==
  ASSUME Typed, NEW p \in PressedKeys, DropInput \/ HandleRemoval
  PROVE  Handled(p)
<1> DEFINE m == Head(queue)
<1>1. queue # << >> /\ queue' = Tail(queue) /\
      UNCHANGED <<recorded, paused_over, early, clears>>
  BY DEF DropInput, HandleRemoval, NextIsOf, tally, bounds
<1>2. Credits(p)' >= Credits(p)
  BY <1>1, Quantities DEF Credits
<1>3. CASE DropInput
  <2>1. m.kind = "input" /\ KeyOf(m) = NoKey /\ pressed' = pressed
    BY <1>3 DEF DropInput, NextIsOf, counter
  <2>2. ~Makes(m, p) /\ ~Breaks(m, p)
    BY <2>1 DEF Makes, Breaks
  <2> QED
    BY <1>1, <1>2, <2>1, <2>2, UntalliedOutcome
<1>4. CASE HandleRemoval
  <2>1. m.kind = "removal" /\ pressed' = {x \in pressed : x[1] # m.device}
    BY <1>4 DEF HandleRemoval, RemoveDevice, HeldWithout
  <2>2. ~Makes(m, p) /\ (Breaks(m, p) <=> p[1] = m.device)
    BY <2>1 DEF Makes, Breaks
  <2>3. p \in pressed' <=> p \in pressed /\ ~Breaks(m, p)
    BY <2>1, <2>2
  <2> QED
    BY <1>1, <1>2, <2>2, <2>3, UntalliedOutcome
<1> QED
  BY <1>3, <1>4

\* The break of Alt: it may release Tab, too.
LEMMA AltBreakOutcome ==
  ASSUME Typed, NEW p \in PressedKeys, HandleAltBreak
  PROVE  Handled(p)
<1> DEFINE m == Head(queue)
           k == KeyOf(m)
           released == IF sampled_alt_tab_down /\ ~AltDown THEN {"Tab"} ELSE {}
           others == {PressedKey(0, l) : l \in released}
<1>1. /\ NextIsOf(Alts) /\ m.is_break
      /\ pressed' = pressed \ ({PressedKey(m.device, k)} \cup others)
      /\ queue' = Tail(queue) /\ CountEarly(released)
      /\ UNCHANGED <<recorded, paused_over, clears>>
  BY DEF HandleAltBreak, bounds
<1>2. queue # << >> /\ m.kind = "input" /\ k \in Alts /\ k # NoKey
      /\ PressedKey(m.device, k) \in PressedKeys
  <2>1. NoKey \notin Alts
    BY KeyFacts DEF PhysicalKeys
  <2> QED
    BY <1>1, <2>1, HeadInput
<1>3. ~Makes(m, p) /\ (Breaks(m, p) <=> p = PressedKey(m.device, k))
  BY <1>1, <1>2, InputFacts
<1>4. Credits(p)' >= Credits(p) /\ Accounted(p)' = Accounted(p)
  <2> HIDE DEF released
  <2> QED
    BY <1>1, EarlyFacts DEF Accounted
<1>5. CASE p \notin others \/ p \notin pressed
  <2>1. p \in pressed' <=> p \in pressed /\ ~Breaks(m, p)
    BY <1>1, <1>3, <1>5
  <2> QED
    BY <1>1, <1>2, <1>3, <1>4, <2>1, UntalliedOutcome
<1>6. CASE p \in others /\ p \in pressed
  <2>1. released = {"Tab"} /\ p = <<0, "Tab">>
    BY <1>6 DEF PressedKey
  <2>2. p # PressedKey(m.device, k)
    BY <1>2, <2>1, KeyFacts DEF PressedKey
  <2> DEFINE less == pressed \ {p}
  <2>3. ~Makes(m, p) /\ ~Breaks(m, p)
    BY <1>3, <2>2
  <2>4. p \notin pressed' /\ p \notin less
    BY <1>1, <1>6
  <2> HIDE DEF less
  <2>5. /\ Cardinality(Fresh(queue, less, p))
             = Cardinality(Fresh(Tail(queue), pressed', p)) + One(Makes(m, p) /\ p \notin less)
        /\ HeldAtEnd(Tail(queue), pressed', p) <=> HeldAtEnd(queue, less, p)
    <3>1. queue \in Seq(Mail) /\ queue[1] = m
      BY DEF Typed
    <3>2. p \in pressed' <=> Makes(queue[1], p) \/ (p \in less /\ ~Breaks(queue[1], p))
      BY <2>3, <2>4, <3>1
    <3> QED
      BY <1>2, <3>1, <3>2, HeadHandled
  <2>6. One(Makes(m, p) /\ p \notin less) = 0
    BY <2>3 DEF One
  <2>7. Cardinality(Fresh(Tail(queue), pressed', p)) \in Nat
    <3>1. Tail(queue) \in Seq(Mail)
      BY <1>2, HeadFacts
    <3> QED
      BY <3>1, FreshCounts
  <2>8. ToCome(p)' = Cardinality(Fresh(queue, less, p)) /\
        (AtEnd(p)' <=> HeldAtEnd(queue, less, p))
    BY <1>1, <2>5, <2>6, <2>7 DEF ToCome, AtEnd
  <2>9. released \in SUBSET SystemKeys /\ p[2] \in released /\ CountEarly(released)
    BY <1>1, <2>1, KeyFacts
  <2> HIDE DEF released
  <2> QED
    BY <1>1, <1>4, <1>6, <2>4, <2>8, <2>9, ReleaseOutcome
<1> QED
  BY <1>5, <1>6

\* The timers release the system keys of a set, ...
LEMMA TimerReleases ==
  ASSUME Typed, NEW p \in PressedKeys, queue' = queue, NEW keys \in SUBSET SystemKeys,
         CountEarly(keys), UNCHANGED <<recorded, paused_over, clears>>,
         p \in pressed' <=> p \in pressed /\ p[2] \notin keys
  PROVE  Handled(p)
<1>1. Credits(p)' >= Credits(p) /\ Accounted(p)' = Accounted(p)
  BY EarlyFacts DEF Accounted
<1>2. CASE p \in pressed /\ p[2] \in keys
  <2>1. p \notin pressed'
    BY <1>2
  <2>2. ToCome(p)' = Cardinality(Fresh(queue, pressed', p))
        /\ (AtEnd(p)' <=> HeldAtEnd(queue, pressed', p))
    BY DEF ToCome, AtEnd
  <2> QED
    BY <1>1, <1>2, <2>1, <2>2, ReleaseOutcome
<1>3. CASE ~(p \in pressed /\ p[2] \in keys)
  BY <1>1, <1>3, NoOutcome
<1> QED
  BY <1>2, <1>3

LEMMA TabFacts ==
  ASSUME Typed, NEW p \in PressedKeys
  PROVE  p[2] = "Tab" <=> p = <<0, "Tab">>
<1>1. KeysTyped
  BY DEF Typed
<1>2. PICK d \in Devices : p = PressedKey(d, p[2])
  BY <1>1, PressedKeyFacts
<1> QED
  BY <1>2 DEF PressedKey

\* ... or make Tab count as held.
LEMMA TabSampled ==
  ASSUME Typed, NEW p \in PressedKeys, queue' = queue, "Tab" \in async, ui = "sample",
         ProcessButton(0, "Tab", FALSE), Tally(0, {"Tab"}), CountEarly({}), clears' = clears
  PROVE  Handled(p)
<1>1. queue \in Seq(Mail)
  BY DEF Typed
<1>2. Credits(p)' = Credits(p) /\ Credits(p) \in Nat
  <2>1. Credits(p)' = Credits(p) + One(p \in Ahead({})) /\ Credits(p) \in Nat
    BY EarlyFacts, Quantities
  <2>2. One(p \in Ahead({})) = 0
    BY DEF Ahead, One
  <2> QED
    BY <2>1, <2>2
<1>3. PressedKey(0, "Tab") = <<0, "Tab">> /\ HeldAs(0, {"Tab"}) = {<<0, "Tab">>}
  BY DEF HeldAs, PressedKey
<1>4. pressed' = pressed \cup {<<0, "Tab">>}
  BY <1>3 DEF ProcessButton, Add
<1>5. Accounted(p)' = Accounted(p) + One(p = <<0, "Tab">> /\ p \notin pressed)
      /\ Accounted(p) \in Nat
  <2>1. Accounted(p)' = Accounted(p) + One(p \in HeldAs(0, {"Tab"}) /\ p \notin pressed)
    BY TallyFacts
  <2>2. One(p \in HeldAs(0, {"Tab"}) /\ p \notin pressed) =
        One(p = <<0, "Tab">> /\ p \notin pressed)
    BY <1>3 DEF One
  <2> QED
    BY <2>1, <2>2, Quantities
<1>6. CASE p # <<0, "Tab">> \/ p \in pressed
  <2>1. Accounted(p)' = Accounted(p)
    BY <1>5, <1>6 DEF One
  <2>2. p \in pressed' <=> p \in pressed
    BY <1>4, <1>6
  <2> QED
    BY <1>2, <2>1, <2>2, NoOutcome
<1>7. CASE p = <<0, "Tab">> /\ p \notin pressed
  <2>1. Accounted(p)' = Accounted(p) + 1
    BY <1>5, <1>7 DEF One
  <2>2. p \in pressed'
    BY <1>4, <1>7
  <2>3. ToCome(p)' = Cardinality(Fresh(queue, pressed', p)) /\ ToCome(p)' \in Nat
        /\ (AtEnd(p)' <=> HeldAtEnd(queue, pressed', p))
    BY <1>1, FreshCounts DEF ToCome, AtEnd
  <2>4. \/ ToCome(p)' = ToCome(p) /\ ~AtEnd(p) /\ AtEnd(p)'
        \/ ToCome(p)' = ToCome(p) /\ (AtEnd(p)' <=> AtEnd(p)) /\ BreakFirst(queue, p)
        \/ ToCome(p) = ToCome(p)' + 1 /\ (AtEnd(p)' <=> AtEnd(p))
    BY <1>1, <1>7, <2>2, <2>3, HeldOrNot, Zenon DEF ToCome, AtEnd
  <2>5. BreakFirst(queue, p) => Reserve(p) = 1
    BY <1>7 DEF Reserve, One
  <2>6. ToCome(p) = ToCome(p)' + 1 => Accounted(p)' + ToCome(p)' = Accounted(p) + ToCome(p)
    BY <1>5, <2>1, <2>3
  <2>7. Credits(p)' >= Credits(p)
    BY <1>2
  <2> QED
    BY <1>2, <1>7, <2>1, <2>4, <2>5, <2>6, <2>7, Zenon DEF Handled, Calm, Sampled
<1> QED
  BY <1>6, <1>7

LEMMA TimerOutcome ==
  ASSUME Typed, NEW p \in PressedKeys, HandleTimer
  PROVE  Handled(p)
<1>1. queue' = queue /\ clears' = clears
  BY DEF HandleTimer, SampleEnds, Sample, Reconcile, windows, bounds
<1>2. {"Tab"} \in SUBSET SystemKeys /\ Watched \ async \in SUBSET SystemKeys
  BY KeyFacts DEF Watched
<1>3. ASSUME UNCHANGED <<counter, tally>>
      PROVE  Handled(p)
  <2>1. Credits(p)' >= Credits(p) /\ Accounted(p)' = Accounted(p) /\ pressed' = pressed
    BY <1>1, <1>3, Quantities DEF counter, tally, Credits, Accounted
  <2> QED
    BY <1>1, <2>1, NoOutcome
<1>4. ASSUME ProcessButton(0, "Tab", TRUE), CountEarly({"Tab"}),
             UNCHANGED <<recorded, paused_over>>
      PROVE  Handled(p)
  <2>1. pressed' = pressed \ {<<0, "Tab">>}
    BY <1>4 DEF ProcessButton, PressedKey
  <2>2. p \in pressed' <=> p \in pressed /\ p[2] \notin {"Tab"}
    BY <2>1, TabFacts
  <2> QED
    BY <1>1, <1>2, <1>4, <2>2, TimerReleases
<1>5. CASE SampleEnds
  <2>1. CASE sampled_alt_tab_down
    BY <1>4, <1>5, <2>1 DEF SampleEnds
  <2>2. CASE ~sampled_alt_tab_down
    BY <1>3, <1>5, <2>2 DEF SampleEnds, tally
  <2> QED
    BY <2>1, <2>2
<1>6. CASE Sample
  <2>1. CASE ~(AltTabDown # sampled_alt_tab_down)
    BY <1>3, <1>6, <2>1, Zenon DEF Sample
  <2>2. CASE AltTabDown # sampled_alt_tab_down /\ AltTabDown
    <3>1. /\ ProcessButton(0, "Tab", ~AltTabDown)
          /\ Tally(0, IF AltTabDown THEN {"Tab"} ELSE {})
          /\ CountEarly(IF AltTabDown THEN {} ELSE {"Tab"})
      BY <1>6, <2>2, Zenon DEF Sample
    <3>2. ProcessButton(0, "Tab", FALSE)
      BY <2>2, <3>1 DEF ProcessButton
    <3>3. Tally(0, {"Tab"}) /\ CountEarly({})
      BY <2>2, <3>1, Zenon
    <3>4. "Tab" \in async /\ ui = "sample"
      BY <1>6, <2>2 DEF Sample, AltTabDown
    <3> QED
      BY <1>1, <3>2, <3>3, <3>4, TabSampled
  <2>3. CASE AltTabDown # sampled_alt_tab_down /\ ~AltTabDown
    <3>1. /\ ProcessButton(0, "Tab", ~AltTabDown)
          /\ Tally(0, IF AltTabDown THEN {"Tab"} ELSE {})
          /\ CountEarly(IF AltTabDown THEN {} ELSE {"Tab"})
      BY <1>6, <2>3, Zenon DEF Sample
    <3>2. ProcessButton(0, "Tab", TRUE)
      BY <2>3, <3>1 DEF ProcessButton
    <3>3. Tally(0, {}) /\ CountEarly({"Tab"})
      BY <2>3, <3>1, Zenon
    <3>4. Credits(p)' >= Credits(p)
      BY <1>1, <3>3, EarlyFacts
    <3>5. UNCHANGED <<recorded, paused_over>>
      <4>1. HeldAs(0, Counted(0, {})) = {} /\ HeldAs(0, PassedOver(0, {})) = {}
        BY DEF HeldAs, Counted, PassedOver
      <4>2. recorded' = Increased(recorded, {}) /\ paused_over' = Increased(paused_over, {})
        BY <3>3, <4>1 DEF Tally
      <4>3. recorded \in [PressedKeys -> Nat] /\ paused_over \in [PressedKeys -> Nat]
        BY DEF Typed, TallyTyped
      <4> QED
        BY <4>2, <4>3 DEF Increased
    <3> QED
      BY <1>4, <3>2, <3>3, <3>5
  <2> QED
    BY <2>1, <2>2, <2>3
<1>7. CASE Reconcile
  <2> DEFINE keys == Watched \ async
  <2>1. /\ CountEarly(keys) /\ UNCHANGED <<recorded, paused_over>>
        /\ p \in pressed' <=> p \in pressed /\ p[2] \notin keys
    BY <1>7 DEF Reconcile, ReleaseKeys
  <2>2. keys \in SUBSET SystemKeys
    BY <1>2
  <2> HIDE DEF keys
  <2> QED
    BY <1>1, <2>1, <2>2, TimerReleases
<1> QED
  BY <1>5, <1>6, <1>7 DEF HandleTimer

\* A clear lets go of all keys: of each, one more press may come.
LEMMA ClearOutcome ==
  ASSUME Typed, NEW p \in PressedKeys, Clear
  PROVE  Handled(p)
<1>1. /\ pressed' = {} /\ queue' = queue /\ queue \in Seq(Mail)
      /\ clears' = clears + 1 /\ UNCHANGED <<recorded, paused_over, early>>
  BY DEF Clear, ClearCounts, windows, tally, Typed
<1>2. Credits(p)' > Credits(p) /\ Credits(p)' >= Credits(p) /\ Accounted(p)' = Accounted(p)
  BY <1>1, Quantities DEF Credits, Accounted
<1>3. CASE p \notin pressed
  <2>1. p \in pressed' <=> p \in pressed
    BY <1>1, <1>3
  <2> QED
    BY <1>1, <1>2, <2>1, NoOutcome
<1>4. CASE p \in pressed
  <2>1. ToCome(p)' = Cardinality(Fresh(queue, pressed', p))
        /\ (AtEnd(p)' <=> HeldAtEnd(queue, pressed', p)) /\ p \notin pressed'
    BY <1>1 DEF ToCome, AtEnd
  <2>2. \/ ToCome(p)' = ToCome(p) /\ AtEnd(p) /\ ~AtEnd(p)'
        \/ ToCome(p)' = ToCome(p) /\ (AtEnd(p)' <=> AtEnd(p))
        \/ ToCome(p)' = ToCome(p) + 1 /\ (AtEnd(p)' <=> AtEnd(p))
    BY <1>1, <1>4, <2>1, HeldOrNot, Zenon DEF ToCome, AtEnd
  <2>3. ToCome(p)' = ToCome(p) => Accounted(p)' + ToCome(p)' = Accounted(p) + ToCome(p)
    BY <1>2
  <2> QED
    BY <1>2, <2>2, <2>3, Zenon DEF Handled, Calm, Freed
<1> QED
  BY <1>3, <1>4

\* Every step of the UI thread does one of these things to a key.
LEMMA Outcomes ==
  ASSUME Typed, NEW p \in PressedKeys, Handles
  PROVE  Handled(p) /\ Reserve(p)' = 0
<1>1. Handled(p)
  <2>1. ASSUME \/ TogglePause
               \/ \E timer \in {"sample", "refresh"} : TakeTimer(timer)
        PROVE  Handled(p)
    <3>1. UNCHANGED <<pressed, queue, recorded, paused_over, early, clears>>
      BY <2>1 DEF TogglePause, SetPaused, TakeTimer, counter, windows, tally, bounds
    <3>2. Credits(p)' >= Credits(p) /\ Accounted(p)' = Accounted(p)
      BY <3>1, Quantities DEF Credits, Accounted
    <3> QED
      BY <3>1, <3>2, NoOutcome
  <2> QED
    BY <2>1, KeyOutcome, MouseOutcome, DropOutcome, AltBreakOutcome, TimerOutcome, ClearOutcome
       DEF Handles, HandleInput
<1>2. Reserve(p)' = 0
  <2>1. ui' # "sample" \/ queue' = << >>
    <3>1. CASE HandleInput
      BY <3>1 DEF HandleInput, DropInput, HandleKey, HandleAltMake, HandleAltBreak,
         HandleMouse,
                  HandleRemoval, NextIsOf, source
    <3>2. CASE HandleTimer
      BY <3>2 DEF HandleTimer, SampleEnds, Sample, Reconcile
    <3>3. CASE TogglePause \/ Clear
      BY <3>3 DEF TogglePause, Clear, source
    <3>4. CASE \E timer \in {"sample", "refresh"} : TakeTimer(timer)
      BY <3>4 DEF TakeTimer, windows
    <3> QED
      BY <3>1, <3>2, <3>3, <3>4 DEF Handles
  <2>2. queue' = << >> => ~BreakFirst(queue', p)
    BY DEF BreakFirst
  <2> QED
    BY <2>1, <2>2 DEF Reserve, One
<1> QED
  BY <1>1, <1>2

-------------------------------------------------------------------------------
(* What a key that moves does to one key. *)

\* What is queued about it: nothing, that it goes down, that it goes up, or both.
Unheard(p) ==
  /\ ToCome(p)' = ToCome(p)
  /\ AtEnd(p)' <=> AtEnd(p)
  /\ Reserve(p)' = Reserve(p)

HeardMake(p) ==
  /\ ToCome(p)' = ToCome(p) + One(~AtEnd(p))
  /\ AtEnd(p)'
  /\ Reserve(p)' = Reserve(p)

HeardBreak(p) ==
  /\ ToCome(p)' = ToCome(p)
  /\ ~AtEnd(p)'
  /\ Reserve(p)' = Reserve(p) \/ (p = <<0, "Tab">> /\ ~AtEnd(p) /\ Reserve(p) = 0)

HeardBoth(p) ==
  /\ ToCome(p)' = ToCome(p) + One(~AtEnd(p))
  /\ ~AtEnd(p)'
  /\ Reserve(p)' = Reserve(p)

LEMMA UnheardHere ==
  ASSUME UNCHANGED <<queue, pressed, ui>>, NEW p
  PROVE  Unheard(p)
  BY DEF Unheard, ToCome, AtEnd, Reserve

LEMMA QueueNone ==
  ASSUME Typed, UNCHANGED <<pressed, ui>>, NEW p, NEW s \in Seq(Mail), queue' = queue \o s,
         Untouched(s, p)
  PROVE  Unheard(p)
<1>1. queue \in Seq(Mail)
  BY DEF Typed
<1>2. /\ Fresh(queue \o s, pressed, p) = Fresh(queue, pressed, p)
      /\ HeldAtEnd(queue \o s, pressed, p) <=> HeldAtEnd(queue, pressed, p)
      /\ BreakFirst(queue \o s, p) <=> BreakFirst(queue, p)
  BY <1>1, AppendNone
<1>3. Fresh(queue', pressed', p) = Fresh(queue, pressed, p)
      /\ (HeldAtEnd(queue', pressed', p) <=> HeldAtEnd(queue, pressed, p))
      /\ (BreakFirst(queue', p) <=> BreakFirst(queue, p))
  BY <1>2
<1>4. Reserve(p)' = Reserve(p)
  BY <1>3 DEF Reserve, One
<1> QED
  BY <1>3, <1>4 DEF Unheard, ToCome, AtEnd

LEMMA QueueOne ==
  ASSUME Typed, UNCHANGED <<pressed, ui>>, NEW p \in PressedKeys, NEW s \in Seq(Mail),
         queue' = queue \o s, NEW n, TouchedOnce(s, p, n)
  PROVE  /\ Makes(s[n], p) => HeardMake(p)
         /\ ~Makes(s[n], p) => HeardBreak(p)
<1>1. queue \in Seq(Mail)
  BY DEF Typed
<1>2. /\ Cardinality(Fresh(queue', pressed', p))
           = Cardinality(Fresh(queue, pressed, p))
               + One(Makes(s[n], p) /\ ~HeldAtEnd(queue, pressed, p))
      /\ HeldAtEnd(queue', pressed', p) <=> Makes(s[n], p)
      /\ BreakFirst(queue', p) <=> BreakFirst(queue, p) \/
         (Untouched(queue, p) /\ ~Makes(s[n], p))
  BY <1>1, AppendOne
<1>3. ToCome(p)' = ToCome(p) + One(Makes(s[n], p) /\ ~AtEnd(p))
      /\ (AtEnd(p)' <=> Makes(s[n], p)) /\ ToCome(p) \in Nat
  BY <1>2, Quantities DEF ToCome, AtEnd
<1>4. CASE Makes(s[n], p)
  <2>1. Reserve(p)' = Reserve(p)
    BY <1>2, <1>4 DEF Reserve, One
  <2>2. One(Makes(s[n], p) /\ ~AtEnd(p)) = One(~AtEnd(p))
    BY <1>4 DEF One
  <2> QED
    BY <1>3, <1>4, <2>1, <2>2 DEF HeardMake
<1>5. CASE ~Makes(s[n], p)
  <2>1. One(Makes(s[n], p) /\ ~AtEnd(p)) = 0
    BY <1>5 DEF One
  <2>2. ASSUME Reserve(p)' # Reserve(p)
        PROVE  p = <<0, "Tab">> /\ p \notin pressed /\ Untouched(queue, p) /\ Reserve(p) = 0
    <3>1. ~BreakFirst(queue, p) /\ Untouched(queue, p)
          /\ p = <<0, "Tab">> /\ ui = "sample" /\ p \notin pressed
      BY <1>2, <2>2 DEF Reserve, One
    <3> QED
      BY <3>1 DEF Reserve, One
  <2>3. ASSUME Untouched(queue, p), p \notin pressed
        PROVE  ~AtEnd(p)
    <3>1. Len(queue) + 1 \in Nat /\ 1 <= Len(queue) + 1 /\ 1 \in Nat \ {0}
          /\ \A l \in 1 .. (Len(queue) + 1) - 1 : l \in 1 .. Len(queue)
      BY <1>1
    <3>2. HeldAt(queue, pressed, Len(queue) + 1, p) <=> HeldAt(queue, pressed, 1, p)
      BY <2>3, <3>1, HeldOn DEF Untouched
    <3>3. ~HeldAt(queue, pressed, 1, p)
      BY <2>3, HeldNext
    <3> QED
      BY <3>2, <3>3 DEF AtEnd, HeldAtEnd
  <2> QED
    BY <1>3, <1>5, <2>1, <2>2, <2>3 DEF HeardBreak
<1> QED
  BY <1>4, <1>5

\* A message of Windows or of a mouse.
LEMMA QueueMessage ==
  ASSUME Typed, UNCHANGED <<pressed, ui>>, NEW p \in PressedKeys, NEW m \in Mail,
         queue' = Append(queue, m)
  PROVE  /\ Makes(m, p) => HeardMake(p)
         /\ Breaks(m, p) => HeardBreak(p)
         /\ ~Touches(m, p) => Unheard(p)
<1> DEFINE s == <<m>>
<1>1. s \in Seq(Mail) /\ Len(s) = 1 /\ s[1] = m /\ 1 .. Len(s) = {1}
  OBVIOUS
<1>2. queue' = queue \o s
  BY DEF Typed
<1>3. ~(Makes(m, p) /\ Breaks(m, p))
  BY MailFacts DEF Typed
<1> HIDE DEF s
<1>4. CASE Touches(m, p)
  <2>1. TouchedOnce(s, p, 1)
    BY <1>1, <1>3, <1>4 DEF TouchedOnce
  <2> QED
    BY <1>1, <1>2, <1>3, <1>4, <2>1, QueueOne DEF Touches
<1>5. CASE ~Touches(m, p)
  <2>1. Untouched(s, p)
    BY <1>1, <1>5 DEF Untouched
  <2> QED
    BY <1>1, <1>2, <1>5, <2>1, QueueNone DEF Touches
<1> QED
  BY <1>4, <1>5

\* The messages of a key.
LEMMA QueueKey ==
  ASSUME Typed, UNCHANGED <<pressed, ui>>, NEW p \in PressedKeys, NEW d \in Devices,
         NEW k \in layout[d] \ MouseButtons, NEW signal \in Signals[k], NEW b \in BOOLEAN,
         queue' = queue \o Messages(d, signal, b)
  PROVE  /\ p # PressedKey(d, k) => Unheard(p)
         /\ p = PressedKey(d, k) => IF b THEN HeardBreak(p) ELSE HeardMake(p)
<1> DEFINE s == Messages(d, signal, b)
<1>1. /\ s \in Seq(Mail)
      /\ p # PressedKey(d, k) => Untouched(s, p)
      /\ \E n : TouchedOnce(s, PressedKey(d, k), n) /\ (Makes(s[n], PressedKey(d, k)) <=> ~b)
  BY MessagesFacts
<1> HIDE DEF s
<1>2. queue' = queue \o s
  BY DEF s
<1>3. CASE p # PressedKey(d, k)
  BY <1>1, <1>2, <1>3, QueueNone
<1>4. CASE p = PressedKey(d, k)
  BY <1>1, <1>2, <1>4, QueueOne
<1> QED
  BY <1>3, <1>4

LEMMA QueuePress ==
  ASSUME Typed, UNCHANGED <<pressed, ui>>, NEW p \in PressedKeys, NEW d \in Devices,
         NEW k \in layout[d] \ MouseButtons, NEW signal \in Signals[k],
         queue' = queue \o PressMessages(d, k, signal)
  PROVE  /\ p # PressedKey(d, k) => Unheard(p)
         /\ p = PressedKey(d, k) => IF k \in ReleasesAtOnce THEN HeardBoth(p) ELSE HeardMake(p)
<1> DEFINE make == Messages(d, signal, FALSE)
           break == Messages(d, signal, TRUE)
           x == PressedKey(d, k)
<1>1. /\ make \in Seq(Mail)
      /\ p # x => Untouched(make, p)
      /\ \E n : TouchedOnce(make, x, n) /\ Makes(make[n], x)
  BY MessagesFacts
<1>2. /\ break \in Seq(Mail)
      /\ p # x => Untouched(break, p)
      /\ \E n : TouchedOnce(break, x, n) /\ ~Makes(break[n], x)
  BY MessagesFacts
<1>3. CASE k \notin ReleasesAtOnce
  <2>1. PressMessages(d, k, signal) = make \o << >>
    BY <1>3, Zenon DEF PressMessages
  <2> HIDE DEF make, break
  <2>2. make \o << >> = make
    BY <1>1
  <2>3. queue' = queue \o Messages(d, signal, FALSE)
    BY <2>1, <2>2 DEF make
  <2> QED
    BY <1>3, <2>3, QueueKey
<1>4. CASE k \in ReleasesAtOnce
  <2>1. PressMessages(d, k, signal) = make \o break
    BY <1>4, Zenon DEF PressMessages
  <2> HIDE DEF make, break
  <2>2. queue \in Seq(Mail)
    BY DEF Typed
  <2>3. queue' = queue \o (make \o break) /\ make \o break \in Seq(Mail)
    <3>1. make \o break \in Seq(Mail)
      BY <1>1, <1>2, JoinFacts
    <3> QED
      BY <2>1, <3>1, Zenon
  <2>4. CASE p # x
    <3>1. Untouched(make \o break, p)
      BY <1>1, <1>2, <2>4, AppendNone
    <3> QED
      BY <2>3, <2>4, <3>1, QueueNone
  <2>5. CASE p = x
    <3> DEFINE r == queue \o make
    <3>1. r \in Seq(Mail) /\ queue' = r \o break
      <4>1. r \in Seq(Mail)
        BY <1>1, <2>2, JoinFacts
      <4>2. queue \o (make \o break) = r \o break
        <5>1. make \in Seq(Mail) /\ break \in Seq(Mail)
          BY <1>1, <1>2
        <5> HIDE DEF r
        <5>2. (queue \o make) \o break = queue \o (make \o break)
          BY <2>2, <5>1, ConcatAssociative
        <5> QED
          BY <5>2 DEF r
      <4> QED
        BY <2>3, <4>1, <4>2
    <3>2. PICK n : TouchedOnce(make, p, n) /\ Makes(make[n], p)
      BY <1>1, <2>5
    <3>3. PICK j : TouchedOnce(break, p, j) /\ ~Makes(break[j], p)
      BY <1>2, <2>5
    <3>4. /\ Cardinality(Fresh(r, pressed, p))
               = Cardinality(Fresh(queue, pressed, p))
                   + One(Makes(make[n], p) /\ ~HeldAtEnd(queue, pressed, p))
          /\ BreakFirst(r, p) <=> BreakFirst(queue, p) \/
             (Untouched(queue, p) /\ ~Makes(make[n], p))
          /\ ~Untouched(r, p)
      BY <1>1, <2>2, <3>2, AppendOne
    <3> HIDE DEF r
    <3>5. /\ Cardinality(Fresh(r \o break, pressed, p))
               = Cardinality(Fresh(r, pressed, p))
                   + One(Makes(break[j], p) /\ ~HeldAtEnd(r, pressed, p))
          /\ HeldAtEnd(r \o break, pressed, p) <=> Makes(break[j], p)
          /\ BreakFirst(r \o break, p)
               <=> BreakFirst(r, p) \/ (Untouched(r, p) /\ ~Makes(break[j], p))
      <4>1. break \in Seq(Mail) /\ r \in Seq(Mail) /\ TouchedOnce(break, p, j)
        BY <1>2, <3>1, <3>3
      <4> QED
        BY <4>1, AppendOne
    <3>6. /\ Cardinality(Fresh(queue', pressed', p))
               = Cardinality(Fresh(r, pressed, p))
                   + One(Makes(break[j], p) /\ ~HeldAtEnd(r, pressed, p))
          /\ ~HeldAtEnd(queue', pressed', p)
          /\ BreakFirst(queue', p) <=> BreakFirst(r, p) \/
             (Untouched(r, p) /\ ~Makes(break[j], p))
      BY <3>1, <3>3, <3>5
    <3>7. One(Makes(break[j], p) /\ ~HeldAtEnd(r, pressed, p)) = 0
          /\ One(Makes(make[n], p) /\ ~HeldAtEnd(queue, pressed, p)) = One(~AtEnd(p))
          /\ One(~AtEnd(p)) \in Nat
      BY <3>2, <3>3 DEF One, AtEnd
    <3>8. ToCome(p)' = ToCome(p) + One(~AtEnd(p)) /\ ~AtEnd(p)'
      BY <3>4, <3>6, <3>7, Quantities DEF ToCome, AtEnd
    <3>9. Reserve(p)' = Reserve(p)
      BY <3>2, <3>4, <3>6 DEF Reserve, One
    <3> QED
      BY <1>4, <2>5, <3>8, <3>9 DEF HeardBoth
  <2> QED
    BY <2>4, <2>5
<1> QED
  BY <1>3, <1>4

LEMMA QueueRelease ==
  ASSUME Typed, UNCHANGED <<pressed, ui>>, NEW p \in PressedKeys, NEW d \in Devices,
         NEW k \in layout[d] \ MouseButtons, NEW signal \in Signals[k],
         queue' = queue \o ReleaseMessages(d, k, signal)
  PROVE  /\ p # PressedKey(d, k) => Unheard(p)
         /\ p = PressedKey(d, k) => IF k \in ReleasesAtOnce THEN Unheard(p) ELSE HeardBreak(p)
<1>1. CASE k \notin ReleasesAtOnce
  <2>1. queue' = queue \o Messages(d, signal, TRUE)
    BY <1>1, Zenon DEF ReleaseMessages
  <2> QED
    BY <1>1, <2>1, QueueKey
<1>2. CASE k \in ReleasesAtOnce
  <2>1. queue' = queue \o << >>
    BY <1>2, Zenon DEF ReleaseMessages
  <2>2. queue' = queue
    BY <2>1 DEF Typed
  <2> QED
    BY <1>2, <2>2, UnheardHere
<1> QED
  BY <1>1, <1>2

\* As how many held keys it may repeat: two keyboards may hold Tab, and the sampler may see
\* it without any; and how often it may yet be recorded when it does.
Sources(p) ==
  IF p[2] = "Tab"
  THEN IF Holding(p) = {} THEN One("Tab" \in async) ELSE Cardinality(Holding(p))
  ELSE One(p[2] \in Repeating /\ Holding(p) # {})
Loose(p) == IF AtEnd(p) /\ Sources(p) # 0 THEN Sources(p) - 1 ELSE Sources(p)

LEMMA SourcesFacts ==
  ASSUME Typed, NEW p \in PressedKeys
  PROVE  /\ IsFiniteSet(Holding(p)) /\ Cardinality(Holding(p)) \in Nat
         /\ Sources(p) \in Nat /\ Loose(p) \in Nat
         /\ p[2] # "Tab" => Sources(p) \in {0, 1} /\ Holding(p) \subseteq {p[1]}
<1>1. IsFiniteSet(Holding(p)) /\ Cardinality(Holding(p)) \in Nat
  <2>1. Holding(p) \subseteq Devices /\ IsFiniteSet(Devices)
    BY InputAssumption DEF Holding
  <2> QED
    BY <2>1, FS_Subset, FS_CardinalityType
<1>2. \A c : One(c) \in {0, 1}
  BY DEF One
<1>3. Sources(p) \in Nat /\ (p[2] # "Tab" => Sources(p) \in {0, 1})
  BY <1>1, <1>2 DEF Sources
<1>4. Loose(p) \in Nat
  BY <1>3 DEF Loose
<1>5. p[2] # "Tab" => Holding(p) \subseteq {p[1]}
  <2>1. ASSUME p[2] # "Tab", NEW d \in Holding(p)
        PROVE  d = p[1]
    <3>1. PressedKey(d, p[2]) = p
      BY DEF Holding
    <3> QED
      BY <2>1, <3>1 DEF PressedKey
  <2> QED
    BY <2>1
<1> QED
  BY <1>1, <1>3, <1>4, <1>5

\* The keys held on one device change.
LEMMA HoldingMoves ==
  ASSUME Typed, NEW d \in Devices, NEW set, down' = [down EXCEPT ![d] = set],
         NEW p \in PressedKeys
  PROVE  /\ Holding(p)' \ {d} = Holding(p) \ {d}
         /\ d \in Holding(p)' <=> PressedKey(d, p[2]) = p /\ p[2] \in set
<1>1. down \in [Devices -> SUBSET PhysicalKeys]
  BY DEF Typed, KeysTyped
<1>2. \A e \in Devices : down'[e] = IF e = d THEN set ELSE down[e]
  BY <1>1
<1>3. Holding(p)' = {e \in Devices : PressedKey(e, p[2]) = p /\ p[2] \in down'[e]}
  BY DEF Holding
<1> QED
  BY <1>2, <1>3 DEF Holding

LEMMA SourcesSame ==
  ASSUME Typed, NEW p \in PressedKeys, Holding(p)' = Holding(p),
         p[2] = "Tab" => Holding(p) # {} \/ "Tab" \notin async' \/ "Tab" \in async
  PROVE  Sources(p)' <= Sources(p)
<1>1. Sources(p) \in Nat
  BY SourcesFacts
<1>2. CASE p[2] = "Tab" /\ Holding(p) = {}
  BY <1>1, <1>2 DEF Sources, One
<1>3. CASE ~(p[2] = "Tab" /\ Holding(p) = {})
  <2>1. Sources(p)' = Sources(p)
    BY <1>3 DEF Sources
  <2> QED
    BY <1>1, <2>1
<1> QED
  BY <1>2, <1>3

LEMMA SourcesJoin ==
  ASSUME Typed, NEW p \in PressedKeys, NEW d \in Devices \ Holding(p),
         Holding(p)' = Holding(p) \cup {d}
  PROVE  /\ Sources(p)' <= Sources(p) + 1
         /\ p[2] # "Tab" /\ p[2] \notin Repeating => Sources(p)' = 0
<1>1. /\ Sources(p) \in Nat /\ IsFiniteSet(Holding(p)) /\ Cardinality(Holding(p)) \in Nat
      /\ Holding(p)' # {}
  BY SourcesFacts
<1>2. Cardinality(Holding(p)') = Cardinality(Holding(p)) + 1
  BY <1>1, FS_AddElement
<1>3. CASE p[2] = "Tab"
  <2>1. Sources(p)' = Cardinality(Holding(p)) + 1
    BY <1>1, <1>2, <1>3 DEF Sources
  <2>2. Cardinality(Holding(p)) <= Sources(p)
    <3>1. Cardinality({}) = 0
      BY FS_EmptySet
    <3> QED
      BY <1>1, <1>3, <3>1 DEF Sources
  <2> QED
    BY <1>1, <1>3, <2>1, <2>2
<1>4. CASE p[2] # "Tab"
  <2>1. Sources(p)' = One(p[2] \in Repeating /\ Holding(p)' # {})
    BY <1>4 DEF Sources
  <2> QED
    BY <1>1, <2>1 DEF One
<1> QED
  BY <1>3, <1>4

LEMMA SourcesLeave ==
  ASSUME Typed, NEW p \in PressedKeys, NEW d \in Holding(p),
         Holding(p)' = Holding(p) \ {d}, p[2] = "Tab" => "Tab" \notin async' \/ "Tab" \in async
  PROVE  /\ Sources(p)' <= Sources(p)
         /\ p[2] # "Tab" => Sources(p)' = 0
         /\ "Tab" \notin async' /\ p[2] = "Tab" => Sources(p)' < Sources(p)
<1>1. Sources(p) \in Nat /\ IsFiniteSet(Holding(p)) /\ Cardinality(Holding(p)) \in Nat
  BY SourcesFacts
<1>2. Cardinality(Holding(p)') = Cardinality(Holding(p)) - 1 /\ Cardinality(Holding(p)) > 0
  <2>1. Cardinality(Holding(p) \ {d}) = Cardinality(Holding(p)) - 1
    BY <1>1, FS_RemoveElement
  <2>2. Cardinality(Holding(p)) # 0
    BY <1>1, FS_EmptySet
  <2> QED
    BY <1>1, <2>1, <2>2
<1>3. CASE p[2] = "Tab"
  <2>1. Sources(p) = Cardinality(Holding(p))
    BY <1>3 DEF Sources
  <2>2. CASE Holding(p)' = {}
    <3>1. Sources(p)' = One("Tab" \in async')
      BY <1>3, <2>2 DEF Sources
    <3>2. One("Tab" \in async') \in {0, 1} /\
          ("Tab" \notin async' => One("Tab" \in async') = 0)
      BY DEF One
    <3> QED
      BY <1>1, <1>2, <1>3, <2>1, <3>1, <3>2
  <2>3. CASE Holding(p)' # {}
    <3>1. Sources(p)' = Cardinality(Holding(p)')
      BY <1>3, <2>3 DEF Sources
    <3> QED
      BY <1>1, <1>2, <1>3, <2>1, <3>1
  <2> QED
    BY <2>2, <2>3
<1>4. CASE p[2] # "Tab"
  <2>1. Holding(p)' = {}
    BY <1>4, SourcesFacts
  <2>2. Sources(p)' = One(p[2] \in Repeating /\ Holding(p)' # {})
    BY <1>4 DEF Sources
  <2>3. Sources(p)' = 0
    BY <2>1, <2>2 DEF One
  <2> QED
    BY <1>1, <1>4, <2>3
<1> QED
  BY <1>3, <1>4

\* The moves, as one key sees them: it is another's, ...
Still(p) ==
  /\ Unheard(p)
  /\ presses'[p] = presses[p]
  /\ lost' >= lost
  /\ plugged' \subseteq plugged
  /\ Holding(p)' = Holding(p)
  /\ Sources(p)' <= Sources(p)

\* ... it is pressed, ...
Pressed(p) ==
  /\ presses'[p] = presses[p] + 1
  /\ plugged' = plugged
  /\ \E d \in plugged \ Holding(p) :
       /\ Holding(p)' = Holding(p) \cup {d}
       /\ PressedKey(d, p[2]) = p /\ p[2] \in layout[d]
  /\ Sources(p)' <= Sources(p) + 1
  /\ \/ HeardMake(p) /\ p[2] \notin ReleasesAtOnce /\ lost' = lost
     \/ HeardBoth(p) /\ Sources(p)' = 0 /\ lost' = lost
     \/ Unheard(p) /\ lost' = lost + 1

\* ... it repeats, ...
Repeated(p) ==
  /\ UNCHANGED <<plugged, lost>> /\ presses'[p] = presses[p]
  /\ HeardMake(p) /\ p[2] \notin ReleasesAtOnce
  /\ Holding(p)' = Holding(p) /\ Holding(p) # {}
  /\ Sources(p)' <= Sources(p) /\ Sources(p) # 0

\* ... it goes up, ...
LetUp(p) ==
  /\ UNCHANGED plugged /\ presses'[p] = presses[p]
  /\ Sources(p)' <= Sources(p)
  /\ \/ /\ HeardBreak(p) /\ lost' = lost
        /\ Sources(p)' = 0 \/ Sources(p)' < Sources(p)
        /\ p = <<0, "Tab">> => Sources(p)' < Sources(p)
     \/ Unheard(p) /\ lost' = lost /\ p[2] \in ReleasesAtOnce
     \/ Unheard(p) /\ lost' = lost + 1 /\ p[2] \in Lossy

\* ... or its device is pulled out.
PulledOut(p) ==
  /\ UNCHANGED lost /\ presses'[p] = presses[p]
  /\ Sources(p)' <= Sources(p)
  /\ plugged' \subseteq plugged /\ plugged' # Devices
  /\ \/ HeardBreak(p) /\ p[1] # 0 /\ Sources(p)' = 0
     \/ Unheard(p) /\ p[1] = 0 /\ \E d \in Devices \ plugged' : "Tab" \in layout[d]

Moved(p) == Still(p) \/ Pressed(p) \/ Repeated(p) \/ LetUp(p) \/ PulledOut(p)

\* What a key that is not moved keeps.
LEMMA OthersStill ==
  ASSUME Typed, NEW p \in PressedKeys, Unheard(p), presses'[p] = presses[p],
         lost' \in {lost, lost + 1}, plugged' \subseteq plugged, Holding(p)' = Holding(p),
         p[2] = "Tab" => Holding(p) # {} \/ "Tab" \notin async' \/ "Tab" \in async
  PROVE  Moved(p)
<1>1. Sources(p)' <= Sources(p)
  BY SourcesSame
<1>2. lost' >= lost
  BY Quantities
<1> QED
  BY <1>1, <1>2 DEF Moved, Still

LEMMA PressCounts ==
  ASSUME Typed, NEW X, presses' = Increased(presses, X), NEW p \in PressedKeys
  PROVE  presses'[p] = IF p \in X THEN presses[p] + 1 ELSE presses[p]
<1>1. presses \in [PressedKeys -> Nat]
  BY DEF Typed, TallyTyped
<1> QED
  BY <1>1 DEF Increased

LEMMA PressOutcome ==
  ASSUME Typed, NEW p \in PressedKeys, NEW d \in Devices, NEW k \in PhysicalKeys,
         PressKey(d, k)
  PROVE  Moved(p)
<1> DEFINE x == PressedKey(d, k)
<1>1. /\ d \in plugged /\ k \in layout[d] \ MouseButtons /\ k \notin down[d]
      /\ down' = [down EXCEPT ![d] = down[d] \cup {k}]
      /\ async' = async \cup ({k} \cap SystemKeys) /\ presses' = Increased(presses, {x})
      /\ UNCHANGED <<pressed, ui, plugged>>
  BY DEF PressKey, counter, source
<1>2. PICK signal \in Signals[k] : Deliver(k, PressMessages(d, k, signal))
  BY DEF PressKey
<1>3. /\ Holding(p)' \ {d} = Holding(p) \ {d}
      /\ d \in Holding(p)' <=> PressedKey(d, p[2]) = p /\ p[2] \in down[d] \cup {k}
  <2> DEFINE set == down[d] \cup {k}
  <2>1. down' = [down EXCEPT ![d] = set]
    BY <1>1
  <2> HIDE DEF set
  <2>2. /\ Holding(p)' \ {d} = Holding(p) \ {d}
        /\ d \in Holding(p)' <=> PressedKey(d, p[2]) = p /\ p[2] \in set
    BY <2>1, HoldingMoves
  <2> QED
    BY <2>2 DEF set
<1>4. d \in Holding(p) <=> PressedKey(d, p[2]) = p /\ p[2] \in down[d]
  BY DEF Holding
<1>5. x[2] = k /\ (k = "Tab" => x = <<0, "Tab">>)
  BY DEF PressedKey
<1>6. lost' \in {lost, lost + 1} /\ lost \in Nat
  BY <1>2, Quantities DEF Deliver
<1>7. CASE p # x
  <2>1. Unheard(p)
    BY <1>1, <1>2, <1>7, QueuePress, UnheardHere DEF Deliver
  <2>2. presses'[p] = presses[p]
    BY <1>1, <1>7, PressCounts
  <2>3. Holding(p)' = Holding(p)
    BY <1>3, <1>4, <1>7
  <2>4. p[2] = "Tab" => "Tab" \notin async' \/ "Tab" \in async
    BY <1>1, <1>5, <1>7, TabFacts
  <2> QED
    BY <1>1, <1>6, <2>1, <2>2, <2>3, <2>4, OthersStill
<1>8. CASE p = x
  <2>1. presses'[p] = presses[p] + 1
    BY <1>1, <1>8, PressCounts
  <2>2. d \notin Holding(p) /\ Holding(p)' = Holding(p) \cup {d}
    BY <1>1, <1>3, <1>4, <1>5, <1>8
  <2>3. /\ Sources(p)' <= Sources(p) + 1
        /\ k # "Tab" /\ k \notin Repeating => Sources(p)' = 0
    BY <1>5, <1>8, <2>2, SourcesJoin
  <2>4. k \in ReleasesAtOnce => k # "Tab" /\ k \notin Repeating
    BY KeyFacts, InputAssumption
  <2>5. \/ lost' = lost /\ IF k \in ReleasesAtOnce THEN HeardBoth(p) ELSE HeardMake(p)
        \/ lost' = lost + 1 /\ Unheard(p)
    BY <1>1, <1>2, <1>8, QueuePress, UnheardHere DEF Deliver
  <2> QED
    BY <1>1, <1>5, <1>8, <2>1, <2>2, <2>3, <2>4, <2>5 DEF Moved, Pressed
<1> QED
  BY <1>7, <1>8

LEMMA RepeatOutcome ==
  ASSUME Typed, NEW p \in PressedKeys, NEW d \in Devices, NEW k \in PhysicalKeys,
         RepeatKey(d, k)
  PROVE  Moved(p)
<1> DEFINE x == PressedKey(d, k)
<1>1. /\ k \in down[d] /\ k \in Repeating /\ async' = async \cup ({k} \cap SystemKeys)
      /\ UNCHANGED <<pressed, ui, plugged, presses, lost, down>>
  BY DEF RepeatKey, counter, source
<1>2. PICK signal \in Signals[k] : queue' = queue \o Messages(d, signal, FALSE)
  BY DEF RepeatKey
<1>3. Holding(p)' = Holding(p)
  BY <1>1 DEF Holding
<1>4. x[2] = k /\ (k = "Tab" => x = <<0, "Tab">>)
  BY DEF PressedKey
<1>5. k \in layout[d] \ MouseButtons /\ k \notin ReleasesAtOnce
  BY <1>1, InputAssumption DEF Typed, KeysTyped
<1>6. CASE p # x
  <2>1. Unheard(p)
    BY <1>1, <1>2, <1>5, <1>6, QueueKey
  <2>2. p[2] = "Tab" => "Tab" \notin async' \/ "Tab" \in async
    BY <1>1, <1>4, <1>6, TabFacts
  <2> QED
    BY <1>1, <1>3, <2>1, <2>2, OthersStill
<1>7. CASE p = x
  <2>1. HeardMake(p)
    BY <1>1, <1>2, <1>5, <1>7, QueueKey
  <2>2. d \in Holding(p)
    BY <1>1, <1>4, <1>7 DEF Holding
  <2>3. Sources(p)' <= Sources(p)
    BY <1>3, <2>2, SourcesSame
  <2>4. Sources(p) # 0
    <3>1. CASE p[2] = "Tab"
      <4>1. Sources(p) = Cardinality(Holding(p))
        BY <2>2, <3>1 DEF Sources
      <4> QED
        BY <2>2, <4>1, SourcesFacts, FS_EmptySet
    <3>2. CASE p[2] # "Tab"
      <4>1. Sources(p) = One(p[2] \in Repeating /\ Holding(p) # {})
        BY <3>2 DEF Sources
      <4> QED
        BY <1>1, <1>4, <1>7, <2>2, <4>1 DEF One
    <3> QED
      BY <3>1, <3>2
  <2> QED
    BY <1>1, <1>3, <1>4, <1>5, <1>7, <2>1, <2>2, <2>3, <2>4 DEF Moved, Repeated
<1> QED
  BY <1>6, <1>7

LEMMA LetGoOutcome ==
  ASSUME Typed, NEW p \in PressedKeys, NEW d \in Devices, NEW k \in PhysicalKeys, LetGo(d, k)
  PROVE  Moved(p)
<1> DEFINE x == PressedKey(d, k)
<1>1. /\ k \in down[d] /\ k \notin MouseButtons /\ async' = async \ {k}
      /\ down' = [down EXCEPT ![d] = down[d] \ {k}]
      /\ UNCHANGED <<pressed, ui, plugged, presses>>
  BY DEF LetGo, counter, source
<1>2. PICK signal \in Signals[k] : Deliver(k, ReleaseMessages(d, k, signal))
  BY DEF LetGo
<1>3. /\ Holding(p)' \ {d} = Holding(p) \ {d}
      /\ d \in Holding(p)' <=> PressedKey(d, p[2]) = p /\ p[2] \in down[d] \ {k}
  <2> DEFINE set == down[d] \ {k}
  <2>1. down' = [down EXCEPT ![d] = set]
    BY <1>1
  <2> HIDE DEF set
  <2>2. /\ Holding(p)' \ {d} = Holding(p) \ {d}
        /\ d \in Holding(p)' <=> PressedKey(d, p[2]) = p /\ p[2] \in set
    BY <2>1, HoldingMoves
  <2> QED
    BY <2>2 DEF set
<1>4. d \in Holding(p) <=> PressedKey(d, p[2]) = p /\ p[2] \in down[d]
  BY DEF Holding
<1>5. x[2] = k /\ (k = "Tab" => x = <<0, "Tab">>)
  BY DEF PressedKey
<1>6. lost' \in {lost, lost + 1} /\ lost \in Nat
  BY <1>2, Quantities DEF Deliver
<1>7. k \in layout[d] \ MouseButtons
  BY <1>1 DEF Typed, KeysTyped
<1>8. CASE p # x
  <2>1. Unheard(p)
    BY <1>1, <1>2, <1>7, <1>8, QueueRelease, UnheardHere DEF Deliver
  <2>2. Holding(p)' = Holding(p)
    BY <1>3, <1>4, <1>8
  <2>3. p[2] = "Tab" => "Tab" \notin async' \/ "Tab" \in async
    BY <1>1
  <2> QED
    BY <1>1, <1>6, <2>1, <2>2, <2>3, OthersStill
<1>9. CASE p = x
  <2>1. d \in Holding(p) /\ Holding(p)' = Holding(p) \ {d}
    BY <1>1, <1>3, <1>4, <1>5, <1>9
  <2>2. k = "Tab" => "Tab" \notin async'
    BY <1>1
  <2>3. /\ Sources(p)' <= Sources(p)
        /\ k # "Tab" => Sources(p)' = 0
        /\ k = "Tab" => Sources(p)' < Sources(p)
    BY <1>5, <1>9, <2>1, <2>2, SourcesLeave
  <2>4. \/ lost' = lost /\ IF k \in ReleasesAtOnce THEN Unheard(p) ELSE HeardBreak(p)
        \/ lost' = lost + 1 /\ Unheard(p) /\ k \in Lossy
    BY <1>1, <1>2, <1>7, <1>9, QueueRelease, UnheardHere DEF Deliver
  <2>5. p = <<0, "Tab">> => k = "Tab"
    BY <1>5, <1>9
  <2> QED
    BY <1>1, <1>5, <1>9, <2>3, <2>4, <2>5 DEF Moved, LetUp
<1> QED
  BY <1>8, <1>9

LEMMA ButtonsOutcome ==
  ASSUME Typed, NEW p \in PressedKeys, NEW d \in Devices, NEW buttons \in SUBSET MouseButtons,
         MoveButtons(d, buttons)
  PROVE  Moved(p)
<1> DEFINE downs == buttons \ down[d]
           ups == buttons \cap down[d]
           set == (down[d] \cup downs) \ ups
           m == Click(d, downs, ups)
<1>1. /\ d \in plugged /\ buttons \subseteq layout[d] \cap MouseButtons
      /\ down' = [down EXCEPT ![d] = set] /\ presses' = Increased(presses, HeldAs(d, downs))
      /\ queue' = Append(queue, m) /\ UNCHANGED <<pressed, ui, plugged, async, lost>>
  BY DEF MoveButtons, counter, source
<1>2. m \in Mail
  BY <1>1, ClickIsMail DEF Typed, Mail
<1>3. /\ Makes(m, p) <=> p \in HeldAs(d, downs)
      /\ Breaks(m, p) <=> p \in HeldAs(d, ups)
  BY DEF Click, Makes, Breaks
<1>4. /\ Makes(m, p) => HeardMake(p)
      /\ Breaks(m, p) => HeardBreak(p)
      /\ ~Touches(m, p) => Unheard(p)
  BY <1>1, <1>2, QueueMessage
<1>5. /\ Holding(p)' \ {d} = Holding(p) \ {d}
      /\ d \in Holding(p)' <=> PressedKey(d, p[2]) = p /\ p[2] \in set
  <2> HIDE DEF set
  <2> QED
    BY <1>1, HoldingMoves
<1>6. d \in Holding(p) <=> PressedKey(d, p[2]) = p /\ p[2] \in down[d]
  BY DEF Holding
<1>7. \A k : /\ PressedKey(d, k)[2] = k
             /\ k \in MouseButtons => /\ k # "Tab" /\ k \notin Repeating
                                      /\ k \notin ReleasesAtOnce
  BY KeyFacts, InputAssumption DEF PressedKey
<1>8. presses'[p] = IF p \in HeldAs(d, downs) THEN presses[p] + 1 ELSE presses[p]
  BY <1>1, PressCounts
<1>9. \A keys : p \in HeldAs(d, keys) <=> PressedKey(d, p[2]) = p /\ p[2] \in keys
  BY <1>7 DEF HeldAs
<1>10. CASE p \in HeldAs(d, downs)
  <2>1. PressedKey(d, p[2]) = p /\ p[2] \in downs
    BY <1>9, <1>10
  <2>2. d \notin Holding(p) /\ Holding(p)' = Holding(p) \cup {d}
    BY <1>5, <1>6, <2>1
  <2>3. p[2] # "Tab" /\ p[2] \notin Repeating /\ p[2] \notin ReleasesAtOnce
    BY <1>7, <2>1
  <2>4. Sources(p)' <= Sources(p) + 1
    BY <2>2, SourcesJoin
  <2> QED
    BY <1>1, <1>3, <1>4, <1>8, <1>10, <2>1, <2>2, <2>3, <2>4 DEF Moved, Pressed
<1>11. CASE p \in HeldAs(d, ups)
  <2>1. PressedKey(d, p[2]) = p /\ p[2] \in ups
    BY <1>9, <1>11
  <2>2. d \in Holding(p) /\ Holding(p)' = Holding(p) \ {d}
    BY <1>5, <1>6, <2>1
  <2>3. p[2] # "Tab"
    BY <1>7, <2>1
  <2>4. Sources(p)' <= Sources(p) /\ Sources(p)' = 0
    BY <2>2, <2>3, SourcesLeave
  <2>5. presses'[p] = presses[p] /\ p # <<0, "Tab">>
    BY <1>8, <1>9, <2>1, <2>3
  <2> QED
    BY <1>1, <1>3, <1>4, <1>11, <2>4, <2>5 DEF Moved, LetUp
<1>12. CASE p \notin HeldAs(d, downs) /\ p \notin HeldAs(d, ups)
  <2>1. Unheard(p) /\ presses'[p] = presses[p]
    BY <1>3, <1>4, <1>8, <1>12 DEF Touches
  <2>2. Holding(p)' = Holding(p)
    BY <1>5, <1>6, <1>9, <1>12
  <2> HIDE DEF m, set, downs, ups
  <2> QED
    BY <1>1, <2>1, <2>2, OthersStill
<1> QED
  BY <1>10, <1>11, <1>12

LEMMA UnplugOutcome ==
  ASSUME Typed, NEW p \in PressedKeys, NEW d \in Devices, Unplug(d)
  PROVE  Moved(p)
<1> DEFINE m == Removal(d)
           none == {}
<1>1. /\ plugged' = plugged \ {d} /\ async' \subseteq async /\ queue' = Append(queue, m)
      /\ down' = [down EXCEPT ![d] = none]
      /\ UNCHANGED <<pressed, ui, presses, lost>>
  BY DEF Unplug, counter, source, bounds
<1>2. m \in Mail /\ ~Makes(m, p) /\ (Breaks(m, p) <=> p[1] = d)
  BY DEF Removal, Mail, RemovalMail, Makes, Breaks
<1>3. /\ Breaks(m, p) => HeardBreak(p)
      /\ ~Touches(m, p) => Unheard(p)
  BY <1>1, <1>2, QueueMessage
<1>4. Holding(p)' = Holding(p) \ {d}
  <2> HIDE DEF none
  <2>1. /\ Holding(p)' \ {d} = Holding(p) \ {d}
        /\ d \in Holding(p)' <=> PressedKey(d, p[2]) = p /\ p[2] \in none
    BY <1>1, HoldingMoves
  <2> QED
    BY <2>1 DEF none
<1>5. Sources(p)' <= Sources(p)
  <2>1. CASE d \in Holding(p)
    BY <1>1, <1>4, <2>1, SourcesLeave
  <2>2. CASE d \notin Holding(p)
    BY <1>1, <1>4, <2>2, SourcesSame
  <2> QED
    BY <2>1, <2>2
<1>6. plugged' \subseteq plugged /\ d \in Devices \ plugged' /\ plugged' # Devices
  BY <1>1
<1>7. CASE p[1] = d
  <2>1. HeardBreak(p) /\ p[1] # 0
    BY <1>2, <1>3, <1>7, InputAssumption
  <2>2. p[2] # "Tab"
    BY <2>1, TabFacts
  <2>3. Holding(p)' = {}
    BY <1>4, <1>7, <2>2, SourcesFacts
  <2>4. Sources(p)' = 0
    BY <2>2, <2>3 DEF Sources, One
  <2> QED
    BY <1>1, <1>5, <1>6, <2>1, <2>4 DEF Moved, PulledOut
<1>8. CASE p[1] # d
  <2>1. Unheard(p)
    BY <1>2, <1>3, <1>8 DEF Touches
  <2>2. CASE d \in Holding(p)
    <3>1. PressedKey(d, p[2]) = p /\ p[2] \in down[d]
      BY <2>2 DEF Holding
    <3>2. p[2] = "Tab" /\ p[1] = 0
      BY <1>8, <3>1 DEF PressedKey
    <3>3. "Tab" \in layout[d]
      BY <3>1, <3>2 DEF Typed, KeysTyped
    <3> QED
      BY <1>1, <1>5, <1>6, <2>1, <3>2, <3>3 DEF Moved, PulledOut
  <2>3. CASE d \notin Holding(p)
    <3>1. Holding(p)' = Holding(p)
      BY <1>4, <2>3
    <3> QED
      BY <1>1, <1>6, <2>1, <3>1, OthersStill
  <2> QED
    BY <2>2, <2>3
<1> QED
  BY <1>7, <1>8

LEMMA MoveOutcomes ==
  ASSUME Typed, NEW p \in PressedKeys, Moves
  PROVE  Moved(p) /\ Accounted(p)' = Accounted(p) /\ Credits(p)' = Credits(p)
<1>1. Moved(p)
  BY PressOutcome, RepeatOutcome, LetGoOutcome, ButtonsOutcome, UnplugOutcome
     DEF Moves, KeyMoves
<1>2. UNCHANGED <<recorded, paused_over, early, clears>>
  BY StepGroups DEF tally
<1> QED
  BY <1>1, <1>2 DEF Accounted, Credits

-------------------------------------------------------------------------------
(* The inductive invariant, of each key. *)

\* What was recorded or passed over, and what will be or may be, was pressed.
Credit(p) == Accounted(p) + ToCome(p) + Loose(p) + Reserve(p) <= presses[p] + Credits(p)

\* The queue has a key held that is not, though its device is there: its break was lost, and
\* its next press will not count.
Stale(p) ==
  One(AtEnd(p) /\ Holding(p) = {} /\
      \E d \in plugged : PressedKey(d, p[2]) = p /\ p[2] \in layout[d])

\* Each press was recorded or passed over, or will be, or was lost.
Debt(p) ==
  (p[2] = "Tab" => OnOneKeyboard("Tab"))
    => presses[p] + Stale(p) <= Accounted(p) + ToCome(p) + lost

\* What the queue has held is.
EndDown(p) ==
  AtEnd(p) => \/ p[2] \in Lossy /\ lost > 0
              \/ p[1] = 0 /\ plugged # Devices
              \/ Holding(p) # {}

\* A key that sends its release with its press does not count as held in the end.
AtOnce(p) == p[2] \in ReleasesAtOnce => ~AtEnd(p)

KeyInv(p) == Credit(p) /\ Debt(p) /\ EndDown(p) /\ AtOnce(p)

\* What GetAsyncKeyState reports is down, unless a device was pulled out; on those no key
\* is held.
AsyncDown   == \A k \in async : plugged # Devices \/ \E d \in Devices : k \in down[d]
DownPlugged == \A d \in Devices \ plugged : down[d] = {}

Inv == Typed /\ AsyncDown /\ DownPlugged /\ \A p \in PressedKeys : KeyInv(p)

LEMMA StaleFacts ==
  ASSUME NEW p
  PROVE  Stale(p) \in {0, 1}
  BY DEF Stale, One

\* The quantities after a step.
LEMMA QuantitiesNext ==
  ASSUME Typed', NEW p, p \in PressedKeys'
  PROVE  /\ {ToCome(p)', Accounted(p)', Credits(p)'} \subseteq Nat
         /\ {presses'[p], lost', Reserve(p)'} \subseteq Nat
         /\ Reserve(p)' \in {0, 1} /\ Stale(p)' \in {0, 1}
         /\ Sources(p)' \in Nat /\ Loose(p)' \in Nat
<1>1. queue' \in Seq(Mail')
  BY DEF Typed
<1>2. ToCome(p)' \in Nat
  BY <1>1, FreshCounts DEF ToCome
<1>3. /\ presses'[p] \in Nat /\ recorded'[p] \in Nat /\ paused_over'[p] \in Nat
      /\ early'[p] \in Nat /\ lost' \in Nat /\ clears' \in Nat
  BY DEF Typed, TallyTyped
<1>4. Reserve(p)' \in {0, 1} /\ Stale(p)' \in {0, 1}
  BY DEF Reserve, Stale, One
<1>5. Cardinality(Holding(p)') \in Nat
  <2>1. Holding(p)' \subseteq Devices /\ IsFiniteSet(Devices)
    BY InputAssumption DEF Holding
  <2> QED
    BY <2>1, FS_Subset, FS_CardinalityType
<1>6. \A c : One(c) \in {0, 1}
  BY DEF One
<1>7. Sources(p)' \in Nat
  BY <1>5, <1>6 DEF Sources
<1>8. Loose(p)' \in Nat
  BY <1>7 DEF Loose
<1> QED
  BY <1>2, <1>3, <1>4, <1>7, <1>8 DEF Accounted, Credits

\* The UI thread keeps it.
LEMMA HandledKeeps ==
  ASSUME Typed, AsyncDown, NEW p \in PressedKeys, KeyInv(p), Handled(p),
          Reserve(p)' = 0, Typed',
         UNCHANGED <<layout, plugged, down, async, presses, lost>>
  PROVE  KeyInv(p)'
<1>1. /\ {ToCome(p), Accounted(p), Credits(p), presses[p], lost, Reserve(p)} \subseteq Nat
      /\ Sources(p) \in Nat /\ Loose(p) \in Nat /\ Stale(p) \in {0, 1}
  BY Quantities, SourcesFacts, StaleFacts
<1>2. p \in PressedKeys'
  BY SameRun
<1>3. /\ {ToCome(p)', Accounted(p)', Credits(p)'} \subseteq Nat
      /\ Stale(p)' \in {0, 1}
  BY <1>2, QuantitiesNext
<1>4. Holding(p)' = Holding(p) /\ OnOneKeyboard("Tab")' = OnOneKeyboard("Tab")
  BY DEF Holding, OnOneKeyboard
<1>5. Sources(p)' = Sources(p)
  BY <1>4 DEF Sources
<1>6. presses'[p] = presses[p] /\ lost' = lost
  OBVIOUS
<1>7. AtEnd(p)' => AtEnd(p) \/ Sampled(p)
  BY DEF Handled, Calm, Freed
<1>8. Sampled(p) => p = <<0, "Tab">> /\ "Tab" \in async /\ Sources(p) # 0
  <2> SUFFICES ASSUME Sampled(p)
               PROVE  p = <<0, "Tab">> /\ "Tab" \in async /\ Sources(p) # 0
    OBVIOUS
  <2>1. p = <<0, "Tab">> /\ p[2] = "Tab" /\ "Tab" \in async
    BY DEF Sampled
  <2>2. CASE Holding(p) = {}
    BY <2>1, <2>2 DEF Sources, One
  <2>3. CASE Holding(p) # {}
    <3>1. Sources(p) = Cardinality(Holding(p))
      BY <2>1, <2>3 DEF Sources
    <3> QED
      BY <2>1, <2>3, <3>1, SourcesFacts, FS_EmptySet
  <2> QED
    BY <2>1, <2>2, <2>3
<1>9. Credit(p)'
  <2>1. Accounted(p)' + ToCome(p)' + Loose(p)' <= presses[p] + Credits(p)'
    <3>1. Accounted(p) + ToCome(p) + Loose(p) + Reserve(p) <= presses[p] + Credits(p)
      BY DEF KeyInv, Credit
    <3>2. Loose(p)' = IF AtEnd(p)' /\ Sources(p) # 0 THEN Sources(p) - 1 ELSE Sources(p)
      BY <1>5 DEF Loose
    <3>3. CASE Calm(p)
      <4>1. Loose(p)' = Loose(p)
        BY <3>2, <3>3 DEF Loose, Calm
      <4> QED
        BY <1>1, <1>3, <3>1, <3>3, <4>1 DEF Calm
    <3>4. CASE Freed(p)
      <4>1. CASE AtEnd(p)' <=> AtEnd(p)
        <5>1. Loose(p)' = Loose(p)
          BY <3>2, <4>1 DEF Loose
        <5>2. /\ Accounted(p)' = Accounted(p) /\ ToCome(p)' = ToCome(p) + 1
              /\ Credits(p)' > Credits(p)
          BY <3>4, <4>1 DEF Freed
        <5> QED
          BY <1>1, <1>3, <3>1, <5>1, <5>2
      <4>2. CASE AtEnd(p) /\ ~AtEnd(p)'
        <5>1. /\ Accounted(p)' = Accounted(p) /\ ToCome(p)' = ToCome(p)
              /\ \/ Credits(p)' > Credits(p)
                 \/ Credits(p)' = Credits(p) /\ Holding(p) = {} /\ p[2] \notin async
          BY <3>4, <4>2 DEF Freed
        <5>2. Loose(p)' = Sources(p)
              /\ Loose(p) = IF Sources(p) # 0 THEN Sources(p) - 1 ELSE Sources(p)
          BY <3>2, <4>2 DEF Loose
        <5>3. Holding(p) = {} /\ p[2] \notin async => Sources(p) = 0
          BY DEF Sources, One
        <5> QED
          BY <1>1, <1>3, <3>1, <5>1, <5>2, <5>3
      <4> QED
        BY <3>4, <4>1, <4>2 DEF Freed
    <3>5. CASE Sampled(p)
      <4>1. /\ Accounted(p)' = Accounted(p) + 1 /\ ToCome(p)' = ToCome(p)
            /\ Credits(p)' = Credits(p)
        BY <3>5 DEF Sampled
      <4>2. CASE ~AtEnd(p) /\ AtEnd(p)'
        <5>1. Loose(p) = Sources(p) /\ Loose(p)' = Sources(p) - 1
          BY <1>8, <3>2, <3>5, <4>2 DEF Loose
        <5> QED
          BY <1>1, <1>3, <3>1, <4>1, <5>1
      <4>3. CASE (AtEnd(p)' <=> AtEnd(p)) /\ Reserve(p) = 1
        <5>1. Loose(p)' = Loose(p)
          BY <3>2, <4>3 DEF Loose
        <5> QED
          BY <1>1, <1>3, <3>1, <4>1, <4>3, <5>1
      <4> QED
        BY <3>5, <4>2, <4>3 DEF Sampled
    <3> QED
      BY <3>3, <3>4, <3>5 DEF Handled
  <2>2. Loose(p)' \in Nat
    BY <1>2, QuantitiesNext
  <2> QED
    BY <1>1, <1>3, <1>6, <2>1, <2>2 DEF Credit
<1>10. Debt(p)'
  <2> SUFFICES ASSUME p[2] = "Tab" => OnOneKeyboard("Tab")
               PROVE  presses[p] + Stale(p)' <= Accounted(p)' + ToCome(p)' + lost
    BY <1>4, <1>6 DEF Debt
  <2>1. presses[p] + Stale(p) <= Accounted(p) + ToCome(p) + lost
    BY DEF KeyInv, Debt
  <2>2. CASE Sampled(p)
    BY <1>1, <1>3, <2>1, <2>2 DEF Sampled
  <2>3. CASE ~Sampled(p)
    <3>1. Stale(p)' <= Stale(p)
      BY <1>4, <1>7, <2>3 DEF Stale, One
    <3>2. Accounted(p)' + ToCome(p)' >= Accounted(p) + ToCome(p)
      BY <1>1, <1>3, <2>3 DEF Handled, Calm, Freed
    <3> QED
      BY <1>1, <1>3, <2>1, <3>1, <3>2
  <2> QED
    BY <2>2, <2>3
<1>11. EndDown(p)'
  <2>1. CASE Sampled(p)
    <3>1. p = <<0, "Tab">> /\ p[1] = 0 /\ p[2] = "Tab" /\ "Tab" \in async
      BY <2>1 DEF Sampled
    <3>2. plugged # Devices \/ Holding(p) # {}
      BY <3>1 DEF AsyncDown, Holding, PressedKey
    <3> QED
      BY <1>4, <3>1, <3>2 DEF EndDown
  <2>2. CASE ~Sampled(p)
    BY <1>4, <1>6, <1>7, <2>2 DEF EndDown, KeyInv
  <2> QED
    BY <2>1, <2>2
<1>12. AtOnce(p)'
  <2>1. Sampled(p) => p[2] \notin ReleasesAtOnce
    BY <1>8, KeyFacts
  <2> QED
    BY <1>7, <2>1 DEF AtOnce, KeyInv
<1> QED
  BY <1>9, <1>10, <1>11, <1>12 DEF KeyInv

\* So do the moves.
LEMMA MovedKeeps ==
  ASSUME Typed, DownPlugged, NEW p \in PressedKeys, KeyInv(p), Moved(p), Typed',
          layout' = layout,
         Accounted(p)' = Accounted(p), Credits(p)' = Credits(p)
  PROVE  KeyInv(p)'
<1>1. /\ {ToCome(p), Accounted(p), Credits(p), presses[p], lost, Reserve(p)} \subseteq Nat
      /\ Sources(p) \in Nat /\ Loose(p) \in Nat /\ Stale(p) \in {0, 1} /\ Reserve(p) \in {0, 1}
      /\ p[2] # "Tab" => Sources(p) \in {0, 1} /\ Holding(p) \subseteq {p[1]}
  BY Quantities, SourcesFacts, StaleFacts
<1>2. p \in PressedKeys'
  BY SameRun
<1>3. /\ {ToCome(p)', Accounted(p)', Credits(p)'} \subseteq Nat
      /\ {presses'[p], lost', Reserve(p)'} \subseteq Nat
      /\ Sources(p)' \in Nat /\ Loose(p)' \in Nat /\ Stale(p)' \in {0, 1}
      /\ Reserve(p)' \in {0, 1}
  BY <1>2, QuantitiesNext
<1>4. OnOneKeyboard("Tab")' = OnOneKeyboard("Tab")
  BY DEF OnOneKeyboard
<1>5. plugged \subseteq Devices
  BY DEF Typed, KeysTyped
<1>6. AtOnce(p)'
  BY DEF Moved, Still, Pressed, Repeated, LetUp, PulledOut, Unheard, HeardMake, HeardBreak,
         HeardBoth, AtOnce, KeyInv
<1>7. EndDown(p)'
  <2> SUFFICES ASSUME AtEnd(p)'
               PROVE  \/ p[2] \in Lossy /\ lost' > 0
                      \/ p[1] = 0 /\ plugged' # Devices
                      \/ Holding(p)' # {}
    BY DEF EndDown
  <2>1. CASE Still(p)
    <3>1. /\ AtEnd(p) /\ lost' >= lost /\ Holding(p)' = Holding(p)
          /\ plugged # Devices => plugged' # Devices
      BY <1>5, <2>1 DEF Still, Unheard
    <3>2. lost > 0 => lost' > 0
      BY <1>1, <1>3, <3>1
    <3> QED
      BY <3>1, <3>2 DEF KeyInv, EndDown
  <2>2. CASE Pressed(p)
    BY <2>2 DEF Pressed
  <2>3. CASE Repeated(p)
    BY <2>3 DEF Repeated
  <2>4. CASE LetUp(p)
    BY <1>1, <2>4 DEF LetUp, HeardBreak, Unheard, KeyInv, AtOnce
  <2>5. CASE PulledOut(p)
    BY <2>5 DEF PulledOut, HeardBreak
  <2> QED
    BY <2>1, <2>2, <2>3, <2>4, <2>5 DEF Moved
<1>8. Credit(p)'
  <2>1. /\ Accounted(p) + ToCome(p) + Loose(p) + Reserve(p) <= presses[p] + Credits(p)
        /\ Loose(p) = IF AtEnd(p) /\ Sources(p) # 0 THEN Sources(p) - 1 ELSE Sources(p)
        /\ Loose(p)' = IF AtEnd(p)' /\ Sources(p)' # 0 THEN Sources(p)' - 1 ELSE Sources(p)'
    BY DEF KeyInv, Credit, Loose
  <2>2. One(~AtEnd(p)) = IF AtEnd(p) THEN 0 ELSE 1
    BY DEF One
  <2>3. ToCome(p)' + Loose(p)' + Reserve(p)' + presses[p]
          <= ToCome(p) + Loose(p) + Reserve(p) + presses'[p]
    <3>1. ASSUME Unheard(p), \/ Sources(p)' <= Sources(p) /\ presses'[p] = presses[p]
                             \/ Sources(p)' <= Sources(p) + 1 /\ presses'[p] = presses[p] + 1
          PROVE  ToCome(p)' + Loose(p)' + Reserve(p)' + presses[p]
                   <= ToCome(p) + Loose(p) + Reserve(p) + presses'[p]
      <4>1. /\ ToCome(p)' = ToCome(p) /\ Reserve(p)' = Reserve(p)
            /\ AtEnd(p)' <=> AtEnd(p)
        BY <3>1 DEF Unheard
      <4> QED
        BY <1>1, <1>3, <2>1, <3>1, <4>1
    <3>2. ASSUME HeardMake(p),
                 \/ Sources(p)' <= Sources(p) /\ presses'[p] = presses[p] /\ Sources(p) # 0
                 \/ Sources(p)' <= Sources(p) + 1 /\ presses'[p] = presses[p] + 1
          PROVE  ToCome(p)' + Loose(p)' + Reserve(p)' + presses[p]
                   <= ToCome(p) + Loose(p) + Reserve(p) + presses'[p]
      <4>1. /\ ToCome(p)' = ToCome(p) + (IF AtEnd(p) THEN 0 ELSE 1) /\ Reserve(p)' = Reserve(p)
            /\ AtEnd(p)'
        BY <2>2, <3>2 DEF HeardMake
      <4> QED
        BY <1>1, <1>3, <2>1, <3>2, <4>1
    <3>3. ASSUME HeardBoth(p), Sources(p)' = 0, presses'[p] = presses[p] + 1
          PROVE  ToCome(p)' + Loose(p)' + Reserve(p)' + presses[p]
                   <= ToCome(p) + Loose(p) + Reserve(p) + presses'[p]
      <4>1. /\ ToCome(p)' = ToCome(p) + (IF AtEnd(p) THEN 0 ELSE 1) /\ Reserve(p)' = Reserve(p)
            /\ ~AtEnd(p)'
        BY <2>2, <3>3 DEF HeardBoth
      <4> QED
        BY <1>1, <1>3, <2>1, <3>3, <4>1
    <3>4. ASSUME HeardBreak(p), Sources(p)' <= Sources(p), presses'[p] = presses[p],
                 \/ Sources(p)' = 0 \/ Sources(p)' < Sources(p),
                 p = <<0, "Tab">> => Sources(p)' < Sources(p)
          PROVE  ToCome(p)' + Loose(p)' + Reserve(p)' + presses[p]
                   <= ToCome(p) + Loose(p) + Reserve(p) + presses'[p]
      <4>1. /\ ToCome(p)' = ToCome(p) /\ ~AtEnd(p)'
            /\ \/ Reserve(p)' = Reserve(p)
               \/ Sources(p)' < Sources(p) /\ ~AtEnd(p) /\ Reserve(p) = 0
        BY <3>4 DEF HeardBreak
      <4> QED
        BY <1>1, <1>3, <2>1, <3>4, <4>1
    <3>5. CASE Still(p)
      BY <3>1, <3>5 DEF Still
    <3>6. CASE Pressed(p)
      BY <3>1, <3>2, <3>3, <3>6 DEF Pressed
    <3>7. CASE Repeated(p)
      BY <3>2, <3>7 DEF Repeated
    <3>8. CASE LetUp(p)
      BY <3>1, <3>4, <3>8 DEF LetUp
    <3>9. CASE PulledOut(p) /\ Unheard(p)
      BY <3>1, <3>9 DEF PulledOut
    <3>10. CASE PulledOut(p) /\ HeardBreak(p) /\ p[1] # 0 /\ Sources(p)' = 0
      BY <3>4, <3>10 DEF PulledOut
    <3> QED
      BY <3>5, <3>6, <3>7, <3>8, <3>9, <3>10 DEF Moved, PulledOut
  <2> QED
    BY <1>1, <1>3, <2>1, <2>3 DEF Credit
<1>9. Debt(p)'
  <2> SUFFICES ASSUME p[2] = "Tab" => OnOneKeyboard("Tab")
               PROVE  presses'[p] + Stale(p)' <= Accounted(p)' + ToCome(p)' + lost'
    BY <1>4 DEF Debt
  <2>1. presses[p] + Stale(p) <= Accounted(p) + ToCome(p) + lost
    BY DEF KeyInv, Debt
  <2>2. One(~AtEnd(p)) = IF AtEnd(p) THEN 0 ELSE 1
    BY DEF One
  <2>3. CASE Still(p)
    <3>1. Stale(p)' <= Stale(p)
      BY <2>3 DEF Still, Unheard, Stale, One
    <3> QED
      BY <1>1, <1>3, <2>1, <2>3, <3>1 DEF Still, Unheard
  <2>4. CASE Pressed(p)
    <3>1. PICK d \in plugged \ Holding(p) :
            /\ Holding(p)' = Holding(p) \cup {d}
            /\ PressedKey(d, p[2]) = p /\ p[2] \in layout[d]
      BY <2>4 DEF Pressed
    <3>2. Stale(p)' = 0
      BY <3>1 DEF Stale, One
    <3>3. Holding(p) = {}
      <4>1. ASSUME NEW e \in Holding(p)
            PROVE  e = d
        <5>1. e \in Devices /\ d \in Devices /\ PressedKey(e, p[2]) = p /\ p[2] \in layout[e]
          BY <1>5 DEF Holding, Typed, KeysTyped
        <5> QED
          BY <3>1, <5>1 DEF OnOneKeyboard, PressedKey
      <4> QED
        BY <3>1, <4>1
    <3>4. Stale(p) = IF AtEnd(p) THEN 1 ELSE 0
      BY <3>1, <3>3 DEF Stale, One
    <3>5. \/ ToCome(p)' = ToCome(p) + (IF AtEnd(p) THEN 0 ELSE 1) /\ lost' = lost
          \/ ToCome(p)' = ToCome(p) /\ lost' = lost + 1
      BY <2>2, <2>4 DEF Pressed, HeardMake, HeardBoth, Unheard
    <3>6. presses'[p] = presses[p] + 1
      BY <2>4 DEF Pressed
    <3> QED
      BY <1>1, <1>3, <2>1, <3>2, <3>4, <3>5, <3>6
  <2>5. CASE Repeated(p)
    <3>1. Stale(p)' = 0
      BY <2>5 DEF Repeated, Stale, One
    <3>2. /\ ToCome(p)' = ToCome(p) + (IF AtEnd(p) THEN 0 ELSE 1)
          /\ lost' = lost /\ presses'[p] = presses[p]
      BY <2>2, <2>5 DEF Repeated, HeardMake
    <3> QED
      BY <1>1, <1>3, <2>1, <3>1, <3>2
  <2>6. CASE LetUp(p)
    <3>1. ToCome(p)' = ToCome(p) /\ presses'[p] = presses[p]
      BY <2>6 DEF LetUp, Unheard, HeardBreak
    <3>2. \/ lost' = lost /\ ~AtEnd(p)'
          \/ lost' = lost + 1
      BY <2>6 DEF LetUp, HeardBreak, Unheard, KeyInv, AtOnce
    <3>3. ~AtEnd(p)' => Stale(p)' = 0
      BY DEF Stale, One
    <3> QED
      BY <1>1, <1>3, <2>1, <3>1, <3>2, <3>3
  <2>7. CASE PulledOut(p)
    <3>1. ToCome(p)' = ToCome(p) /\ presses'[p] = presses[p] /\ lost' = lost
      BY <2>7 DEF PulledOut, Unheard, HeardBreak
    <3>2. Stale(p)' = 0
      <4>1. CASE ~AtEnd(p)'
        BY <4>1 DEF Stale, One
      <4>2. CASE p[1] = 0 /\ \E d \in Devices \ plugged' : "Tab" \in layout[d]
        <5>1. p[2] = "Tab"
          BY <4>2, PressedKeyFacts DEF Typed
        <5>2. \A e \in plugged' : p[2] \notin layout[e]
          BY <1>5, <2>7, <4>2, <5>1 DEF OnOneKeyboard, PulledOut
        <5> QED
          BY <5>2 DEF Stale, One
      <4> QED
        BY <2>7, <4>1, <4>2 DEF PulledOut, HeardBreak
    <3> QED
      BY <1>1, <1>3, <2>1, <3>1, <3>2
  <2> QED
    BY <2>3, <2>4, <2>5, <2>6, <2>7 DEF Moved
<1> QED
  BY <1>6, <1>7, <1>8, <1>9 DEF KeyInv

LEMMA InitInv == Init => Inv
<1> SUFFICES ASSUME Init
             PROVE  Inv
  OBVIOUS
<1>1. Typed
  BY InitTyped
<1>2. /\ queue = << >> /\ pressed = {} /\ async = {} /\ down = [d \in Devices |-> {}]
      /\ plugged = Devices /\ ui = "idle" /\ lost = 0 /\ clears = 0
      /\ presses = [p \in PressedKeys |-> 0] /\ recorded = presses /\ paused_over = presses
      /\ early = presses
  BY DEF Init, CounterInit
<1>3. AsyncDown /\ DownPlugged
  BY <1>2 DEF AsyncDown, DownPlugged
<1>4. ASSUME NEW p \in PressedKeys
      PROVE  KeyInv(p)
  <2>1. ~AtEnd(p)
    BY <1>2 DEF AtEnd, HeldAtEnd, HeldAt
  <2>2. ToCome(p) = 0
    <3>1. Fresh(queue, pressed, p) = {}
      BY <1>2 DEF Fresh
    <3> QED
      BY <3>1, FS_EmptySet DEF ToCome
  <2>3. Holding(p) = {} /\ Reserve(p) = 0 /\ Stale(p) = 0
    BY <1>2, <2>1 DEF Holding, Reserve, Stale, One
  <2>4. Sources(p) = 0 /\ Loose(p) = 0
    <3>1. Sources(p) = 0
      BY <1>2, <2>3 DEF Sources, One
    <3> QED
      BY <2>1, <3>1 DEF Loose
  <2>5. Accounted(p) = 0 /\ Credits(p) = 0 /\ presses[p] = 0
    BY <1>2 DEF Accounted, Credits
  <2> QED
    BY <1>2, <2>1, <2>2, <2>3, <2>4, <2>5 DEF KeyInv, Credit, Debt, EndDown, AtOnce
<1> QED
  BY <1>1, <1>3, <1>4 DEF Inv

LEMMA DownStep ==
  Typed /\ AsyncDown /\ DownPlugged /\ Next => AsyncDown' /\ DownPlugged'
<1> SUFFICES ASSUME Typed, AsyncDown, DownPlugged, Next
             PROVE  AsyncDown' /\ DownPlugged'
  OBVIOUS
<1> USE DEF AsyncDown, DownPlugged
<1>1. down \in [Devices -> SUBSET PhysicalKeys] /\ plugged \subseteq Devices
  BY DEF Typed, KeysTyped
<1>2. CASE Handles
  BY <1>2, StepGroups
<1>3. ASSUME NEW d \in Devices, NEW k \in PhysicalKeys, PressKey(d, k)
      PROVE  AsyncDown' /\ DownPlugged'
  <2>1. /\ d \in plugged /\ plugged' = plugged /\ down' = [down EXCEPT ![d] = @ \cup {k}]
        /\ async' \subseteq async \cup {k}
    BY <1>3 DEF PressKey
  <2>2. \A e \in Devices : down'[e] = IF e = d THEN down[e] \cup {k} ELSE down[e]
    BY <1>1, <2>1
  <2> QED
    BY <2>1, <2>2
<1>4. ASSUME NEW d \in Devices, NEW k \in PhysicalKeys, RepeatKey(d, k)
      PROVE  AsyncDown' /\ DownPlugged'
  BY <1>4 DEF RepeatKey
<1>5. ASSUME NEW d \in Devices, NEW k \in PhysicalKeys, LetGo(d, k)
      PROVE  AsyncDown' /\ DownPlugged'
  <2>1. /\ plugged' = plugged /\ down' = [down EXCEPT ![d] = @ \ {k}] /\ async' = async \ {k}
    BY <1>5 DEF LetGo
  <2>2. \A e \in Devices : down'[e] = IF e = d THEN down[e] \ {k} ELSE down[e]
    BY <1>1, <2>1
  <2> QED
    BY <2>1, <2>2
<1>6. ASSUME NEW d \in Devices, NEW buttons \in SUBSET MouseButtons, MoveButtons(d, buttons)
      PROVE  AsyncDown' /\ DownPlugged'
  <2>1. /\ d \in plugged /\ plugged' = plugged /\ async' = async
        /\ down' = [down EXCEPT ![d] = (@ \cup (buttons \ down[d])) \ (buttons \cap down[d])]
    BY <1>6 DEF MoveButtons
  <2>2. \A e \in Devices : down'[e] =
            IF e = d THEN (down[e] \cup (buttons \ down[d])) \ (buttons \cap down[d])
                                               ELSE down[e]
    BY <1>1, <2>1
  <2>3. \A k \in async : k \notin buttons
    BY KeyFacts DEF Typed, KeysTyped
  <2> QED
    BY <2>1, <2>2, <2>3
<1>7. ASSUME NEW d \in Devices, Unplug(d)
      PROVE  AsyncDown' /\ DownPlugged'
  <2>1. plugged' = plugged \ {d} /\ down' = [down EXCEPT ![d] = {}]
    BY <1>7 DEF Unplug
  <2>2. \A e \in Devices : down'[e] = IF e = d THEN {} ELSE down[e]
    BY <1>1, <2>1
  <2> QED
    BY <2>1, <2>2
<1> QED
  BY <1>2, <1>3, <1>4, <1>5, <1>6, <1>7, StepGroups DEF Moves, KeyMoves

LEMMA StepInv == Inv /\ [Next]_vars => Inv'
<1> SUFFICES ASSUME Inv, [Next]_vars
             PROVE  Inv'
  OBVIOUS
<1>1. Typed /\ AsyncDown /\ DownPlugged /\ (\A p \in PressedKeys : KeyInv(p)) /\ Typed'
  BY StepTyped DEF Inv
<1>2. CASE Next
  <2>1. AsyncDown' /\ DownPlugged'
    BY <1>1, <1>2, DownStep
  <2>2. layout' = layout /\ PressedKeys' = PressedKeys
    BY <1>2, StepGroups, SameRun
  <2>3. ASSUME NEW p \in PressedKeys
        PROVE  KeyInv(p)'
    <3>1. KeyInv(p)
      BY <1>1
    <3>2. CASE Moves
      BY <1>1, <2>2, <3>1, <3>2, MoveOutcomes, MovedKeeps
    <3>3. CASE Handles
      <4>1. UNCHANGED <<layout, plugged, down, async, presses, lost>>
        BY <3>3, StepGroups
      <4> QED
        BY <1>1, <3>1, <3>3, <4>1, Outcomes, HandledKeeps
    <3> QED
      BY <1>2, <3>2, <3>3, StepGroups
  <2> QED
    BY <1>1, <2>1, <2>2, <2>3 DEF Inv
<1>3. CASE UNCHANGED vars
  <2> USE <1>3 DEF vars, counter, windows, source, tally, bounds
  <2>1. AsyncDown' /\ DownPlugged'
    BY <1>1 DEF AsyncDown, DownPlugged
  <2>2. PressedKeys' = PressedKeys
    BY SameRun
  <2>3. ASSUME NEW p \in PressedKeys
        PROVE  KeyInv(p)'
    <3>1. /\ AtEnd(p)' <=> AtEnd(p)
          /\ Holding(p)' = Holding(p) /\ Reserve(p)' = Reserve(p) /\ ToCome(p)' = ToCome(p)
      BY DEF AtEnd, Holding, Reserve, ToCome
    <3>2. Sources(p)' = Sources(p) /\ Loose(p)' = Loose(p) /\ Stale(p)' = Stale(p)
      BY <3>1 DEF Sources, Loose, Stale
    <3>3. Accounted(p)' = Accounted(p) /\ Credits(p)' = Credits(p)
          /\ (OnOneKeyboard("Tab")' <=> OnOneKeyboard("Tab"))
      BY DEF Accounted, Credits, OnOneKeyboard
    <3> QED
      BY <1>1, <3>1, <3>2, <3>3 DEF KeyInv, Credit, Debt, EndDown, AtOnce
  <2> QED
    BY <1>1, <2>1, <2>2, <2>3 DEF Inv
<1> QED
  BY <1>2, <1>3

\* Of every key, in every state: what was recorded, and what the queue will still make of it,
\* is what was pressed, but for the losses and the releases that are counted.
THEOREM Inductive == Spec => []Inv
  BY InitInv, StepInv, PTL DEF Spec

\* What the sampler and raw input both report, what repeats, and what is reported of another
\* keyboard, is recorded once: a press counts again only after a clear, or after Tab or Alt
\* was released ahead of its messages.
THEOREM NoneCountedTwice == Spec => []NoDoubleCount
<1>1. Inv => NoDoubleCount
  <2> SUFFICES ASSUME Inv, NEW p \in PressedKeys
               PROVE  Accounted(p) <= presses[p] + clears + early[p]
    BY DEF NoDoubleCount
  <2>1. Typed /\ Credit(p)
    BY DEF Inv, KeyInv
  <2>2. /\ {ToCome(p), Accounted(p), presses[p], Reserve(p)} \subseteq Nat /\ Loose(p) \in Nat
        /\ early[p] \in Nat /\ clears \in Nat
    BY <2>1, Quantities, SourcesFacts
  <2> QED
    BY <2>1, <2>2 DEF Credit, Credits
<1> QED
  BY <1>1, Inductive, PTL

\* Once the queue is worked off, no press is missing, but for one at most for each message that
\* was lost: whatever the timers released or sampled, the press of a key is recorded for it
\* or passed over because of a pause.
THEOREM AllCounted == Spec => []EveryPressCounted
<1>1. Inv => EveryPressCounted
  <2> SUFFICES ASSUME Inv, queue = << >>, NEW p \in PressedKeys,
                      p[2] = "Tab" => OnOneKeyboard("Tab")
               PROVE  Accounted(p) + lost >= presses[p]
    BY DEF EveryPressCounted
  <2>1. Typed /\ Debt(p)
    BY DEF Inv, KeyInv
  <2>2. ToCome(p) = 0
    <3>1. Fresh(queue, pressed, p) = {}
      BY DEF Fresh
    <3> QED
      BY <3>1, FS_EmptySet DEF ToCome
  <2>3. {Accounted(p), presses[p], lost} \subseteq Nat /\ Stale(p) \in {0, 1}
    BY <2>1, Quantities, StaleFacts
  <2> QED
    BY <2>1, <2>2, <2>3 DEF Debt
<1> QED
  BY <1>1, Inductive, PTL

\* Once the queue is worked off, what counts as held is held on a device that is there, but for
\* a key whose message was lost and Tab of a keyboard that was pulled out.
THEOREM HeldKeysAreDown == Spec => []HeldAreDown
<1>1. Inv => HeldAreDown
  <2> SUFFICES ASSUME Inv, queue = << >>, NEW p \in pressed
               PROVE  \/ p[2] \in Lossy /\ lost > 0
                      \/ IF p[1] = 0
                           THEN plugged # Devices \/ \E d \in Devices : "Tab" \in down[d]
                           ELSE p[1] \in plugged /\ p[2] \in down[p[1]]
    BY DEF HeldAreDown
  <2>1. Typed /\ p \in PressedKeys /\ EndDown(p) /\ DownPlugged
    BY DEF Inv, KeyInv, Typed, CounterTyped
  <2>2. AtEnd(p)
    <3>1. HeldAt(queue, pressed, 1, p)
      BY HeldNext
    <3> QED
      BY <3>1 DEF AtEnd, HeldAtEnd
  <2>3. CASE Holding(p) # {}
    <3>1. PICK d \in Devices : PressedKey(d, p[2]) = p /\ p[2] \in down[d]
      BY <2>3 DEF Holding
    <3>2. p[1] = IF p[2] = "Tab" THEN 0 ELSE d
      BY <3>1 DEF PressedKey
    <3>3. d \in plugged /\ d # 0
      BY <2>1, <3>1, InputAssumption DEF DownPlugged
    <3> QED
      BY <3>1, <3>2, <3>3
  <2> QED
    BY <2>1, <2>2, <2>3 DEF EndDown
<1> QED
  BY <1>1, Inductive, PTL
=============================================================================
