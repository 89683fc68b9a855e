--------------------------- MODULE DashboardProofs ----------------------------
(***************************************************************************)
(* The window never shows more than was pressed, for every set of keys and *)
(* ranges and every bound.                                                 *)
(***************************************************************************)
EXTENDS Dashboard, MinuteLedgerProofs

-----------------------------------------------------------------------------
(* What a query adds up. *)
Column(table, k) == [m \in Minutes |-> table[m][k]]

LEMMA MinutesAreFinite == IsFiniteSet(Minutes) /\ IsFiniteSet(Keys) /\ Minutes \subseteq Nat
  BY LedgerAssumption, DashboardAssumption, FS_Interval DEF Minutes

LEMMA SumOverIs ==
  ASSUME NEW table \in Tables, NEW minutes, NEW k \in Keys
  PROVE  /\ SumOver(table, minutes)[k]
              = SumFunctionOnSet(Column(table, k), minutes \cap Minutes)
         /\ SumOver(table, minutes)[k] \in Nat
         /\ NatOn(Column(table, k), Minutes)
<1>1. SumOver(table, minutes)[k] = SumFunctionOnSet(Column(table, k), minutes \cap Minutes)
  BY DEF SumOver, Column
<1>2. NatOn(Column(table, k), Minutes)
  BY DEF Column, NatOn, Tables
<1>3. IsFiniteSet(minutes \cap Minutes)
  BY MinutesAreFinite, FS_Subset
<1>4. NatOn(Column(table, k), minutes \cap Minutes)
  BY <1>2 DEF NatOn
<1>5. SumFunctionOnSet(Column(table, k), minutes \cap Minutes) \in Nat
  BY <1>3, <1>4, SumStarts
<1> QED
  BY <1>1, <1>2, <1>5

\* It grows with the table, by what each minute has.
LEMMA SumOverGrows ==
  ASSUME NEW old \in Tables, NEW new \in Tables, NEW minutes, NEW k \in Keys,
         \A m \in minutes \cap Minutes : old[m][k] <= new[m][k]
  PROVE  SumOver(old, minutes)[k] <= SumOver(new, minutes)[k]
<1> DEFINE S == minutes \cap Minutes
<1>1. IsFiniteSet(S)
  BY MinutesAreFinite, FS_Subset
<1>2. /\ NatOn(Column(old, k), S) /\ NatOn(Column(new, k), S)
      /\ \A m \in S : Column(old, k)[m] <= Column(new, k)[m]
  BY DEF Column, NatOn, Tables
<1> HIDE DEF S
<1>3. SumFunctionOnSet(Column(old, k), S) <= SumFunctionOnSet(Column(new, k), S)
  BY <1>1, <1>2, SumMonotone
<1> QED
  BY <1>3, SumOverIs DEF S

\* Minutes asked for in two parts.
LEMMA SumOverParts ==
  ASSUME NEW table \in Tables, NEW one, NEW two, NEW k \in Keys,
         one \cap two \cap Minutes = {}
  PROVE  SumOver(table, one \cup two)[k] = SumOver(table, one)[k] + SumOver(table, two)[k]
<1> DEFINE S == one \cap Minutes
           T == two \cap Minutes
<1>1. /\ IsFiniteSet(S) /\ IsFiniteSet(T) /\ S \cap T = {}
      /\ (one \cup two) \cap Minutes = S \cup T
  BY MinutesAreFinite, FS_Subset
<1>2. NatOn(Column(table, k), S \cup T)
  BY SumOverIs DEF NatOn
<1>3. /\ SumOver(table, one \cup two)[k]
           = SumFunctionOnSet(Column(table, k), (one \cup two) \cap Minutes)
      /\ SumOver(table, one)[k] = SumFunctionOnSet(Column(table, k), S)
      /\ SumOver(table, two)[k] = SumFunctionOnSet(Column(table, k), T)
  BY SumOverIs
<1> HIDE DEF S, T
<1>4. SumFunctionOnSet(Column(table, k), S \cup T)
        = SumFunctionOnSet(Column(table, k), S) + SumFunctionOnSet(Column(table, k), T)
  BY <1>1, <1>2, SumOfUnion
<1> QED
  BY <1>1, <1>3, <1>4

LEMMA SumOverOne ==
  ASSUME NEW table \in Tables, NEW m \in Minutes, NEW k \in Keys
  PROVE  SumOver(table, {m})[k] = table[m][k]
<1>1. {m} \cap Minutes = {m}
  OBVIOUS
<1>2. Column(table, k)[m] = table[m][k] /\ table[m][k] \in Nat
  BY DEF Column, Tables
<1>3. SumFunctionOnSet(Column(table, k), {m}) = table[m][k]
  BY <1>2, SumOfOne
<1> QED
  BY <1>1, <1>3, SumOverIs

LEMMA SumOverSame ==
  ASSUME NEW table, NEW one, NEW two, one \cap Minutes = two \cap Minutes
  PROVE  SumOver(table, one) = SumOver(table, two)
  BY DEF SumOver

\* A sum over all keys grows with its terms.
LEMMA TotalsGrow ==
  ASSUME NEW c \in [Keys -> Nat], NEW d \in [Keys -> Nat], \A k \in Keys : c[k] <= d[k]
  PROVE  TotalCount(c) \in Nat /\ TotalCount(d) \in Nat /\ TotalCount(c) <= TotalCount(d)
<1>1. NatOn(c, Keys) /\ NatOn(d, Keys)
  BY DEF NatOn
<1>2. TotalCount(c) = SumFunctionOnSet(c, Keys) /\ TotalCount(d) = SumFunctionOnSet(d, Keys)
  BY DEF TotalCount, SumFunction
<1>3. /\ SumFunctionOnSet(c, Keys) \in Nat /\ SumFunctionOnSet(d, Keys) \in Nat
      /\ SumFunctionOnSet(c, Keys) <= SumFunctionOnSet(d, Keys)
  BY <1>1, MinutesAreFinite, SumMonotone, SumStarts
<1> QED
  BY <1>2, <1>3

LEMMA TotalOfPlus ==
  ASSUME NEW c \in [Keys -> Nat], NEW d \in [Keys -> Nat]
  PROVE  TotalCount(Plus(c, d)) = TotalCount(c) + TotalCount(d)
<1> DEFINE p == Plus(c, d)
<1>1. NatOn(c, Keys) /\ NatOn(d, Keys) /\ \A k \in Keys : p[k] = c[k] + d[k]
  BY DEF NatOn, Plus
<1>2. /\ TotalCount(c) = SumFunctionOnSet(c, Keys) /\ TotalCount(d) = SumFunctionOnSet(d, Keys)
      /\ TotalCount(p) = SumFunctionOnSet(p, Keys)
  BY DEF TotalCount, SumFunction, Plus
<1> HIDE DEF p
<1>3. SumFunctionOnSet(p, Keys) = SumFunctionOnSet(c, Keys) + SumFunctionOnSet(d, Keys)
  BY <1>1, MinutesAreFinite, SumOfBoth
<1> QED
  BY <1>2, <1>3 DEF p

-----------------------------------------------------------------------------
(* The ledger behind the window. *)

\* No snapshot counts more than was pressed in its minute.
Covered ==
  \A s \in Snapshots, k \in Keys : s.counts[k] <= pressed[s.minute][k]

\* Handlers run while there is a recorder.
Busy == ui # "idle" => running

LedgerInv == LedgerTyped /\ pressed \in Tables /\ Covered /\ Busy

LEMMA RowsAreTables ==
  ASSUME LedgerInv
  PROVE  /\ rows \in Tables /\ live.minute \in Minutes /\ live.counts \in [Keys -> Nat]
         /\ \A m \in Minutes, k \in Keys : rows[m][k] <= pressed[m][k]
         /\ \A k \in Keys : live.counts[k] <= pressed[live.minute][k]
<1>1. 0 .. MaxCount \subseteq Nat
  OBVIOUS
<1>2. rows \in Tables /\ live.minute \in Minutes /\ live.counts \in [Keys -> Nat]
  BY <1>1 DEF LedgerInv, LedgerTyped, Tables, Counts, Snapshot
<1>3. ASSUME NEW m \in Minutes, NEW k \in Keys
      PROVE  rows[m][k] <= pressed[m][k]
  <2>1. [minute |-> m, counts |-> rows[m]] \in Snapshots
    BY SnapshotFacts
  <2> QED
    BY <2>1 DEF LedgerInv, Covered
<1>4. \A k \in Keys : live.counts[k] <= pressed[live.minute][k]
  BY SnapshotFacts DEF LedgerInv, Covered
<1> QED
  BY <1>2, <1>3, <1>4

\* What each step does to the ledger and the presses.
LedgerStep ==
  \/ \E k \in Keys : PressKey(k)
  \/ /\ pressed' = pressed
     /\ \/ Open \/ Take \/ Put \/ Save \/ Refuse \/ Close \/ Tick
        \/ FlushNow \/ FlushNowThrows \/ UNCHANGED ledger

LEMMA StepsOfLedger == [Next]_vars => LedgerStep
<1> SUFFICES ASSUME [Next]_vars
             PROVE  LedgerStep
  OBVIOUS
<1> USE DEF LedgerStep, history
<1>1. CASE Start
  BY <1>1 DEF Start
<1>2. CASE (\E k \in Keys : PressKey(k)) \/ UNCHANGED vars
  BY <1>2 DEF vars, history
<1>3. CASE \/ \E p \in Presets : SelectPreset(p)
           \/ SelectCustom
           \/ \E r \in CustomRanges : ApplyCustomRange(r)
  BY <1>3 DEF SelectPreset, SelectCustom, ApplyCustomRange, history
<1>4. CASE SaveNow \/ SaveNowFails
  BY <1>4 DEF SaveNow, SaveNowFails
<1>5. CASE OnRefreshTick
  BY <1>5 DEF OnRefreshTick, TickNewMinute, TickLive
<1>6. CASE Handle
  BY <1>6 DEF Handle, Throttled, Due, ShowTotal, ResolveRange, QueryBefore, QueryAfter,
              StorageThrows, RangeThrows
<1>7. CASE SaveOne \/ RefuseOne \/ PeriodicTake \/ PeriodicPut \/ ClockMoves \/ Exit
  BY <1>7 DEF SaveOne, RefuseOne, PeriodicTake, PeriodicPut, ClockMoves, Exit
<1> QED
  BY <1>1, <1>2, <1>3, <1>4, <1>5, <1>6, <1>7 DEF Next

LEMMA PressCovers ==
  ASSUME LedgerInv, NEW k \in Keys, PressKey(k)
  PROVE  LedgerTyped' /\ pressed' \in Tables /\ Covered'
<1>1. Press(k) /\ pressed' = [pressed EXCEPT ![now][k] = @ + 1]
  BY DEF PressKey
<1>2. LedgerTyped'
  BY <1>1, LedgerTypes DEF LedgerInv
<1>3. /\ pressed' \in Tables
      /\ \A s \in Snapshots', j \in Keys : s.counts[j] <= pressed'[s.minute][j]
  BY <1>1, PressCovered DEF LedgerInv, Covered
<1> QED
  BY <1>2, <1>3 DEF Covered

LEMMA OthersCover ==
  ASSUME LedgerInv, pressed' = pressed,
         \/ Open \/ Take \/ Put \/ Save \/ Refuse \/ Close \/ Tick
         \/ FlushNow \/ FlushNowThrows \/ UNCHANGED ledger
  PROVE  LedgerTyped' /\ pressed' \in Tables /\ Covered'
<1>1. LedgerTyped'
  BY LedgerTypes DEF LedgerInv
<1>2. \A s \in Snapshots', j \in Keys : s.counts[j] <= pressed[s.minute][j]
  BY OthersCovered DEF LedgerInv, Covered
<1> QED
  BY <1>1, <1>2 DEF Covered, LedgerInv

LEMMA StepBusy == LedgerInv /\ [Next]_vars => Busy'
<1> SUFFICES ASSUME LedgerInv, [Next]_vars
             PROVE  Busy'
  OBVIOUS
<1> USE DEF LedgerInv, Busy, RefreshStorage, RefreshRange, Click, handler, ledger
<1>1. CASE Start
  BY <1>1 DEF Start, Open
<1>2. CASE (\E k \in Keys : PressKey(k)) \/ UNCHANGED vars
  BY <1>2 DEF vars, history, PressKey, Press
<1>3. CASE \/ \E p \in Presets : SelectPreset(p)
           \/ SelectCustom
           \/ \E r \in CustomRanges : ApplyCustomRange(r)
  BY <1>3 DEF SelectPreset, SelectCustom, ApplyCustomRange, history
<1>4. CASE SaveNow \/ SaveNowFails
  BY <1>4 DEF SaveNow, SaveNowFails, FlushNow, FlushNowThrows
<1>5. CASE OnRefreshTick
  BY <1>5 DEF OnRefreshTick, TickNewMinute, TickLive
<1>6. CASE Handle
  BY <1>6 DEF Handle, Throttled, Due, ShowTotal, ResolveRange, QueryBefore, QueryAfter,
              StorageThrows, RangeThrows
<1>7. CASE SaveOne \/ RefuseOne \/ PeriodicTake \/ PeriodicPut \/ ClockMoves \/ Exit
  BY <1>7 DEF SaveOne, RefuseOne, PeriodicTake, PeriodicPut, ClockMoves, Exit, Save, Refuse,
              Take, Put, Tick, Close
<1> QED
  BY <1>1, <1>2, <1>3, <1>4, <1>5, <1>6, <1>7 DEF Next

LEMMA StepLedgerInv == LedgerInv /\ [Next]_vars => LedgerInv'
  BY StepsOfLedger, PressCovers, OthersCover, StepBusy DEF LedgerStep, LedgerInv

LEMMA InitLedgerInv == Init => LedgerInv
<1> SUFFICES ASSUME Init
             PROVE  LedgerInv
  OBVIOUS
<1>1. LedgerTyped
  BY InitLedgerTypes DEF Init
<1>2. pressed = [m \in Minutes |-> ZeroCounts] /\ pressed \in Tables
  BY DEF Init, ZeroCounts, Tables
<1>3. rows = [m \in Minutes |-> ZeroCounts] /\ live = Empty /\ unsaved = << >> /\ held = None
  BY DEF Init, LedgerInit
<1>4. ASSUME NEW s \in Snapshots, NEW k \in Keys
      PROVE  s.counts[k] <= pressed[s.minute][k]
  <2>1. s.counts = ZeroCounts /\ s.minute \in Minutes
    BY <1>3, ZeroTypes DEF Snapshots, Range, Empty
  <2> QED
    BY <1>2, <2>1 DEF ZeroCounts
<1>5. Busy
  BY DEF Init, WindowInit, Busy
<1> QED
  BY <1>1, <1>2, <1>4, <1>5 DEF LedgerInv, Covered

\* Presses are never taken back.
LEMMA PressesGrow ==
  ASSUME LedgerInv, [Next]_vars
  PROVE  /\ pressed \in Tables /\ pressed' \in Tables
         /\ \A m \in Minutes, k \in Keys : pressed[m][k] <= pressed'[m][k]
<1>1. CASE \E k \in Keys : PressKey(k)
  <2>1. PICK k \in Keys : PressKey(k)
    BY <1>1
  <2>2. pressed' = [pressed EXCEPT ![now][k] = @ + 1] /\ now \in Minutes
    BY <2>1 DEF PressKey, LedgerInv, LedgerTyped
  <2> QED
    BY <2>2 DEF LedgerInv, Tables
<1>2. CASE pressed' = pressed
  BY <1>2 DEF LedgerInv, Tables
<1> QED
  BY <1>1, <1>2, StepsOfLedger DEF LedgerStep

-----------------------------------------------------------------------------
(* The counts on display. *)
Span(r)    == r.first .. r.second - 1
IsRange(r) == r.first \in Int /\ r.second \in Int

\* Without the live bucket on display the stored counts are of the rest of the range;
\* the live ones are of its minute.
Display(p, bucket) ==
  /\ bucket \in Minutes \cup {NoMinute}
  /\ bucket # NoMinute => InRange(bucket, shown_range)
  /\ \A k \in Keys : stored[k] <= SumOver(p, Span(shown_range) \ {bucket})[k]
  /\ \A k \in Keys : last_live[k] <= IF bucket = NoMinute THEN 0 ELSE p[bucket][k]

WindowTypes ==
  /\ IsRange(range) /\ IsRange(shown_range)
  /\ {stored, last_live, partial} \subseteq [Keys -> Nat]
  /\ shown = Plus(stored, last_live)

\* Between its two queries a refresh knows the counts of the first.
HalfWay == ui = "after" => \A k \in Keys : partial[k] <= SumOver(pressed, Parts(range)[1])[k]

WindowInv == WindowTypes /\ Display(pressed, live_bucket) /\ HalfWay

LEMMA NoMinuteIsNone == NoMinute \notin Minutes /\ NoMinute \in Nat
  BY LedgerAssumption DEF NoMinute, Minutes

LEMMA DisplayedAtMost ==
  ASSUME LedgerInv, WindowInv
  PROVE  ShownNeverAhead
<1> SUFFICES ASSUME NEW k \in Keys
             PROVE  shown[k] <= PressesIn(shown_range)[k]
  BY DEF ShownNeverAhead
<1> DEFINE S == Span(shown_range)
           rest == S \ {live_bucket}
<1>1. /\ pressed \in Tables
      /\ shown[k] = stored[k] + last_live[k] /\ stored[k] \in Nat /\ last_live[k] \in Nat
      /\ live_bucket \in Minutes \cup {NoMinute}
      /\ stored[k] <= SumOver(pressed, rest)[k]
      /\ last_live[k] <= IF live_bucket = NoMinute THEN 0 ELSE pressed[live_bucket][k]
  BY DEF LedgerInv, WindowInv, WindowTypes, Display, Plus
<1>2. PressesIn(shown_range)[k] = SumOver(pressed, S)[k]
  BY DEF PressesIn, Span
<1>3. CASE live_bucket = NoMinute
  <2>1. rest \cap Minutes = S \cap Minutes
    BY <1>3, NoMinuteIsNone
  <2> HIDE DEF S, rest
  <2>2. SumOver(pressed, rest)[k] = SumOver(pressed, S)[k] /\ SumOver(pressed, S)[k] \in Nat
    BY <1>1, <2>1, SumOverSame, SumOverIs
  <2> QED
    BY <1>1, <1>2, <1>3, <2>2
<1>4. CASE live_bucket # NoMinute
  <2>1. live_bucket \in Minutes /\ InRange(live_bucket, shown_range) /\ IsRange(shown_range)
    BY <1>1, <1>4 DEF WindowInv, Display, WindowTypes
  <2>2. live_bucket \in S
    BY <2>1, MinutesAreFinite DEF InRange, IsRange, Span
  <2>3. S = rest \cup {live_bucket} /\ rest \cap {live_bucket} \cap Minutes = {}
    BY <2>2
  <2> HIDE DEF S, rest
  <2>4. SumOver(pressed, rest \cup {live_bucket})[k]
          = SumOver(pressed, rest)[k] + SumOver(pressed, {live_bucket})[k]
    BY <1>1, <2>3, SumOverParts
  <2>5. SumOver(pressed, S)[k] = SumOver(pressed, rest)[k] + SumOver(pressed, {live_bucket})[k]
    BY <2>3, <2>4
  <2>6. SumOver(pressed, {live_bucket})[k] = pressed[live_bucket][k]
        /\ SumOver(pressed, rest)[k] \in Nat /\ pressed[live_bucket][k] \in Nat
    BY <1>1, <2>1, SumOverOne, SumOverIs DEF Tables
  <2> QED
    BY <1>1, <1>2, <1>4, <2>5, <2>6
<1> QED
  BY <1>3, <1>4

\* A display that stays is as good when more has been pressed.
LEMMA DisplayRests ==
  ASSUME NEW p \in Tables, NEW q \in Tables, NEW bucket, Display(p, bucket),
         WindowTypes, \A m \in Minutes, k \in Keys : p[m][k] <= q[m][k],
         UNCHANGED <<last_live, stored, shown_range>>
  PROVE  Display(q, bucket)'
<1>1. ASSUME NEW k \in Keys
      PROVE  stored[k] <= SumOver(q, Span(shown_range) \ {bucket})[k]
  <2> DEFINE S == Span(shown_range) \ {bucket}
  <2>1. /\ SumOver(p, S)[k] <= SumOver(q, S)[k]
        /\ SumOver(p, S)[k] \in Nat /\ SumOver(q, S)[k] \in Nat
    BY SumOverGrows, SumOverIs
  <2>2. stored[k] <= SumOver(p, S)[k] /\ stored[k] \in Nat
    BY DEF Display, WindowTypes
  <2> QED
    BY <2>1, <2>2
<1>2. ASSUME NEW k \in Keys
      PROVE  last_live[k] <= IF bucket = NoMinute THEN 0 ELSE q[bucket][k]
  <2>1. CASE bucket = NoMinute
    BY <2>1 DEF Display
  <2>2. CASE bucket # NoMinute
    <3>1. bucket \in Minutes /\ last_live[k] \in Nat /\ last_live[k] <= p[bucket][k]
          /\ p[bucket][k] \in Nat /\ q[bucket][k] \in Nat
      BY <2>2 DEF Display, WindowTypes, Tables
    <3> QED
      BY <2>2, <3>1
  <2> QED
    BY <2>1, <2>2
<1> QED
  BY <1>1, <1>2 DEF Display, Span

\* Ranges, whichever way they are chosen.
LEMMA ResolvedRange ==
  ASSUME now \in Minutes, NEW p \in {"Today", "Recent", "All"}
  PROVE  IsRange(Resolve(p))
<1>1. now \in Nat
  BY MinutesAreFinite
<1>2. CASE p \in {"Today", "Recent"}
  <2>1. now \div DayLen \in Int /\ DayLen \in Nat /\ RecentLen \in Nat
    BY <1>1, DashboardAssumption
  <2> QED
    BY <1>1, <1>2, <2>1 DEF Resolve, IsRange
<1>3. CASE p = "All"
  <2> DEFINE D == Recorded \cup {now}
  <2>1. D \in SUBSET (0 .. MaxMinute) /\ D # {} /\ MaxMinute \in Nat
    BY LedgerAssumption DEF Recorded, Minutes
  <2>2. D \in SUBSET Nat
    BY <2>1
  <2> HIDE DEF D
  <2>3. \E x \in D : \A y \in D : x <= y
    BY <2>1, <2>2, LeastNatural
  <2>4. \E x \in D : \A y \in D : y <= x
    BY <2>1, GreatestNatural
  <2>5. Min(D) \in D
    BY <2>3 DEF Min
  <2>6. \E x \in D : \A y \in D : x >= y
    BY <2>2, <2>4
  <2>7. Max(D) \in D
    BY <2>6 DEF Max
  <2>8. Resolve(p) = [first |-> Min(D), second |-> Max(D) + 1]
    BY <1>3 DEF Resolve, D
  <2>9. \A x \in D : x \in Int /\ x + 1 \in Int
    BY <2>2
  <2>10. Min(D) \in Int /\ Max(D) + 1 \in Int
    BY <2>5, <2>7, <2>9
  <2>11. Resolve(p).first = Min(D) /\ Resolve(p).second = Max(D) + 1
    BY <2>8
  <2> QED
    BY <2>10, <2>11 DEF IsRange
<1> QED
  BY <1>2, <1>3

LEMMA PartsOfRange ==
  ASSUME IsRange(range), live.minute \in Minutes
  PROVE  LET bucket == IF InRange(live.minute, range) THEN live.minute ELSE NoMinute
         IN  /\ Parts(range)[1] \cap Parts(range)[2] \cap Minutes = {}
             /\ (Parts(range)[1] \cup Parts(range)[2]) \cap Minutes
                  = (Span(range) \ {bucket}) \cap Minutes
<1>1. live.minute \in Int /\ Minutes \subseteq Int
  <2>1. \A m \in Minutes : m \in Int
    BY MinutesAreFinite
  <2> QED
    BY <2>1
<1>2. CASE InRange(live.minute, range)
  <2>1. /\ Parts(range)[1] = range.first .. live.minute - 1
        /\ Parts(range)[2] = live.minute + 1 .. range.second - 1
    BY <1>2 DEF Parts
  <2>2. range.first <= live.minute /\ live.minute < range.second
    BY <1>2 DEF InRange
  <2> QED
    BY <1>1, <1>2, <2>1, <2>2 DEF IsRange, Span
<1>3. CASE ~InRange(live.minute, range)
  <2>1. Parts(range)[1] = Span(range) /\ Parts(range)[2] = {}
    BY <1>3 DEF Parts, Span
  <2> QED
    BY <1>3, <2>1, NoMinuteIsNone
<1> QED
  BY <1>2, <1>3

\* The second query of a refresh completes what the first began.
LEMMA QueryCompletes ==
  ASSUME LedgerInv, WindowInv, QueryAfter
  PROVE  WindowTypes' /\ Display(pressed, live_bucket)'
<1> DEFINE one == Parts(range)[1]
           two == Parts(range)[2]
           bucket == IF InRange(live.minute, range) THEN live.minute ELSE NoMinute
           S == Span(range) \ {bucket}
<1>1. /\ stored' = Plus(partial, SumOver(rows, two))
      /\ last_live' = IF InRange(live.minute, range) THEN live.counts ELSE ZeroCounts
      /\ shown' = IF InRange(live.minute, range) THEN Plus(stored', live.counts) ELSE stored'
      /\ live_bucket' = bucket /\ shown_range' = range /\ range' = range
      /\ partial' = ZeroCounts /\ pressed' = pressed /\ ui = "after"
  BY DEF QueryAfter, history
<1>2. /\ rows \in Tables /\ pressed \in Tables
      /\ live.minute \in Minutes /\ live.counts \in [Keys -> Nat]
      /\ \A m \in Minutes, k \in Keys : rows[m][k] <= pressed[m][k]
      /\ \A k \in Keys : live.counts[k] <= pressed[live.minute][k]
  BY RowsAreTables DEF LedgerInv
<1>3. /\ IsRange(range) /\ partial \in [Keys -> Nat]
      /\ \A k \in Keys : partial[k] <= SumOver(pressed, one)[k]
  BY <1>1 DEF WindowInv, WindowTypes, HalfWay
<1>4. ZeroCounts \in [Keys -> Nat]
  BY DEF ZeroCounts
<1>5. one \cap two \cap Minutes = {} /\ (one \cup two) \cap Minutes = S \cap Minutes
  BY <1>2, <1>3, PartsOfRange
<1> HIDE DEF one, two, S
<1>6. stored' \in [Keys -> Nat]
  <2>1. \A k \in Keys : SumOver(rows, two)[k] \in Nat
    BY <1>2, SumOverIs
  <2> QED
    BY <1>1, <1>3, <2>1 DEF Plus
<1>7. WindowTypes'
  <2>1. last_live' \in [Keys -> Nat] /\ partial' \in [Keys -> Nat]
    BY <1>1, <1>2, <1>4
  <2>2. shown' = Plus(stored', last_live')
    <3>1. CASE InRange(live.minute, range)
      BY <1>1, <3>1
    <3>2. CASE ~InRange(live.minute, range)
      <4>1. Plus(stored', ZeroCounts) = stored'
        BY <1>6 DEF Plus, ZeroCounts
      <4> QED
        BY <1>1, <3>2, <4>1
    <3> QED
      BY <3>1, <3>2
  <2>3. IsRange(range)' /\ IsRange(shown_range)'
    BY <1>1, <1>3 DEF IsRange
  <2> QED
    BY <1>6, <2>1, <2>2, <2>3 DEF WindowTypes
<1>8. ASSUME NEW k \in Keys
      PROVE  stored'[k] <= SumOver(pressed, S)[k]
  <2>1. SumOver(rows, two)[k] <= SumOver(pressed, two)[k]
    BY <1>2, SumOverGrows
  <2>2. SumOver(pressed, one \cup two)[k] = SumOver(pressed, one)[k] + SumOver(pressed, two)[k]
    BY <1>2, <1>5, SumOverParts
  <2>3. SumOver(pressed, one \cup two) = SumOver(pressed, S)
    BY <1>5, SumOverSame
  <2>4. /\ SumOver(rows, two)[k] \in Nat /\ SumOver(pressed, two)[k] \in Nat
        /\ SumOver(pressed, one)[k] \in Nat /\ partial[k] \in Nat
    BY <1>2, <1>3, SumOverIs
  <2>5. stored'[k] = partial[k] + SumOver(rows, two)[k]
    BY <1>1 DEF Plus
  <2>6. partial[k] <= SumOver(pressed, one)[k]
    BY <1>3
  <2> QED
    BY <2>1, <2>2, <2>3, <2>4, <2>5, <2>6
<1>9. ASSUME NEW k \in Keys
      PROVE  last_live'[k] <= IF bucket = NoMinute THEN 0 ELSE pressed[bucket][k]
  <2>1. live.minute # NoMinute
    BY <1>2, NoMinuteIsNone
  <2>2. CASE InRange(live.minute, range)
    BY <1>1, <1>2, <2>1, <2>2
  <2>3. CASE ~InRange(live.minute, range)
    BY <1>1, <2>3 DEF ZeroCounts
  <2> QED
    BY <2>2, <2>3
<1>10. bucket \in Minutes \cup {NoMinute} /\ (bucket # NoMinute => InRange(bucket, range))
  BY <1>2
<1>11. ASSUME NEW k \in Keys
       PROVE  /\ stored'[k] <= SumOver(pressed', Span(shown_range') \ {live_bucket'})[k]
              /\ last_live'[k] <= IF live_bucket' = NoMinute THEN 0 ELSE pressed'[live_bucket'][k]
  BY <1>1, <1>8, <1>9 DEF S
<1>12. /\ live_bucket' \in Minutes \cup {NoMinute}
       /\ live_bucket' # NoMinute => InRange(live_bucket', shown_range')
  BY <1>1, <1>10
<1> HIDE DEF bucket
<1>13. Display(pressed, live_bucket)'
  BY <1>11, <1>12 DEF Display, Span, InRange
<1> QED
  BY <1>7, <1>13

\* The tick brings the live minute up to date.
LEMMA TickRefreshes ==
  ASSUME LedgerInv, WindowInv, TickLive
  PROVE  WindowInv'
<1>1. /\ live.counts \in [Keys -> Nat] /\ live.minute \in Minutes
      /\ \A k \in Keys : live.counts[k] <= pressed[live.minute][k]
      /\ ZeroCounts \in [Keys -> Nat]
  BY RowsAreTables DEF ZeroCounts
<1>2. /\ UNCHANGED <<stored, shown_range, live_bucket, range, pressed, partial>>
      /\ ui' = "storage"
      /\ \/ UNCHANGED <<shown, last_live>>
         \/ /\ live_bucket = live.minute
            /\ shown' = Plus(stored, live.counts) /\ last_live' = live.counts
  BY DEF TickLive, WithLive, history
<1>3. WindowTypes'
  BY <1>1, <1>2 DEF WindowInv, WindowTypes, IsRange, Plus
<1>4. Display(pressed, live_bucket)'
  <2>1. CASE UNCHANGED last_live
    BY <1>2, <2>1 DEF WindowInv, Display, Span, InRange
  <2>2. CASE live_bucket = live.minute /\ last_live' = live.counts
    <3>1. live_bucket # NoMinute
      BY <1>1, <2>2, NoMinuteIsNone
    <3>2. \A k \in Keys :
            last_live'[k] <= IF live_bucket' = NoMinute THEN 0 ELSE pressed'[live_bucket'][k]
      BY <1>1, <1>2, <2>2, <3>1
    <3> QED
      BY <1>2, <3>2 DEF WindowInv, Display, Span, InRange
  <2> QED
    BY <1>2, <2>1, <2>2
<1> QED
  BY <1>2, <1>3, <1>4 DEF WindowInv, HalfWay

\* Steps that leave the display alone.
LEMMA DisplayKept ==
  ASSUME LedgerInv, [Next]_vars, WindowInv,
         UNCHANGED <<live_bucket, last_live, stored, shown, shown_range>>
  PROVE  Display(pressed, live_bucket)'
<1> SUFFICES ASSUME NEW p, p = pressed, NEW q, q = pressed', NEW bucket, bucket = live_bucket
             PROVE  Display(pressed, live_bucket)'
  OBVIOUS
<1>1. p \in Tables /\ q \in Tables /\ \A m \in Minutes, k \in Keys : p[m][k] <= q[m][k]
  BY PressesGrow
<1>2. Display(p, bucket) /\ WindowTypes
  BY DEF WindowInv
<1>3. Display(q, bucket)'
  BY <1>1, <1>2, DisplayRests
<1>4. live_bucket' = bucket
  OBVIOUS
<1> QED
  BY <1>3, <1>4 DEF Display, Span, InRange

\* Steps that choose a range.
LEMMA ZeroIsCounts == ZeroCounts \in [Keys -> Nat] /\ Plus(ZeroCounts, ZeroCounts) = ZeroCounts
  BY DEF ZeroCounts, Plus

LEMMA ChooseRange ==
  ASSUME LedgerInv, [Next]_vars, WindowInv,
         UNCHANGED <<live_bucket, last_live, stored, shown, shown_range>>,
         partial' \in {partial, ZeroCounts}, ui' # "after", IsRange(range)'
  PROVE  WindowInv'
<1>1. Display(pressed, live_bucket)'
  BY DisplayKept
<1>2. WindowTypes'
  BY ZeroIsCounts DEF WindowInv, WindowTypes, IsRange, Plus
<1> QED
  BY <1>1, <1>2 DEF WindowInv, HalfWay

\* The first query of a refresh.
LEMMA QueryBegins ==
  ASSUME LedgerInv, [Next]_vars, WindowInv, QueryBefore
  PROVE  WindowInv'
<1> DEFINE one == Parts(range)[1]
<1>1. /\ UNCHANGED <<live_bucket, last_live, stored, shown, shown_range, range, pressed, live>>
      /\ partial' = SumOver(rows, one)
  BY DEF QueryBefore, window, ledger, history
<1>2. Display(pressed, live_bucket)'
  BY <1>1, DisplayKept
<1>3. rows \in Tables /\ pressed \in Tables
      /\ \A m \in Minutes, k \in Keys : rows[m][k] <= pressed[m][k]
  BY RowsAreTables DEF LedgerInv
<1>4. \A k \in Keys : /\ SumOver(rows, one)[k] \in Nat
                      /\ SumOver(rows, one)[k] <= SumOver(pressed, one)[k]
  BY <1>3, SumOverIs, SumOverGrows
<1>5. partial' \in [Keys -> Nat]
  BY <1>1, <1>4 DEF SumOver
<1>6. WindowTypes'
  BY <1>1, <1>5 DEF WindowInv, WindowTypes, IsRange, Plus
<1>7. Parts(range)' = Parts(range)
  BY <1>1 DEF Parts, InRange
<1>8. HalfWay'
  BY <1>1, <1>4, <1>7 DEF HalfWay
<1> QED
  BY <1>2, <1>6, <1>8 DEF WindowInv

\* The program ends: nothing is displayed.
LEMMA NothingDisplayed ==
  ASSUME pressed' \in Tables,
         live_bucket' = NoMinute, last_live' = ZeroCounts, stored' = ZeroCounts,
         shown' = ZeroCounts, partial' = ZeroCounts, ui' # "after",
         range' = [first |-> 0, second |-> 0], shown_range' = [first |-> 0, second |-> 0]
  PROVE  WindowInv'
<1>1. WindowTypes'
  BY ZeroIsCounts DEF WindowTypes, IsRange
<1>2. ASSUME NEW q \in Tables, NEW S, NEW k \in Keys
      PROVE  ZeroCounts[k] <= SumOver(q, S)[k]
  <2>1. SumOver(q, S)[k] \in Nat
    BY SumOverIs
  <2>2. ZeroCounts[k] = 0
    BY DEF ZeroCounts
  <2> QED
    BY <2>1, <2>2
<1>3. \A k \in Keys : stored'[k] <= SumOver(pressed', Span(shown_range') \ {live_bucket'})[k]
  BY <1>2
<1>4. \A k \in Keys : last_live'[k] <= 0
  BY DEF ZeroCounts
<1>5. Display(pressed, live_bucket)'
  BY <1>3, <1>4 DEF Display, Span, InRange
<1> QED
  BY <1>1, <1>5 DEF WindowInv, HalfWay

LEMMA InitWindow == Init => WindowInv
<1> SUFFICES ASSUME Init
             PROVE  WindowInv
  OBVIOUS
<1>1. pressed \in Tables
  BY InitLedgerInv DEF LedgerInv
<1>2. /\ live_bucket = NoMinute /\ last_live = ZeroCounts /\ stored = ZeroCounts
      /\ shown = ZeroCounts /\ partial = ZeroCounts /\ ui = "idle"
      /\ range = [first |-> 0, second |-> 0] /\ shown_range = [first |-> 0, second |-> 0]
  BY DEF Init, WindowInit
<1>3. WindowTypes
  BY <1>2, ZeroIsCounts DEF WindowTypes, IsRange
<1>4. ASSUME NEW q \in Tables, NEW S, NEW k \in Keys
      PROVE  ZeroCounts[k] <= SumOver(q, S)[k]
  <2>1. SumOver(q, S)[k] \in Nat
    BY SumOverIs
  <2>2. ZeroCounts[k] = 0
    BY DEF ZeroCounts
  <2> QED
    BY <2>1, <2>2
<1>5. \A k \in Keys : stored[k] <= SumOver(pressed, Span(shown_range) \ {live_bucket})[k]
  BY <1>1, <1>2, <1>4
<1>6. Display(pressed, live_bucket)
  BY <1>2, <1>5 DEF Display, ZeroCounts
<1> QED
  BY <1>2, <1>3, <1>6 DEF WindowInv, HalfWay

\* The forms of the flags.  A window that opens has the first entry selected.
Forms ==
  /\ ~running => preset = "Today"
  /\ preset \in {"Today", "Recent", "All", "Custom"}
  /\ ui \in {"idle", "storage", "total", "resolve", "before", "after"}
  /\ loaded \in BOOLEAN
  /\ save_enabled \in BOOLEAN

LEMMA StepWindow == LedgerInv /\ WindowInv /\ Forms /\ [Next]_vars => WindowInv'
<1> SUFFICES ASSUME LedgerInv, WindowInv, Forms, [Next]_vars
             PROVE  WindowInv'
  OBVIOUS
<1>0. now \in Minutes /\ IsRange(range) /\ pressed' \in Tables
  BY PressesGrow DEF LedgerInv, LedgerTyped, WindowInv, WindowTypes
<1> DEFINE Still == UNCHANGED <<live_bucket, last_live, stored, shown, shown_range>>
           Calm  == partial' \in {partial, ZeroCounts} /\ ui' # "after"
<1>r. range' = range => IsRange(range)'
  BY <1>0 DEF IsRange
<1>p. ASSUME NEW p \in {"Today", "Recent", "All"}, range' = Resolve(p)
      PROVE  IsRange(range)'
  <2>1. IsRange(Resolve(p))
    BY <1>0, ResolvedRange
  <2> QED
    BY <1>p, <2>1 DEF IsRange
<1>c. ASSUME NEW r \in CustomRanges, range' = r
      PROVE  IsRange(range)'
  BY <1>c, DashboardAssumption DEF IsRange
<1>1. CASE Start
  <2>1. range' = Resolve("Today")
    BY <1>1 DEF Start, Open, Forms
  <2>2. Still /\ Calm
    BY <1>1 DEF Start, RefreshStorage
  <2> QED
    BY <1>p, <2>1, <2>2, ChooseRange
<1>2. CASE \E k \in Keys : PressKey(k)
  BY <1>2, <1>r, ChooseRange DEF PressKey, window, handler
<1>3. ASSUME NEW p \in Presets, SelectPreset(p)
      PROVE  WindowInv'
  <2>1. range' = Resolve(p) /\ p \in {"Today", "Recent", "All"}
    BY <1>3, DashboardAssumption DEF SelectPreset
  <2>2. Still /\ Calm
    BY <1>3 DEF SelectPreset, Displayed, RefreshRange
  <2> QED
    BY <1>p, <2>1, <2>2, ChooseRange
<1>4. CASE SelectCustom
  <2>1. Still /\ Calm /\ range' = range
    BY <1>4 DEF SelectCustom, Displayed, handler, Click
  <2> QED
    BY <1>r, <2>1, ChooseRange
<1>5. ASSUME NEW r \in CustomRanges, ApplyCustomRange(r)
      PROVE  WindowInv'
  <2>1. Still /\ Calm /\ range' = r
    BY <1>5 DEF ApplyCustomRange, Displayed, RefreshRange
  <2> QED
    BY <1>c, <2>1, ChooseRange
<1>6. CASE SaveNow \/ SaveNowFails
  <2>1. Still /\ Calm /\ range' = range
    BY <1>6 DEF SaveNow, SaveNowFails, window, handler, Click, RefreshStorage
  <2> QED
    BY <1>r, <2>1, ChooseRange
<1>7. CASE TickNewMinute \/ Throttled \/ Due
  <2>1. Still /\ Calm /\ range' = range
    BY <1>7 DEF TickNewMinute, Throttled, Due, window, RefreshStorage
  <2> QED
    BY <1>r, <2>1, ChooseRange
<1>8. CASE TickLive
  BY <1>8, TickRefreshes
<1>9. CASE ShowTotal \/ StorageThrows \/ RangeThrows
  <2>1. Still /\ Calm /\ range' = range
    BY <1>9 DEF ShowTotal, StorageThrows, RangeThrows, window
  <2> QED
    BY <1>r, <2>1, ChooseRange
<1>10. CASE ResolveRange
  <2>1. range' = range \/ \E p \in {"Today", "Recent", "All"} : range' = Resolve(p)
    BY <1>10 DEF ResolveRange, Forms
  <2>2. Still /\ Calm
    BY <1>10 DEF ResolveRange, Displayed, RefreshRange
  <2> QED
    BY <1>r, <1>p, <2>1, <2>2, ChooseRange
<1>11. CASE QueryBefore
  BY <1>11, QueryBegins
<1>12. CASE QueryAfter
  <2>1. ui' # "after"
    BY <1>12 DEF QueryAfter
  <2> QED
    BY <1>12, <2>1, QueryCompletes DEF WindowInv, HalfWay
<1>13. CASE Exit
  <2>1. ui' # "after"
    BY <1>13 DEF Exit
  <2> QED
    BY <1>0, <1>13, <2>1, NothingDisplayed DEF Exit
<1>14. CASE SaveOne \/ RefuseOne \/ PeriodicTake \/ PeriodicPut \/ ClockMoves \/ UNCHANGED vars
  <2>1. UNCHANGED <<window, handler, pressed, live>>
    BY <1>14 DEF SaveOne, RefuseOne, PeriodicTake, PeriodicPut, ClockMoves, Save, Refuse,
                 Take, Put, Tick, vars, ledger, history
  <2>2. Still
    BY <2>1 DEF window
  <2>3. Display(pressed, live_bucket)'
    BY <2>2, DisplayKept
  <2>4. WindowTypes'
    BY <2>1 DEF WindowInv, WindowTypes, window, handler, IsRange, Plus
  <2>5. Parts(range)' = Parts(range) /\ ui' = ui /\ partial' = partial
    BY <2>1 DEF Parts, InRange, window, handler
  <2>6. HalfWay'
    BY <2>1, <2>5 DEF WindowInv, HalfWay
  <2> QED
    BY <2>3, <2>4, <2>6 DEF WindowInv
<1> QED
  BY <1>1, <1>2, <1>3, <1>4, <1>5, <1>6, <1>7, <1>8, <1>9, <1>10, <1>11, <1>12, <1>13, <1>14
  DEF Next, Handle, OnRefreshTick

LEMMA InitForms == Init => Forms
  BY DEF Init, WindowInit, LedgerInit, Forms

LEMMA StepForms == LedgerInv /\ Forms /\ [Next]_vars => Forms'
<1> SUFFICES ASSUME LedgerInv, Forms, [Next]_vars
             PROVE  Forms'
  OBVIOUS
<1> USE DEF Forms, LedgerInv, Busy, RefreshStorage, RefreshRange, Click, Displayed, window,
            handler, ledger
<1>1. CASE Start
  BY <1>1 DEF Start, Open
<1>2. CASE (\E k \in Keys : PressKey(k)) \/ UNCHANGED vars
  BY <1>2 DEF vars, history, PressKey, Press
<1>3. CASE \/ \E p \in Presets : SelectPreset(p)
           \/ SelectCustom
           \/ \E r \in CustomRanges : ApplyCustomRange(r)
  BY <1>3, DashboardAssumption DEF SelectPreset, SelectCustom, ApplyCustomRange
<1>4. CASE SaveNow \/ SaveNowFails
  BY <1>4 DEF SaveNow, SaveNowFails, FlushNow, FlushNowThrows
<1>5. CASE OnRefreshTick
  BY <1>5 DEF OnRefreshTick, TickNewMinute, TickLive
<1>6. CASE Handle
  BY <1>6 DEF Handle, Throttled, Due, ShowTotal, ResolveRange, QueryBefore, QueryAfter,
              StorageThrows, RangeThrows
<1>7. CASE SaveOne \/ RefuseOne \/ PeriodicTake \/ PeriodicPut \/ ClockMoves
  BY <1>7 DEF SaveOne, RefuseOne, PeriodicTake, PeriodicPut, ClockMoves, Save, Refuse,
              Take, Put, Tick
<1>8. CASE Exit
  BY <1>8 DEF Exit, Close
<1> QED
  BY <1>1, <1>2, <1>3, <1>4, <1>5, <1>6, <1>7, <1>8 DEF Next

-----------------------------------------------------------------------------
(* The history total. *)
LEMMA AllPressesGrow ==
  ASSUME NEW p \in Tables, NEW q \in Tables, \A m \in Minutes, k \in Keys : p[m][k] <= q[m][k]
  PROVE  /\ TotalCount(SumOver(p, Minutes)) \in Nat /\ TotalCount(SumOver(q, Minutes)) \in Nat
         /\ TotalCount(SumOver(p, Minutes)) <= TotalCount(SumOver(q, Minutes))
<1>1. \A k \in Keys : /\ SumOver(p, Minutes)[k] \in Nat /\ SumOver(q, Minutes)[k] \in Nat
                     /\ SumOver(p, Minutes)[k] <= SumOver(q, Minutes)[k]
  BY SumOverIs, SumOverGrows
<1>2. SumOver(p, Minutes) \in [Keys -> Nat] /\ SumOver(q, Minutes) \in [Keys -> Nat]
  BY <1>1 DEF SumOver
<1> QED
  BY <1>1, <1>2, TotalsGrow

\* The rows without the live minute's, and the live minute, count each press once.
LEMMA HistoryBound ==
  ASSUME LedgerInv
  PROVE  History \in Nat /\ AllPresses \in Nat /\ History <= AllPresses
<1> DEFINE m == live.minute
           rest == Minutes \ {m}
           c == SumOver(rows, rest)
           d == live.counts
           all == SumOver(pressed, Minutes)
<1>1. /\ rows \in Tables /\ pressed \in Tables /\ m \in Minutes /\ d \in [Keys -> Nat]
      /\ \A t \in Minutes, k \in Keys : rows[t][k] <= pressed[t][k]
      /\ \A k \in Keys : d[k] <= pressed[m][k]
  BY RowsAreTables DEF LedgerInv
<1>2. Minutes = rest \cup {m} /\ rest \cap {m} \cap Minutes = {}
  BY <1>1
<1>3. History = TotalCount(c) + TotalCount(d) /\ AllPresses = TotalCount(all)
  BY DEF History, QueryTotalCount, AllPresses
<1>4. ASSUME NEW k \in Keys
      PROVE  c[k] \in Nat /\ all[k] \in Nat /\ c[k] + d[k] <= all[k]
  <2> HIDE DEF rest, m, d
  <2>1. c[k] <= SumOver(pressed, rest)[k]
    BY <1>1, SumOverGrows
  <2>2. SumOver(pressed, rest \cup {m})[k] = SumOver(pressed, rest)[k] + SumOver(pressed, {m})[k]
    BY <1>1, <1>2, SumOverParts
  <2>3. all[k] = SumOver(pressed, rest)[k] + SumOver(pressed, {m})[k]
    BY <1>2, <2>2
  <2>4. SumOver(pressed, {m})[k] = pressed[m][k]
    BY <1>1, SumOverOne
  <2>5. c[k] \in Nat /\ all[k] \in Nat /\ SumOver(pressed, rest)[k] \in Nat
    BY <1>1, SumOverIs
  <2>6. d[k] \in Nat /\ pressed[m][k] \in Nat /\ d[k] <= pressed[m][k]
    BY <1>1 DEF Tables
  <2> QED
    BY <2>1, <2>3, <2>4, <2>5, <2>6
<1>5. c \in [Keys -> Nat] /\ all \in [Keys -> Nat]
  BY <1>4 DEF SumOver
<1> HIDE DEF c, d, all
<1>6. \A k \in Keys : Plus(c, d)[k] = c[k] + d[k]
  BY DEF Plus
<1>7. Plus(c, d) \in [Keys -> Nat]
  BY <1>1, <1>5 DEF Plus
<1>8. TotalCount(Plus(c, d)) = TotalCount(c) + TotalCount(d)
  BY <1>1, <1>5, TotalOfPlus
<1>9. /\ TotalCount(Plus(c, d)) \in Nat /\ TotalCount(all) \in Nat
      /\ TotalCount(Plus(c, d)) <= TotalCount(all)
  BY <1>4, <1>5, <1>6, <1>7, TotalsGrow
<1> QED
  BY <1>3, <1>8, <1>9

TotalInv == total \in Nat \cup {NoTotal} /\ TotalNeverAhead

LEMMA StepTotal == LedgerInv /\ TotalInv /\ [Next]_vars => TotalInv'
<1> SUFFICES ASSUME LedgerInv, TotalInv, [Next]_vars
             PROVE  TotalInv'
  OBVIOUS
<1>1. AllPresses \in Nat /\ AllPresses' \in Nat /\ AllPresses <= AllPresses'
  <2> SUFFICES ASSUME NEW p, p = pressed, NEW q, q = pressed'
               PROVE  AllPresses \in Nat /\ AllPresses' \in Nat /\ AllPresses <= AllPresses'
    OBVIOUS
  <2>1. p \in Tables /\ q \in Tables /\ \A m \in Minutes, k \in Keys : p[m][k] <= q[m][k]
    BY PressesGrow
  <2>2. /\ AllPresses = TotalCount(SumOver(p, Minutes))
        /\ AllPresses' = TotalCount(SumOver(q, Minutes))
    BY DEF AllPresses
  <2> QED
    BY <2>1, <2>2, AllPressesGrow
<1>2. NoTotal <= AllPresses' /\ 0 \in Nat
  BY <1>1 DEF NoTotal
<1>3. CASE total' \in {total, NoTotal}
  BY <1>1, <1>2, <1>3 DEF TotalInv, TotalNeverAhead, NoTotal
<1>4. CASE ShowTotal
  <2>1. total' = History /\ History \in Nat /\ History <= AllPresses
    BY <1>4, HistoryBound DEF ShowTotal
  <2> QED
    BY <1>1, <2>1 DEF TotalInv, TotalNeverAhead
<1>5. total' \in {total, NoTotal} \/ ShowTotal
  <2> USE DEF window, Displayed
  <2>1. CASE Start \/ (\E k \in Keys : PressKey(k)) \/ UNCHANGED vars
    BY <2>1 DEF Start, PressKey, vars
  <2>2. CASE \/ \E p \in Presets : SelectPreset(p)
             \/ SelectCustom
             \/ \E r \in CustomRanges : ApplyCustomRange(r)
    BY <2>2 DEF SelectPreset, SelectCustom, ApplyCustomRange
  <2>3. CASE SaveNow \/ SaveNowFails \/ OnRefreshTick
    BY <2>3 DEF SaveNow, SaveNowFails, OnRefreshTick, TickNewMinute, TickLive
  <2>4. CASE Handle
    BY <2>4 DEF Handle, Throttled, Due, ResolveRange, QueryBefore, QueryAfter,
                StorageThrows, RangeThrows
  <2>5. CASE SaveOne \/ RefuseOne \/ PeriodicTake \/ PeriodicPut \/ ClockMoves \/ Exit
    BY <2>5 DEF SaveOne, RefuseOne, PeriodicTake, PeriodicPut, ClockMoves, Exit
  <2> QED
    BY <2>1, <2>2, <2>3, <2>4, <2>5 DEF Next
<1> QED
  BY <1>3, <1>4, <1>5

LEMMA InitTotal == Init => TotalInv
<1> SUFFICES ASSUME Init
             PROVE  TotalInv
  OBVIOUS
<1>1. AllPresses \in Nat /\ total = NoTotal
  BY InitLedgerInv, HistoryBound DEF Init, WindowInit
<1> QED
  BY <1>1 DEF TotalInv, TotalNeverAhead, NoTotal

DashboardInv == LedgerInv /\ WindowInv /\ Forms /\ TotalInv

LEMMA InitDashboard == Init => DashboardInv
  BY InitLedgerInv, InitWindow, InitForms, InitTotal DEF DashboardInv

LEMMA StepDashboard == DashboardInv /\ [Next]_vars => DashboardInv'
  BY StepLedgerInv, StepWindow, StepForms, StepTotal DEF DashboardInv

-----------------------------------------------------------------------------
\* The history total of the window never exceeds the presses made, however saves,
\* refusals, restarts and the queries of a refresh follow each other.
THEOREM TotalIsNeverAhead == Spec => []TotalNeverAhead
<1>1. DashboardInv => TotalNeverAhead
  BY DEF DashboardInv, TotalInv
<1> QED
  BY <1>1, InitDashboard, StepDashboard, PTL DEF Spec

\* Nor do the counts of any key on display exceed the presses of the range that was
\* queried, although the save thread may commit between the two queries and the live
\* minute is added from memory.
THEOREM ShownIsNeverAhead == Spec => []ShownNeverAhead
<1>1. DashboardInv => ShownNeverAhead
  BY DisplayedAtMost DEF DashboardInv
<1> QED
  BY <1>1, InitDashboard, StepDashboard, PTL DEF Spec

\* The live bucket on display lies in the range that was queried, and what is shown
\* is what was stored and what was last seen of that bucket.
THEOREM TypeCorrect == Spec => []TypeOK
<1>1. DashboardInv => TypeOK
  BY DEF DashboardInv, WindowInv, WindowTypes, Display, Forms, TotalInv, TypeOK
<1> QED
  BY <1>1, InitDashboard, StepDashboard, PTL DEF Spec
=============================================================================
