-------------------------- MODULE MinuteLedgerProofs --------------------------
(***************************************************************************)
(* What the ledger keeps, for the models that are built on it: its types,  *)
(* and that no snapshot in it is a new one but by a press.                 *)
(***************************************************************************)
EXTENDS MinuteLedger, SumLemmas, SequenceTheorems

Counts   == [Keys -> 0 .. MaxCount]
Snapshot == [minute : Minutes, counts : Counts]

LedgerTyped ==
  /\ now \in Minutes
  /\ rows \in [Minutes -> Counts]
  /\ running \in BOOLEAN
  /\ live \in Snapshot
  /\ unsaved \in Seq(Snapshot)
  /\ held \in Snapshot \cup {None}

LEMMA ZeroTypes == ZeroCounts \in Counts /\ Empty \in Snapshot /\ 0 \in Minutes
  BY LedgerAssumption DEF ZeroCounts, Counts, Empty, Snapshot, Minutes

LEMMA NoneIsNone == None \notin Snapshot
<1>1. MaxMinute + 1 \notin Minutes
  BY LedgerAssumption DEF Minutes
<1> QED
  BY <1>1 DEF None, Snapshot

\* What a line leaves of a minute where the rows are r: the last of its snapshots, or
\* the row there was.
SavedOver(r, line) ==
  [m \in Minutes |-> IF \E s \in Range(line) : s.minute = m
                     THEN line[LastOf(line, m)].counts
                     ELSE r[m]]

LastAt(line, m, i) ==
  /\ i \in DOMAIN line
  /\ line[i].minute = m
  /\ \A j \in DOMAIN line : line[j].minute = m => j <= i

LEMMA SavedOverRows == \A line : Saved(line) = SavedOver(rows, line)
  BY DEF Saved, SavedOver

LEMMA LineFacts ==
  ASSUME NEW line \in Seq(Snapshot)
  PROVE  /\ Len(line) \in Nat /\ DOMAIN line = 1 .. Len(line)
         /\ \A i \in DOMAIN line : /\ i \in Nat /\ line[i] \in Snapshot
                                   /\ line[i].minute \in Minutes /\ line[i].counts \in Counts
<1>1. /\ Len(line) \in Nat /\ DOMAIN line = 1 .. Len(line)
      /\ \A i \in DOMAIN line : line[i] \in Snapshot
  OBVIOUS
<1>2. \A i \in DOMAIN line : i \in Nat
  BY <1>1
<1>3. \A s \in Snapshot : s.minute \in Minutes /\ s.counts \in Counts
  BY DEF Snapshot
<1> QED
  BY <1>1, <1>2, <1>3

LEMMA SavedOverIs ==
  ASSUME NEW r, NEW line \in Seq(Snapshot), NEW m \in Minutes
  PROVE  \/ /\ \A i \in DOMAIN line : line[i].minute # m
            /\ SavedOver(r, line)[m] = r[m]
         \/ \E i \in DOMAIN line : /\ LastAt(line, m, i)
                                   /\ SavedOver(r, line)[m] = line[i].counts
<1> DEFINE T == {i \in DOMAIN line : line[i].minute = m}
<1>1. Len(line) \in Nat /\ DOMAIN line = 1 .. Len(line)
      /\ Range(line) = {line[i] : i \in DOMAIN line}
  BY DEF Range
<1>2. CASE T = {}
  BY <1>1, <1>2 DEF SavedOver
<1>3. CASE T # {}
  <2>1. T \in SUBSET (0 .. Len(line))
    BY <1>1
  <2>2. \E x \in T : \A y \in T : y <= x
    <3> HIDE DEF T
    <3> QED
      BY <1>1, <1>3, <2>1, GreatestNatural
  <2>3. \E i \in DOMAIN line : /\ line[i].minute = m
                               /\ \A j \in DOMAIN line : line[j].minute = m => j <= i
    BY <2>2
  <2>4. /\ LastOf(line, m) \in DOMAIN line
        /\ line[LastOf(line, m)].minute = m
        /\ \A j \in DOMAIN line : line[j].minute = m => j <= LastOf(line, m)
    BY <2>3 DEF LastOf
  <2>5. \E s \in Range(line) : s.minute = m
    BY <1>1, <2>4
  <2>6. SavedOver(r, line)[m] = line[LastOf(line, m)].counts
    BY <2>5 DEF SavedOver
  <2> QED
    BY <2>4, <2>6 DEF LastAt
<1> QED
  BY <1>2, <1>3

\* There is one last snapshot of a minute.
LEMMA SavedOverLast ==
  ASSUME NEW r, NEW line \in Seq(Snapshot), NEW m \in Minutes, NEW i, LastAt(line, m, i)
  PROVE  SavedOver(r, line)[m] = line[i].counts
<1>1. PICK j \in DOMAIN line : LastAt(line, m, j) /\ SavedOver(r, line)[m] = line[j].counts
  BY SavedOverIs DEF LastAt
<1>2. i \in DOMAIN line /\ i <= j /\ j <= i
  BY <1>1 DEF LastAt
<1>3. i = j
  BY <1>2, LineFacts
<1> QED
  BY <1>1, <1>3

LEMMA SavedOverNone ==
  ASSUME NEW r, NEW line \in Seq(Snapshot), NEW m \in Minutes,
         \A i \in DOMAIN line : line[i].minute # m
  PROVE  SavedOver(r, line)[m] = r[m]
  BY SavedOverIs DEF LastAt

\* One more at the end of the line.
LEMMA SavedAppend ==
  ASSUME NEW r, NEW line \in Seq(Snapshot), NEW s \in Snapshot, NEW m \in Minutes
  PROVE  SavedOver(r, Append(line, s))[m]
           = IF s.minute = m THEN s.counts ELSE SavedOver(r, line)[m]
<1> DEFINE longer == Append(line, s)
           n == Len(line)
<1>1. /\ longer \in Seq(Snapshot) /\ n \in Nat
      /\ DOMAIN longer = 1 .. n + 1 /\ DOMAIN line = 1 .. n
      /\ longer[n + 1] = s /\ \A i \in 1 .. n : longer[i] = line[i]
  OBVIOUS
<1> HIDE DEF longer, n
<1>2. ASSUME s.minute = m
      PROVE  SavedOver(r, longer)[m] = s.counts
  <2>1. LastAt(longer, m, n + 1)
    BY <1>1, <1>2 DEF LastAt
  <2> QED
    BY <1>1, <1>2, <2>1, SavedOverLast
<1>3. ASSUME s.minute # m, \A i \in DOMAIN line : line[i].minute # m
      PROVE  SavedOver(r, longer)[m] = SavedOver(r, line)[m]
  <2>1. \A i \in DOMAIN longer : longer[i].minute # m
    BY <1>1, <1>3
  <2> QED
    BY <1>1, <1>3, <2>1, SavedOverNone
<1>4. ASSUME s.minute # m, NEW i \in DOMAIN line, LastAt(line, m, i),
             SavedOver(r, line)[m] = line[i].counts
      PROVE  SavedOver(r, longer)[m] = SavedOver(r, line)[m]
  <2>1. LastAt(longer, m, i)
    BY <1>1, <1>4 DEF LastAt
  <2>2. SavedOver(r, longer)[m] = longer[i].counts
    BY <1>1, <2>1, SavedOverLast
  <2> QED
    BY <1>1, <1>4, <2>2
<1>5. SavedOver(r, longer)[m] = IF s.minute = m THEN s.counts ELSE SavedOver(r, line)[m]
  BY <1>2, <1>3, <1>4, SavedOverIs
<1> QED
  BY <1>5 DEF longer

\* One less at its head, which has become a row, or is of another minute.
LEMMA SavedTail ==
  ASSUME NEW r, NEW q, NEW line \in Seq(Snapshot), line # << >>, NEW m \in Minutes,
         q[m] = IF Head(line).minute = m THEN Head(line).counts ELSE r[m]
  PROVE  SavedOver(q, Tail(line))[m] = SavedOver(r, line)[m]
<1> DEFINE rest == Tail(line)
           n == Len(line)
<1>1. /\ rest \in Seq(Snapshot) /\ n \in Nat /\ n >= 1
      /\ DOMAIN rest = 1 .. n - 1 /\ DOMAIN line = 1 .. n
      /\ Head(line) = line[1] /\ \A i \in 1 .. n - 1 : rest[i] = line[i + 1]
  OBVIOUS
<1> HIDE DEF rest, n
<1>2. ASSUME NEW i \in 1 .. n, i # 1
      PROVE  i - 1 \in 1 .. n - 1 /\ rest[i - 1] = line[i]
  <2>1. i - 1 \in 1 .. n - 1 /\ (i - 1) + 1 = i
    BY <1>1, <1>2
  <2> QED
    BY <1>1, <2>1
<1>3. CASE \A i \in DOMAIN rest : rest[i].minute # m
  <2>1. SavedOver(q, rest)[m] = q[m]
    BY <1>1, <1>3, SavedOverNone
  <2>2. \A i \in 1 .. n : i # 1 => line[i].minute # m
    BY <1>1, <1>2, <1>3
  <2>3. CASE line[1].minute = m
    <3>1. LastAt(line, m, 1)
      BY <1>1, <2>2, <2>3 DEF LastAt
    <3>2. SavedOver(r, line)[m] = line[1].counts
      BY <3>1, SavedOverLast
    <3> QED
      BY <1>1, <2>1, <2>3, <3>2 DEF rest
  <2>4. CASE line[1].minute # m
    <3>1. SavedOver(r, line)[m] = r[m]
      BY <1>1, <2>2, <2>4, SavedOverNone
    <3> QED
      BY <1>1, <2>1, <2>4, <3>1 DEF rest
  <2> QED
    BY <2>3, <2>4
<1>4. ASSUME NEW i \in DOMAIN rest, LastAt(rest, m, i), SavedOver(q, rest)[m] = rest[i].counts
      PROVE  SavedOver(q, rest)[m] = SavedOver(r, line)[m]
  <2>1. i \in 1 .. n - 1 /\ i + 1 \in 1 .. n /\ rest[i] = line[i + 1]
    BY <1>1
  <2>2. ASSUME NEW j \in 1 .. n, line[j].minute = m
        PROVE  j <= i + 1
    <3>1. j # 1 => j - 1 <= i
      BY <1>1, <1>2, <1>4, <2>2 DEF LastAt
    <3> QED
      BY <1>1, <2>1, <3>1
  <2>3. LastAt(line, m, i + 1)
    BY <1>1, <1>4, <2>1, <2>2 DEF LastAt
  <2>4. SavedOver(r, line)[m] = line[i + 1].counts
    BY <2>3, SavedOverLast
  <2> QED
    BY <1>4, <2>1, <2>4
<1> QED
  BY <1>1, <1>3, <1>4, SavedOverIs DEF rest

LEMMA SavedIs ==
  ASSUME LedgerTyped, NEW line \in Seq(Snapshot), NEW m \in Minutes
  PROVE  \/ /\ \A i \in DOMAIN line : line[i].minute # m
            /\ Saved(line)[m] = rows[m]
         \/ \E i \in DOMAIN line :
              /\ line[i].minute = m
              /\ \A j \in DOMAIN line : line[j].minute = m => j <= i
              /\ Saved(line)[m] = line[i].counts
  BY SavedOverIs, SavedOverRows DEF LastAt

LEMMA SavedType ==
  ASSUME LedgerTyped, NEW line \in Seq(Snapshot)
  PROVE  Saved(line) \in [Minutes -> Counts]
<1>1. ASSUME NEW m \in Minutes
      PROVE  Saved(line)[m] \in Counts
  <2>1. rows[m] \in Counts
    BY DEF LedgerTyped
  <2>2. \A i \in DOMAIN line : line[i] \in Snapshot
    OBVIOUS
  <2>3. \A i \in DOMAIN line : line[i].counts \in Counts
    BY <2>2 DEF Snapshot
  <2> QED
    BY <2>1, <2>3, SavedIs
<1>2. Saved(line) = [m \in Minutes |-> Saved(line)[m]]
  BY DEF Saved
<1> QED
  BY <1>1, <1>2

\* The bucket after a press.
LEMMA PressedType ==
  ASSUME LedgerTyped, NEW k \in Keys
  PROVE  Pressed(k) \in Snapshot
<1> DEFINE c == IF now = live.minute THEN live.counts ELSE ZeroCounts
<1>1. c \in Counts
  BY ZeroTypes DEF LedgerTyped, Snapshot
<1>2. [c EXCEPT ![k] = IF @ < MaxCount THEN @ + 1 ELSE @] \in Counts
  BY <1>1, LedgerAssumption DEF Counts
<1>3. Pressed(k) = [minute |-> now,
                    counts |-> [c EXCEPT ![k] = IF @ < MaxCount THEN @ + 1 ELSE @]]
  BY DEF Pressed
<1> QED
  BY <1>2, <1>3 DEF LedgerTyped, Snapshot

\* The line after Put: the snapshot comes in last, or last but one.
LEMMA PutLine ==
  ASSUME LedgerTyped, Put
  PROVE  \E at \in Nat :
           /\ at <= Len(unsaved) /\ Len(unsaved) <= at + 1
           /\ unsaved' \in Seq(Snapshot) /\ Len(unsaved') = Len(unsaved) + 1
           /\ \A i \in 1 .. at : unsaved'[i] = unsaved[i]
           /\ unsaved'[at + 1] = held
           /\ \A i \in at + 2 .. Len(unsaved') : unsaved'[i] = unsaved[i - 1]
<1> DEFINE l == Len(unsaved)
<1>1. unsaved \in Seq(Snapshot) /\ l \in Nat /\ \A i \in 1 .. l : unsaved[i] \in Snapshot
  BY DEF LedgerTyped
<1>2. held \in Snapshot /\ <<held>> \in Seq(Snapshot)
  BY DEF Put, LedgerTyped
<1>3. PICK n \in {0, 1} :
        /\ n <= l
        /\ unsaved' = SubSeq(unsaved, 1, l - n) \o <<held>> \o SubSeq(unsaved, l - n + 1, l)
  BY DEF Put
<1> DEFINE at    == l - n
           front == SubSeq(unsaved, 1, at)
           back  == SubSeq(unsaved, at + 1, l)
<1>4. at \in Nat /\ at <= l /\ l <= at + 1 /\ l = at + n
  BY <1>1, <1>3
<1>5. unsaved' = (front \o <<held>>) \o back
  BY <1>3
<1> HIDE DEF at, l
<1>6. /\ front \in Seq(Snapshot) /\ Len(front) = at
      /\ \A i \in 1 .. at : front[i] = unsaved[i]
  <2>1. \A i \in 1 .. at : unsaved[i] \in Snapshot
    BY <1>1, <1>4
  <2>2. /\ front \in Seq(Snapshot)
        /\ Len(front) = IF 1 <= at THEN at - 1 + 1 ELSE 0
        /\ \A i \in 1 .. at - 1 + 1 : front[i] = unsaved[1 + i - 1]
    BY <1>4, <2>1, SubSeqProperties
  <2>3. ASSUME NEW i \in 1 .. at
        PROVE  i \in 1 .. at - 1 + 1 /\ 1 + i - 1 = i
    BY <1>4
  <2> HIDE DEF front
  <2>4. Len(front) = at
    BY <1>4, <2>2
  <2>5. ASSUME NEW i \in 1 .. at
        PROVE  front[i] = unsaved[i]
    BY <2>2, <2>3
  <2> QED
    BY <2>2, <2>4, <2>5
<1>7. /\ back \in Seq(Snapshot) /\ Len(back) = n
      /\ \A i \in 1 .. n : back[i] = unsaved[at + i]
  <2>1. \A i \in at + 1 .. l : unsaved[i] \in Snapshot
    BY <1>1, <1>4
  <2>2. /\ back \in Seq(Snapshot)
        /\ Len(back) = IF at + 1 <= l THEN l - (at + 1) + 1 ELSE 0
        /\ \A i \in 1 .. l - (at + 1) + 1 : back[i] = unsaved[(at + 1) + i - 1]
    BY <1>1, <1>4, <2>1, SubSeqProperties
  <2> HIDE DEF back
  <2>3. Len(back) = n
    BY <1>3, <1>4, <2>2
  <2>4. ASSUME NEW i \in 1 .. n
        PROVE  back[i] = unsaved[at + i]
    <3>1. i \in 1 .. l - (at + 1) + 1 /\ (at + 1) + i - 1 = at + i
      BY <1>3, <1>4
    <3> QED
      BY <2>2, <3>1
  <2> QED
    BY <2>2, <2>3, <2>4
<1> HIDE DEF front, back
<1>8. /\ front \o <<held>> \in Seq(Snapshot) /\ Len(front \o <<held>>) = at + 1
      /\ \A i \in 1 .. at + 1 : (front \o <<held>>)[i] = IF i <= at THEN front[i] ELSE held
  <2>1. /\ front \o <<held>> \in Seq(Snapshot)
        /\ Len(front \o <<held>>) = Len(front) + Len(<<held>>)
        /\ \A i \in 1 .. Len(front) + Len(<<held>>) :
             (front \o <<held>>)[i] = IF i <= Len(front) THEN front[i] ELSE <<held>>[i - Len(front)]
    BY <1>2, <1>6, ConcatProperties
  <2>2. Len(<<held>>) = 1 /\ <<held>>[1] = held
    OBVIOUS
  <2>3. ASSUME NEW i \in 1 .. at + 1
        PROVE  (front \o <<held>>)[i] = IF i <= at THEN front[i] ELSE held
    <3>1. ~(i <= at) => i - at = 1
      BY <1>4
    <3> QED
      BY <1>6, <2>1, <2>2, <3>1
  <2> QED
    BY <1>6, <2>1, <2>2, <2>3
<1>9. /\ unsaved' \in Seq(Snapshot) /\ Len(unsaved') = at + 1 + n
      /\ \A i \in 1 .. at + 1 + n :
           unsaved'[i] = IF i <= at + 1 THEN (front \o <<held>>)[i] ELSE back[i - (at + 1)]
  BY <1>5, <1>7, <1>8, ConcatProperties
<1>10. ASSUME NEW i \in 1 .. at
       PROVE  unsaved'[i] = unsaved[i]
  <2>1. i \in 1 .. at + 1 + n /\ i \in 1 .. at + 1 /\ i <= at /\ i <= at + 1
    BY <1>3, <1>4
  <2> QED
    BY <1>6, <1>8, <1>9, <2>1
<1>11. unsaved'[at + 1] = held
  <2>1. /\ at + 1 \in 1 .. at + 1 + n /\ at + 1 \in 1 .. at + 1
        /\ ~(at + 1 <= at) /\ at + 1 <= at + 1
    BY <1>3, <1>4
  <2> QED
    BY <1>8, <1>9, <2>1
<1>12. ASSUME NEW i \in at + 2 .. at + 1 + n
       PROVE  unsaved'[i] = unsaved[i - 1]
  <2>1. /\ i \in 1 .. at + 1 + n /\ ~(i <= at + 1)
        /\ i - (at + 1) \in 1 .. n /\ at + (i - (at + 1)) = i - 1
    BY <1>3, <1>4
  <2> QED
    BY <1>7, <1>9, <2>1
<1>13. Len(unsaved') = l + 1
  BY <1>3, <1>4, <1>9
<1> QED
  BY <1>4, <1>9, <1>10, <1>11, <1>12, <1>13 DEF l

\* The members of the line after Put, and after its head has left.
LEMMA PutMembers ==
  ASSUME LedgerTyped, Put
  PROVE  \A i \in DOMAIN unsaved' :
           unsaved'[i] = held \/ \E j \in DOMAIN unsaved : unsaved'[i] = unsaved[j]
<1>1. PICK at \in Nat :
           /\ at <= Len(unsaved) /\ Len(unsaved) <= at + 1
           /\ unsaved' \in Seq(Snapshot) /\ Len(unsaved') = Len(unsaved) + 1
           /\ \A i \in 1 .. at : unsaved'[i] = unsaved[i]
           /\ unsaved'[at + 1] = held
           /\ \A i \in at + 2 .. Len(unsaved') : unsaved'[i] = unsaved[i - 1]
  BY PutLine
<1>2. unsaved \in Seq(Snapshot)
  BY DEF LedgerTyped
<1>3. /\ DOMAIN unsaved = 1 .. Len(unsaved) /\ Len(unsaved) \in Nat
      /\ DOMAIN unsaved' = 1 .. Len(unsaved) + 1
  BY <1>1, <1>2
<1>4. ASSUME NEW i \in 1 .. Len(unsaved) + 1
      PROVE  unsaved'[i] = held \/ \E j \in DOMAIN unsaved : unsaved'[i] = unsaved[j]
  <2>1. CASE i <= at
    BY <1>1, <1>3, <2>1
  <2>2. CASE i = at + 1
    BY <1>1, <2>2
  <2>3. CASE i >= at + 2
    <3>1. i \in at + 2 .. Len(unsaved') /\ i - 1 \in 1 .. Len(unsaved)
      BY <1>1, <1>3, <2>3
    <3> QED
      BY <1>1, <1>3, <3>1
  <2> QED
    BY <1>1, <1>3, <2>1, <2>2, <2>3
<1> QED
  BY <1>3, <1>4

LEMMA TailMembers ==
  ASSUME NEW line \in Seq(Snapshot), line # << >>
  PROVE  /\ \E j \in DOMAIN line : Head(line) = line[j]
         /\ \A i \in DOMAIN Tail(line) : \E j \in DOMAIN line : Tail(line)[i] = line[j]
         /\ Head(line) \in Snapshot
<1>1. /\ Head(line) = line[1] /\ 1 \in DOMAIN line
      /\ \A i \in DOMAIN Tail(line) : Tail(line)[i] = line[i + 1] /\ i + 1 \in DOMAIN line
      /\ Head(line) \in Snapshot
  OBVIOUS
<1> QED
  BY <1>1

\* It changes what the line leaves of its own minute alone.
LEMMA SavedPut ==
  ASSUME LedgerTyped, Put, NEW m \in Minutes, held.minute # m
  PROVE  SavedOver(rows', unsaved')[m] = SavedOver(rows, unsaved)[m]
<1>1. PICK at \in Nat :
           /\ at <= Len(unsaved) /\ Len(unsaved) <= at + 1
           /\ unsaved' \in Seq(Snapshot) /\ Len(unsaved') = Len(unsaved) + 1
           /\ \A i \in 1 .. at : unsaved'[i] = unsaved[i]
           /\ unsaved'[at + 1] = held
           /\ \A i \in at + 2 .. Len(unsaved') : unsaved'[i] = unsaved[i - 1]
  BY PutLine
<1> DEFINE n == Len(unsaved)
<1>2. /\ n \in Nat /\ DOMAIN unsaved = 1 .. n /\ DOMAIN unsaved' = 1 .. n + 1
      /\ unsaved \in Seq(Snapshot) /\ unsaved' \in Seq(Snapshot) /\ rows' = rows
  <2>1. unsaved \in Seq(Snapshot) /\ rows' = rows
    BY DEF LedgerTyped, Put
  <2>2. n \in Nat /\ DOMAIN unsaved = 1 .. n
    BY <2>1
  <2>3. DOMAIN unsaved' = 1 .. Len(unsaved')
    BY <1>1
  <2> QED
    BY <1>1, <2>1, <2>2, <2>3
<1> HIDE DEF n
<1>3. ASSUME NEW j \in 1 .. n + 1, unsaved'[j].minute = m
      PROVE  IF j <= at THEN j \in 1 .. n /\ unsaved'[j] = unsaved[j]
                        ELSE j - 1 \in 1 .. n /\ unsaved'[j] = unsaved[j - 1] /\ j >= at + 2
  <2>1. j # at + 1
    BY <1>1, <1>3
  <2>2. CASE j <= at
    BY <1>1, <1>2, <2>2 DEF n
  <2>3. CASE ~(j <= at)
    <3>1. j \in at + 2 .. Len(unsaved') /\ j - 1 \in 1 .. n /\ j >= at + 2
      BY <1>1, <1>2, <2>1, <2>3 DEF n
    <3> QED
      BY <1>1, <2>3, <3>1
  <2> QED
    BY <2>2, <2>3
<1>4. CASE \A i \in DOMAIN unsaved : unsaved[i].minute # m
  <2>1. \A j \in DOMAIN unsaved' : unsaved'[j].minute # m
    BY <1>2, <1>3, <1>4
  <2> QED
    BY <1>2, <1>4, <2>1, SavedOverNone
<1>5. ASSUME NEW i \in DOMAIN unsaved, LastAt(unsaved, m, i),
             SavedOver(rows, unsaved)[m] = unsaved[i].counts
      PROVE  SavedOver(rows', unsaved')[m] = SavedOver(rows, unsaved)[m]
  <2> DEFINE p == IF i <= at THEN i ELSE i + 1
  <2>1. p \in DOMAIN unsaved' /\ unsaved'[p] = unsaved[i]
    <3>1. CASE i <= at
      BY <1>1, <1>2, <3>1
    <3>2. CASE ~(i <= at)
      <4>1. i + 1 \in at + 2 .. Len(unsaved') /\ (i + 1) - 1 = i /\ i + 1 \in 1 .. n + 1
        BY <1>1, <1>2, <3>2 DEF n
      <4> QED
        BY <1>1, <1>2, <3>2, <4>1
    <3> QED
      BY <3>1, <3>2
  <2>2. ASSUME NEW j \in 1 .. n + 1, unsaved'[j].minute = m
        PROVE  j <= p
    <3>1. IF j <= at THEN j <= i ELSE j - 1 <= i /\ j >= at + 2
      BY <1>2, <1>3, <1>5, <2>2 DEF LastAt
    <3> QED
      BY <1>1, <1>2, <3>1
  <2> HIDE DEF p
  <2>3. LastAt(unsaved', m, p)
    BY <1>2, <1>5, <2>1, <2>2 DEF LastAt
  <2>4. SavedOver(rows', unsaved')[m] = unsaved'[p].counts
    BY <1>2, <2>3, SavedOverLast
  <2> QED
    BY <1>5, <2>1, <2>4
<1> QED
  BY <1>2, <1>4, <1>5, SavedOverIs

\* What the steps of the ledger keep.
LEMMA LedgerTypes ==
  ASSUME LedgerTyped,
         \/ Open \/ (\E k \in Keys : Press(k)) \/ Flush \/ Take \/ Put \/ Save \/ Refuse
         \/ Close \/ Tick \/ FlushNow \/ FlushNowThrows \/ UNCHANGED ledger
  PROVE  LedgerTyped'
<1> USE DEF LedgerTyped
<1>1. CASE Open
  <2>1. [minute |-> now, counts |-> rows[now]] \in Snapshot
    BY DEF Snapshot
  <2> QED
    BY <1>1, <2>1 DEF Open
<1>2. ASSUME NEW k \in Keys, Press(k)
      PROVE  LedgerTyped'
  <2>1. Pressed(k) \in Snapshot
    BY PressedType
  <2>2. unsaved' \in Seq(Snapshot)
    BY <1>2 DEF Press
  <2> QED
    BY <1>2, <2>1, <2>2 DEF Press
<1>3. CASE Flush \/ Take
  BY <1>3 DEF Flush, Take
<1>4. CASE Put
  BY <1>4, PutLine DEF Put
<1>5. CASE Save
  <2>1. Head(unsaved) \in Snapshot /\ Tail(unsaved) \in Seq(Snapshot)
    BY <1>5 DEF Save
  <2>2. rows' \in [Minutes -> Counts]
    BY <1>5, <2>1 DEF Save, Snapshot
  <2> QED
    BY <1>5, <2>1, <2>2 DEF Save
<1>6. CASE Refuse
  BY <1>6 DEF Refuse
<1>7. CASE Close
  BY <1>7, ZeroTypes DEF Close
<1>8. CASE Tick
  BY <1>8 DEF Tick
<1>9. CASE FlushNow \/ FlushNowThrows
  <2>1. /\ unsaved \in Seq(Snapshot) /\ << >> \in Seq(Snapshot)
        /\ Append(unsaved, live) \in Seq(Snapshot)
    OBVIOUS
  <2>2. /\ Saved(unsaved) \in [Minutes -> Counts]
        /\ Saved(Append(unsaved, live)) \in [Minutes -> Counts]
    BY <2>1, SavedType
  <2> QED
    BY <1>9, <2>1, <2>2 DEF FlushNow, FlushNowThrows
<1>10. CASE UNCHANGED ledger
  BY <1>10 DEF ledger
<1> QED
  BY <1>1, <1>2, <1>3, <1>4, <1>5, <1>6, <1>7, <1>8, <1>9, <1>10

LEMMA InitLedgerTypes == LedgerInit => LedgerTyped
  BY ZeroTypes DEF LedgerInit, LedgerTyped, Counts, ZeroCounts

-----------------------------------------------------------------------------
\* Every snapshot there is, wherever it is.
Snapshots ==
  {[minute |-> m, counts |-> rows[m]] : m \in Minutes}
    \cup {live} \cup Range(unsaved) \cup ({held} \ {None})

LEMMA SnapshotFacts ==
  /\ \A m \in Minutes : [minute |-> m, counts |-> rows[m]] \in Snapshots
  /\ live \in Snapshots
  /\ \A i \in DOMAIN unsaved : unsaved[i] \in Snapshots
  /\ held # None => held \in Snapshots
  BY DEF Snapshots, Range

LEMMA SnapshotsIn ==
  ASSUME NEW S,
         \A m \in Minutes : [minute |-> m, counts |-> rows'[m]] \in S,
         live' \in S,
         \A i \in DOMAIN unsaved' : unsaved'[i] \in S,
         held' # None => held' \in S
  PROVE  Snapshots' \subseteq S
  BY DEF Snapshots, Range

\* Saving a line makes rows of its snapshots.
LEMMA SavedOnes ==
  ASSUME LedgerTyped, NEW line \in Seq(Snapshot), NEW S, Snapshots \subseteq S,
         \A i \in DOMAIN line : line[i] \in S
  PROVE  \A m \in Minutes : [minute |-> m, counts |-> Saved(line)[m]] \in S
<1> SUFFICES ASSUME NEW m \in Minutes
             PROVE  [minute |-> m, counts |-> Saved(line)[m]] \in S
  OBVIOUS
<1>1. CASE Saved(line)[m] = rows[m]
  BY <1>1, SnapshotFacts
<1>2. ASSUME NEW i \in DOMAIN line, line[i].minute = m, Saved(line)[m] = line[i].counts
      PROVE  [minute |-> m, counts |-> Saved(line)[m]] \in S
  <2>1. line[i] \in Snapshot
    OBVIOUS
  <2>2. line[i] = [minute |-> line[i].minute, counts |-> line[i].counts]
    BY <2>1 DEF Snapshot
  <2> QED
    BY <1>2, <2>2
<1> QED
  BY <1>1, <1>2, SavedIs

\* Snapshots are passed on, put away and dropped, never made up.
LEMMA NothingNew ==
  ASSUME LedgerTyped,
         \/ Open \/ Flush \/ Take \/ Put \/ Save \/ Refuse
         \/ Close \/ Tick \/ FlushNow \/ FlushNowThrows \/ UNCHANGED ledger
  PROVE  Snapshots' \subseteq Snapshots \cup {Empty}
<1> DEFINE S == Snapshots \cup {Empty}
<1>0. Snapshots \subseteq S /\ Empty \in S
  OBVIOUS
<1>1. /\ \A m \in Minutes : [minute |-> m, counts |-> rows[m]] \in S
      /\ live \in S
      /\ \A i \in DOMAIN unsaved : unsaved[i] \in S
      /\ held # None => held \in S
  BY SnapshotFacts
<1>2. /\ unsaved \in Seq(Snapshot) /\ Append(unsaved, live) \in Seq(Snapshot)
      /\ \A i \in DOMAIN Append(unsaved, live) : Append(unsaved, live)[i] \in S
  BY <1>1 DEF LedgerTyped
<1> HIDE DEF S
<1>3. CASE Open
  <2>1. live' \in S
    BY <1>1, <1>3 DEF Open, LedgerTyped
  <2> QED
    BY <1>1, <1>3, <2>1, SnapshotsIn DEF Open, S
<1>4. CASE Flush
  BY <1>1, <1>2, <1>4, SnapshotsIn DEF Flush, S
<1>5. CASE Take
  BY <1>1, <1>5, SnapshotsIn DEF Take, S
<1>6. CASE Put
  <2>1. \A i \in DOMAIN unsaved' : unsaved'[i] \in S
    BY <1>1, <1>6, PutMembers DEF Put
  <2> QED
    BY <1>1, <1>6, <2>1, SnapshotsIn DEF Put, S
<1>7. CASE Save \/ Refuse
  <2>1. unsaved # << >> /\ unsaved' = Tail(unsaved) /\ live' = live /\ held' = held
    BY <1>7 DEF Save, Refuse
  <2>2. /\ Head(unsaved) \in S /\ Head(unsaved) \in Snapshot
        /\ \A i \in DOMAIN unsaved' : unsaved'[i] \in S
    BY <1>1, <1>2, <2>1, TailMembers
  <2>3. \A m \in Minutes : [minute |-> m, counts |-> rows'[m]] \in S
    <3>1. CASE Refuse
      BY <1>1, <3>1 DEF Refuse
    <3>2. CASE Save
      <4>1. \A m \in Minutes : m # Head(unsaved).minute => rows'[m] = rows[m]
        BY <3>2 DEF Save, LedgerTyped
      <4>2. rows'[Head(unsaved).minute] = Head(unsaved).counts
        BY <2>2, <3>2 DEF Save, LedgerTyped, Snapshot
      <4>3. Head(unsaved) = [minute |-> Head(unsaved).minute, counts |-> Head(unsaved).counts]
        BY <2>2 DEF Snapshot
      <4> QED
        BY <1>1, <2>2, <4>1, <4>2, <4>3
    <3> QED
      BY <1>7, <3>1, <3>2
  <2> QED
    BY <1>1, <2>1, <2>2, <2>3, SnapshotsIn DEF S
<1>8. CASE Close
  <2>1. live' \in S /\ \A i \in DOMAIN unsaved' : unsaved'[i] \in S
    BY <1>0, <1>8 DEF Close
  <2>2. held' = None /\ None' = None /\ rows' = rows
    BY <1>8 DEF Close, None
  <2> QED
    BY <1>1, <2>1, <2>2, SnapshotsIn DEF S
<1>9. CASE Tick \/ UNCHANGED ledger
  BY <1>1, <1>9, SnapshotsIn DEF Tick, S, ledger
<1>10. CASE FlushNow \/ FlushNowThrows
  <2>1. \A m \in Minutes : [minute |-> m, counts |-> Saved(unsaved)[m]] \in S
    BY <1>0, <1>1, <1>2, SavedOnes DEF S
  <2>2. \A m \in Minutes : [minute |-> m, counts |-> Saved(Append(unsaved, live))[m]] \in S
    BY <1>0, <1>1, <1>2, SavedOnes DEF S
  <2>3. /\ live' = live /\ held' = held
        /\ rows' \in {rows, Saved(unsaved), Saved(Append(unsaved, live))}
        /\ unsaved' \in {unsaved, << >>}
    BY <1>10 DEF FlushNow, FlushNowThrows
  <2>4. \A m \in Minutes : [minute |-> m, counts |-> rows'[m]] \in S
    BY <1>1, <2>1, <2>2, <2>3
  <2>5. \A i \in DOMAIN unsaved' : unsaved'[i] \in S
    BY <1>1, <2>3
  <2> QED
    BY <1>1, <2>3, <2>4, <2>5, SnapshotsIn DEF S
<1> QED
  BY <1>3, <1>4, <1>5, <1>6, <1>7, <1>8, <1>9, <1>10 DEF S

\* A press makes one new snapshot, the live bucket.
LEMMA PressMakesOne ==
  ASSUME LedgerTyped, NEW k \in Keys, Press(k)
  PROVE  Snapshots' \subseteq Snapshots \cup {Pressed(k)}
<1> DEFINE S == Snapshots \cup {Pressed(k)}
<1>1. /\ \A m \in Minutes : [minute |-> m, counts |-> rows[m]] \in S
      /\ live \in S
      /\ \A i \in DOMAIN unsaved : unsaved[i] \in S
      /\ held # None => held \in S
      /\ Pressed(k) \in S
  BY SnapshotFacts
<1>2. /\ unsaved \in Seq(Snapshot) /\ Append(unsaved, live) \in Seq(Snapshot)
      /\ \A i \in DOMAIN Append(unsaved, live) : Append(unsaved, live)[i] \in S
  BY <1>1 DEF LedgerTyped
<1> HIDE DEF S
<1>3. \A i \in DOMAIN unsaved' : unsaved'[i] \in S
  BY <1>1, <1>2 DEF Press
<1> QED
  BY <1>1, <1>3, SnapshotsIn DEF Press, S

-----------------------------------------------------------------------------
(* Counts of presses, minute by minute, that no snapshot exceeds. *)
Tables == [Minutes -> [Keys -> Nat]]

LEMMA SnapshotTypes ==
  ASSUME LedgerTyped, NEW s \in Snapshots
  PROVE  s \in Snapshot /\ s.minute \in Minutes /\ s.counts \in [Keys -> Nat]
<1>1. s \in Snapshot
  <2>1. live \in Snapshot /\ held \in Snapshot \cup {None}
        /\ \A i \in DOMAIN unsaved : unsaved[i] \in Snapshot
    BY DEF LedgerTyped
  <2>2. \A m \in Minutes : [minute |-> m, counts |-> rows[m]] \in Snapshot
    BY DEF LedgerTyped, Snapshot
  <2> QED
    BY <2>1, <2>2 DEF Snapshots, Range
<1>2. 0 .. MaxCount \subseteq Nat
  OBVIOUS
<1> QED
  BY <1>1, <1>2 DEF Snapshot, Counts

LEMMA PressCovered ==
  ASSUME LedgerTyped, NEW k \in Keys, Press(k), NEW p \in Tables,
         \A s \in Snapshots, j \in Keys : s.counts[j] <= p[s.minute][j],
         NEW q, q = [p EXCEPT ![now][k] = @ + 1]
  PROVE  /\ q \in Tables
         /\ \A s \in Snapshots', j \in Keys : s.counts[j] <= q[s.minute][j]
<1>1. now \in Minutes /\ live \in Snapshots
  BY SnapshotFacts DEF LedgerTyped
<1>2. /\ q \in Tables
      /\ \A m \in Minutes, j \in Keys : p[m][j] <= q[m][j]
      /\ q[now][k] = p[now][k] + 1
  BY <1>1 DEF Tables
<1>3. ASSUME NEW j \in Keys
      PROVE  Pressed(k).counts[j] <= q[now][j]
  <2> DEFINE c == IF now = live.minute THEN live.counts ELSE ZeroCounts
  <2>1. c \in [Keys -> Nat] /\ \A i \in Keys : c[i] <= p[now][i]
    BY <1>1, SnapshotTypes DEF ZeroCounts, Tables
  <2>2. Pressed(k).counts = [c EXCEPT ![k] = IF @ < MaxCount THEN @ + 1 ELSE @]
    BY DEF Pressed
  <2> HIDE DEF c
  <2>3. Pressed(k).counts[j] <= IF j = k THEN c[k] + 1 ELSE c[j]
    BY <2>1, <2>2
  <2>4. c[j] \in Nat /\ c[k] \in Nat /\ p[now][j] \in Nat /\ q[now][j] \in Nat
        /\ Pressed(k).counts[j] \in Nat
    BY <1>1, <1>2, <2>1, <2>2, LedgerAssumption DEF Tables
  <2> QED
    BY <1>1, <1>2, <2>1, <2>3, <2>4
<1>4. Pressed(k).minute = now
  BY DEF Pressed
<1>5. ASSUME NEW s \in Snapshots', NEW j \in Keys
      PROVE  s.counts[j] <= q[s.minute][j]
  <2>1. s \in Snapshots \/ s = Pressed(k)
    BY PressMakesOne
  <2>2. CASE s \in Snapshots
    <3>1. s.minute \in Minutes /\ s.counts[j] \in Nat /\ s.counts[j] <= p[s.minute][j]
      BY <2>2, SnapshotTypes
    <3>2. p[s.minute][j] \in Nat /\ q[s.minute][j] \in Nat /\ p[s.minute][j] <= q[s.minute][j]
      BY <1>2, <3>1 DEF Tables
    <3> QED
      BY <3>1, <3>2
  <2> QED
    BY <1>3, <1>4, <2>1, <2>2
<1> QED
  BY <1>2, <1>5

LEMMA OthersCovered ==
  ASSUME LedgerTyped, NEW p \in Tables,
         \A s \in Snapshots, j \in Keys : s.counts[j] <= p[s.minute][j],
         \/ Open \/ Flush \/ Take \/ Put \/ Save \/ Refuse
         \/ Close \/ Tick \/ FlushNow \/ FlushNowThrows \/ UNCHANGED ledger
  PROVE  \A s \in Snapshots', j \in Keys : s.counts[j] <= p[s.minute][j]
<1>1. Snapshots' \subseteq Snapshots \cup {Empty}
  BY NothingNew
<1>2. \A j \in Keys : Empty.counts[j] <= p[Empty.minute][j]
  BY ZeroTypes DEF Empty, ZeroCounts, Tables
<1> QED
  BY <1>1, <1>2
=============================================================================
