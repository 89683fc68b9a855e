-------------------------- MODULE MinuteStoreProofs ---------------------------
(*****************************************************************************)
(* What holds of MinuteStore for every set of keys and minutes, every        *)
(* length of a block and every file it may find: the rounding of times, the  *)
(* schema, what a query never reads, that a rollup is the sum of its minutes,*)
(* and that an answer counts what was there while it was made.               *)
(*****************************************************************************)
EXTENDS MinuteStore, SumLemmas

-------------------------------------------------------------------------------
(* The rounding rules, for every time (before 1970, too) and every interval. *)
IsMultiple(value, interval) == \E q \in Int : value = q * interval

LEMMA DivMod ==
  ASSUME NEW a \in Int, NEW b \in Nat \ {0}
  PROVE  /\ a % b \in 0 .. b - 1
         /\ a \div b \in Int
         /\ a = (a \div b) * b + (a % b)
<1>1. a % b \in 0 .. b - 1
  OBVIOUS
<1>2. a \div b \in Int
  OBVIOUS
<1>3. a = b * (a \div b) + (a % b)
  OBVIOUS
<1>4. (a \div b) * b = b * (a \div b)
  BY <1>2
<1> QED
  BY <1>1, <1>2, <1>3, <1>4

\* The C++ remainder has the sign of its dividend, is smaller than the divisor,
\* and is what is left over a multiple of it.
LEMMA CppRemFacts ==
  ASSUME NEW value \in Int, NEW interval \in Nat \ {0}
  PROVE  /\ CppRem(value, interval) \in Int
         /\ CppRem(value, interval) < interval
         /\ -interval < CppRem(value, interval)
         /\ value >= 0 => CppRem(value, interval) >= 0
         /\ value < 0 => CppRem(value, interval) <= 0
         /\ IsMultiple(value - CppRem(value, interval), interval)
<1>1. CASE value >= 0
  <2>1. value % interval \in 0 .. interval - 1
    BY DivMod
  <2>2. IsMultiple(value - (value % interval), interval)
    <3> DEFINE q == value \div interval
    <3>1. q \in Int /\ value = q * interval + (value % interval)
      BY DivMod
    <3> HIDE DEF q
    <3>2. value - (value % interval) = q * interval
      BY <2>1, <3>1
    <3> QED
      BY <3>1, <3>2 DEF IsMultiple
  <2>3. CppRem(value, interval) = value % interval
    BY <1>1 DEF CppRem
  <2>4. CppRem(value, interval) \in 0 .. interval - 1
    BY <2>1, <2>3
  <2>5. IsMultiple(value - CppRem(value, interval), interval)
    BY <2>2, <2>3
  <2> QED
    BY <1>1, <2>4, <2>5
<1>2. CASE value < 0
  <2> DEFINE a == -value
  <2>1. a \in Int /\ a % interval \in 0 .. interval - 1
    BY DivMod
  <2>2. IsMultiple(value + (a % interval), interval)
    <3> DEFINE q == a \div interval
    <3>1. q \in Int /\ a = q * interval + (a % interval)
      BY DivMod
    <3> HIDE DEF q
    <3>2. (-q) * interval = -(q * interval)
      BY <3>1
    <3>3. value + (a % interval) = (-q) * interval
      BY <2>1, <3>1, <3>2
    <3>4. -q \in Int
      BY <3>1
    <3> QED
      BY <3>3, <3>4 DEF IsMultiple
  <2>3. value - CppRem(value, interval) = value + (a % interval)
    BY <1>2, <2>1 DEF CppRem
  <2> QED
    BY <1>2, <2>1, <2>2, <2>3 DEF CppRem
<1> QED
  BY <1>1, <1>2

\* AlignDown is the last multiple of the interval not after value.
LEMMA AlignDownIsFloor ==
  ASSUME NEW value \in Int, NEW interval \in Nat \ {0}
  PROVE  /\ AlignDown(value, interval) \in Int
         /\ AlignDown(value, interval) <= value
         /\ value < AlignDown(value, interval) + interval
         /\ IsMultiple(AlignDown(value, interval), interval)
<1> DEFINE r == CppRem(value, interval)
<1>1. r \in Int /\ r < interval /\ -interval < r
  BY CppRemFacts
<1>2. AlignDown(value, interval) = IF r < 0 THEN value - r - interval ELSE value - r
  BY DEF AlignDown
<1>3. AlignDown(value, interval) \in Int
      /\ AlignDown(value, interval) <= value
      /\ value < AlignDown(value, interval) + interval
  BY <1>1, <1>2
<1>4. PICK q \in Int : value - r = q * interval
  BY CppRemFacts DEF IsMultiple
<1>5. (q - 1) * interval = q * interval - interval
  OBVIOUS
<1>6. IsMultiple(AlignDown(value, interval), interval)
  <2>1. CASE r < 0
    <3>1. AlignDown(value, interval) = (q - 1) * interval
      BY <1>1, <1>2, <1>4, <1>5, <2>1
    <3> QED
      BY <3>1 DEF IsMultiple
  <2>2. CASE r >= 0
    <3>1. AlignDown(value, interval) = q * interval
      BY <1>1, <1>2, <1>4, <2>2
    <3> QED
      BY <3>1 DEF IsMultiple
  <2> QED
    BY <1>1, <2>1, <2>2
<1> QED
  BY <1>3, <1>6

\* AlignUp is the first multiple of the interval not before value.
LEMMA AlignUpIsCeiling ==
  ASSUME NEW value \in Int, NEW interval \in Nat \ {0}
  PROVE  /\ AlignUp(value, interval) \in Int
         /\ value <= AlignUp(value, interval)
         /\ AlignUp(value, interval) < value + interval
         /\ IsMultiple(AlignUp(value, interval), interval)
<1> DEFINE d == AlignDown(value, interval)
<1>1. d \in Int /\ d <= value /\ value < d + interval
  BY AlignDownIsFloor
<1>2. AlignUp(value, interval) = IF d = value THEN value ELSE d + interval
  BY DEF AlignUp
<1>3. PICK q \in Int : d = q * interval
  BY AlignDownIsFloor DEF IsMultiple
<1> HIDE DEF d
<1>4. (q + 1) * interval = q * interval + interval
  OBVIOUS
<1>5. CASE d = value
  BY <1>1, <1>2, <1>3, <1>5 DEF IsMultiple
<1>6. CASE d # value
  <2>1. AlignUp(value, interval) = (q + 1) * interval
    BY <1>2, <1>3, <1>4, <1>6
  <2>2. IsMultiple(AlignUp(value, interval), interval)
    BY <2>1 DEF IsMultiple
  <2> QED
    BY <1>1, <1>2, <1>6, <2>2
<1> QED
  BY <1>5, <1>6

\* QueryAggregate and QueryTenMinuteTotals read every time of [start, end) in
\* exactly one of their three parts, and the rollups of the middle part lie in
\* it completely: its ends are ends of rollups.
THEOREM RangeIsSplit ==
  ASSUME NEW start \in Int, NEW end \in Int, start < end,
         NEW interval \in Nat \ {0}
  PROVE  LET first == RollupStart(start, end, interval)
             last  == RollupEnd(start, end, interval)
         IN  /\ start <= first
             /\ first <= last
             /\ last <= end
             /\ first < last =>
                  IsMultiple(first, interval) /\ IsMultiple(last, interval)
<1> DEFINE up    == AlignUp(start, interval)
           down  == AlignDown(end, interval)
           first == RollupStart(start, end, interval)
           last  == RollupEnd(start, end, interval)
<1>1. up \in Int /\ start <= up /\ IsMultiple(up, interval)
  BY AlignUpIsCeiling
<1>2. down \in Int /\ down <= end /\ IsMultiple(down, interval)
  BY AlignDownIsFloor
<1>3. first = IF up < end THEN up ELSE end
  BY DEF RollupStart
<1>4. last = IF down > first THEN down ELSE first
  BY DEF RollupEnd
<1> HIDE DEF up, down, first, last
<1>5. start <= first /\ first <= last /\ last <= end
  BY <1>1, <1>2, <1>3, <1>4
<1>6. ASSUME first < last
      PROVE  first = up /\ last = down
  BY <1>1, <1>2, <1>3, <1>4, <1>6
<1>7. first < last => IsMultiple(first, interval) /\ IsMultiple(last, interval)
  BY <1>1, <1>2, <1>6
<1> QED
  BY <1>5, <1>7 DEF first, last

-----------------------------------------------------------------------------
\* Wherever the first start is interrupted, before or after any statement, the
\* version is set last: a file that claims to be complete is.
THEOREM SchemaIsComplete == Spec => []SchemaComplete
<1>1. Init => SchemaComplete
  <2> SUFFICES ASSUME Init
               PROVE  SchemaComplete
    OBVIOUS
  <2>1. user_version = 0 \/ tables = Cardinality(Schema)
    BY Zenon DEF Init
  <2> QED
    BY <2>1 DEF SchemaComplete
<1>2. SchemaComplete /\ [Next]_vars => SchemaComplete'
  <2> SUFFICES ASSUME SchemaComplete, [Next]_vars
               PROVE  SchemaComplete'
    OBVIOUS
  <2>1. CASE CreateTable
    BY <2>1 DEF CreateTable, SchemaDone, SchemaComplete
  <2>2. CASE SetSchemaVersion
    BY <2>2 DEF SetSchemaVersion, SchemaDone, SchemaComplete
  <2>3. ASSUME ~CreateTable, ~SetSchemaVersion
        PROVE  UNCHANGED <<user_version, tables>>
    BY <2>3
    DEF Next, vars, file, RefuseFile, Initialize, Begin, InsertMinute, RebuildTenMinuteRollup, Commit,
        FailSave, RefuseBlock, StartQuery, ReadHead, ReadRollups, ReadTail, Select,
        QueryThrows, SelectThrows, Return, Exit
  <2> QED
    BY <2>1, <2>2, <2>3 DEF SchemaComplete
<1> QED
  BY <1>1, <1>2, PTL DEF Spec

-----------------------------------------------------------------------------
\* A row of an unsupported key map version.
Bad(row) == row # NoRow /\ ~Supported(row)

\* The rollup of a block that has one is of such a version, too.
Marked(minutes, rollups) ==
  \A t \in Times : Bad(minutes[t]) => Bad(rollups[ToTenMinuteStart(t)])

\* Writing makes no row unsupported: the unsupported ones have been there before.
NoNewBad(new, old) == \A t \in Times : Bad(new[t]) => Bad(old[t])

IsTable(table, S) == table = [x \in S |-> table[x]]

Stored ==
  /\ IsTable(minute_buckets, Times)
  /\ IsTable(rollup_10m, Blocks)
  /\ Marked(minute_buckets, rollup_10m)

\* What COMMIT would make of the file.
Prepared ==
  writer # "idle" =>
    /\ IsTable(txn_minutes, Times)
    /\ IsTable(txn_rollups, Blocks)
    /\ snapshot.minute \in Times
    /\ NoNewBad(txn_minutes, minute_buckets)
    /\ Marked(txn_minutes, txn_rollups)

\* How far a query has read.
ReadTo ==
  CASE reader = "head"     -> query.start
    [] reader = "rollups"  -> First
    [] reader = "tail"     -> Last
    [] reader = "answered" -> query.end

IsRange == query.start \in Int /\ query.end \in Int /\ query.start < query.end

\* No minute read so far is unsupported -- nor becomes so while the query goes on.
ReadGood ==
  reader # "idle" =>
    /\ reader \in {"head", "rollups", "tail", "answered"}
    /\ IsRange
    /\ query.function = "QueryAggregate" =>
         \A t \in Times : query.start <= t /\ t < ReadTo => ~Bad(minute_buckets[t])

ReadInv == Stored /\ Prepared /\ ReadGood

\* A minute lies in its block.
LEMMA InItsBlock ==
  ASSUME NEW t \in Times
  PROVE  /\ t \in Int /\ ToTenMinuteStart(t) \in Int /\ ToTenMinuteStart(t) \in Blocks
         /\ ToTenMinuteStart(t) <= t
         /\ t < ToTenMinuteStart(t) + BlockLen
         /\ IsMultiple(ToTenMinuteStart(t), BlockLen)
<1>1. t \in Int /\ BlockLen \in Nat \ {0}
  BY StoreAssumption
<1> QED
  BY <1>1, AlignDownIsFloor DEF ToTenMinuteStart, Blocks

\* A block begins no earlier than a boundary of blocks before one of its minutes.
LEMMA BlockAfterBoundary ==
  ASSUME NEW t \in Times, NEW from \in Int, IsMultiple(from, BlockLen), from <= t
  PROVE  from <= ToTenMinuteStart(t)
<1> DEFINE b == ToTenMinuteStart(t)
<1>1. BlockLen \in Nat \ {0}
  BY StoreAssumption
<1>2. PICK p \in Int : from = p * BlockLen
  BY DEF IsMultiple
<1>3. PICK q \in Int : b = q * BlockLen
  BY InItsBlock DEF IsMultiple
<1>4. b \in Int /\ t \in Int /\ t < b + BlockLen
  BY InItsBlock
<1> HIDE DEF b
<1>5. CASE p <= q
  <2>1. (q - p) * BlockLen >= 0
    BY <1>1, <1>5
  <2>2. (q - p) * BlockLen = q * BlockLen - p * BlockLen
    BY <1>1
  <2> QED
    BY <1>2, <1>3, <1>4, <2>1, <2>2 DEF b
<1>6. CASE p > q
  <2>1. (p - q - 1) * BlockLen >= 0
    BY <1>1, <1>6
  <2>2. (p - q - 1) * BlockLen = p * BlockLen - q * BlockLen - BlockLen
    BY <1>1
  <2>3. FALSE
    BY <1>1, <1>2, <1>3, <1>4, <2>1, <2>2
  <2> QED
    BY <2>3
<1> QED
  BY <1>5, <1>6

\* The three parts of the range of a query.
LEMMA RangeFacts ==
  ASSUME IsRange
  PROVE  /\ First \in Int /\ Last \in Int
         /\ query.start <= First /\ First <= Last /\ Last <= query.end
         /\ First < Last => IsMultiple(First, BlockLen) /\ IsMultiple(Last, BlockLen)
<1>1. BlockLen \in Nat \ {0} /\ query.start \in Int /\ query.end \in Int
      /\ query.start < query.end
  BY StoreAssumption DEF IsRange
<1>2. First \in Int /\ Last \in Int
  BY <1>1, AlignUpIsCeiling, AlignDownIsFloor DEF First, Last, RollupStart, RollupEnd
<1> QED
  BY <1>1, <1>2, RangeIsSplit DEF First, Last

LEMMA NewRowIsGood == \A c : ~Bad(NewRow(c))
  BY DEF Bad, NewRow, Supported, MinKeyMapVersion, KeyMapVersion

LEMMA InitRead == Init => ReadInv
<1> SUFFICES ASSUME Init
             PROVE  ReadInv
  OBVIOUS
<1>1. IsTable(minute_buckets, Times) /\ IsTable(rollup_10m, Blocks)
  BY DEF Init, IsTable
<1>2. Marked(minute_buckets, rollup_10m)
  <2>1. CASE minute_buckets = [t \in Times |-> NoRow]
    BY <2>1 DEF Marked, Bad
  <2>2. CASE \E m \in Times : \E row :
               /\ minute_buckets = [t \in Times |-> IF t = m THEN row ELSE NoRow]
               /\ rollup_10m =
                    [b \in Blocks |-> IF b = ToTenMinuteStart(m) THEN row ELSE NoRow]
    BY <2>2, InItsBlock DEF Marked, Bad
  <2> QED
    BY <2>1, <2>2 DEF Init
<1> QED
  BY <1>1, <1>2 DEF Init, ReadInv, Stored, Prepared, ReadGood

\* The reader's part, when the reader stands still and the minutes are as good as
\* before.
LEMMA ReaderRests ==
  ASSUME ReadGood, UNCHANGED <<reader, query>>, NoNewBad(minute_buckets', minute_buckets)
  PROVE  ReadGood'
  BY DEF ReadGood, ReadTo, IsRange, First, Last, NoNewBad

LEMMA EndQueryRead == EndQuery => ReadGood'
  BY DEF EndQuery, ReadGood

LEMMA EndTransactionPrepared == EndTransaction => Prepared'
  BY DEF EndTransaction, Prepared

\* The transaction.
LEMMA BeginRead ==
  ASSUME ReadInv, NEW m \in Times, NEW c, Begin(m, c)
  PROVE  ReadInv'
<1>1. /\ UNCHANGED <<minute_buckets, rollup_10m, reader, query>>
      /\ txn_minutes' = minute_buckets /\ txn_rollups' = rollup_10m
      /\ snapshot'.minute = m
  BY DEF Begin, file, reads
<1>2. Stored' /\ Prepared'
  BY <1>1 DEF ReadInv, Stored, Prepared, NoNewBad
<1>3. ReadGood'
  BY <1>1, ReaderRests DEF ReadInv, NoNewBad
<1> QED
  BY <1>2, <1>3 DEF ReadInv

LEMMA InsertRead ==
  ASSUME ReadInv, InsertMinute
  PROVE  ReadInv'
<1>1. /\ UNCHANGED <<minute_buckets, rollup_10m, reader, query, snapshot, txn_rollups>>
      /\ writer # "idle"
      /\ txn_minutes' =
           [txn_minutes EXCEPT ![snapshot.minute] = NewRow(snapshot.counts)]
  BY DEF InsertMinute, file, reads
<1>2. IsTable(txn_minutes, Times) /\ snapshot.minute \in Times
  BY <1>1 DEF ReadInv, Prepared
<1>3. \A t \in Times : txn_minutes'[t] = IF t = snapshot.minute
                                         THEN NewRow(snapshot.counts) ELSE txn_minutes[t]
  BY <1>1, <1>2 DEF IsTable
<1>4. IsTable(txn_minutes', Times)
  BY <1>1, <1>2 DEF IsTable
<1>5. NoNewBad(txn_minutes', txn_minutes)
  BY <1>3, NewRowIsGood DEF NoNewBad
<1>6. Prepared'
  BY <1>1, <1>2, <1>4, <1>5 DEF ReadInv, Prepared, NoNewBad, Marked
<1>7. Stored' /\ ReadGood'
  BY <1>1, ReaderRests DEF ReadInv, Stored, NoNewBad
<1> QED
  BY <1>6, <1>7 DEF ReadInv

\* The rollup that is rebuilt is a good one, because all minutes of its block are:
\* RebuildTenMinuteRollup throws otherwise.
LEMMA RebuildRead ==
  ASSUME ReadInv, RebuildTenMinuteRollup
  PROVE  ReadInv'
<1> DEFINE b == ToTenMinuteStart(snapshot.minute)
<1>1. /\ UNCHANGED <<minute_buckets, rollup_10m, reader, query, snapshot, txn_minutes>>
      /\ writer # "idle"
      /\ BlockReadable(txn_minutes, b)
      /\ txn_rollups' = [txn_rollups EXCEPT ![b] = Rollup(txn_minutes, b)]
  BY DEF RebuildTenMinuteRollup, file, reads
<1>2. /\ IsTable(txn_minutes, Times) /\ IsTable(txn_rollups, Blocks)
      /\ snapshot.minute \in Times /\ Marked(txn_minutes, txn_rollups)
      /\ NoNewBad(txn_minutes, minute_buckets)
  BY <1>1 DEF ReadInv, Prepared
<1>3. IsTable(txn_rollups', Blocks)
  BY <1>1, <1>2 DEF IsTable
<1>4. ASSUME NEW t \in Times, Bad(txn_minutes[t])
      PROVE  Bad(txn_rollups'[ToTenMinuteStart(t)])
  <2>1. DOMAIN txn_minutes = Times
    BY <1>2 DEF IsTable
  <2>2. ToTenMinuteStart(t) # b
    BY <1>1, <1>4, <2>1, InItsBlock DEF BlockReadable, Rows, Bad
  <2>3. txn_rollups'[ToTenMinuteStart(t)] = txn_rollups[ToTenMinuteStart(t)]
    BY <1>1, <1>2, <2>2, InItsBlock DEF IsTable
  <2> QED
    BY <1>2, <1>4, <2>3 DEF Marked
<1>5. Marked(txn_minutes, txn_rollups)'
  BY <1>1, <1>4 DEF Marked
<1>6. Prepared'
  BY <1>1, <1>2, <1>3, <1>5 DEF Prepared
<1>7. Stored' /\ ReadGood'
  BY <1>1, ReaderRests DEF ReadInv, Stored, NoNewBad
<1> QED
  BY <1>6, <1>7 DEF ReadInv

LEMMA CommitRead ==
  ASSUME ReadInv, Commit
  PROVE  ReadInv'
<1>1. /\ UNCHANGED <<reader, query>> /\ writer # "idle" /\ EndTransaction
      /\ minute_buckets' = txn_minutes /\ rollup_10m' = txn_rollups
  BY DEF Commit, reads
<1>2. Stored' /\ ReadGood'
  BY <1>1, ReaderRests DEF ReadInv, Stored, Prepared
<1> QED
  BY <1>1, <1>2, EndTransactionPrepared DEF ReadInv

LEMMA RollbackRead ==
  ASSUME ReadInv, FailSave \/ RefuseBlock
  PROVE  ReadInv'
<1>1. UNCHANGED <<reader, query, minute_buckets, rollup_10m>> /\ EndTransaction
  BY DEF FailSave, RefuseBlock, DropWrites, reads
<1>2. Stored' /\ ReadGood'
  BY <1>1, ReaderRests DEF ReadInv, Stored, NoNewBad
<1> QED
  BY <1>1, <1>2, EndTransactionPrepared DEF ReadInv

\* The query.
LEMMA WriterRests ==
  ASSUME Stored, Prepared, UNCHANGED <<minute_buckets, rollup_10m>>, UNCHANGED txn
  PROVE  Stored' /\ Prepared'
  BY DEF Stored, Prepared, txn

\* A SELECT on the minutes refuses unsupported ones; one on the rollups sees by the
\* rollups that there are any in their blocks.
LEMMA PartIsGood ==
  ASSUME Stored, IsRange, query.function = "QueryAggregate",
         NEW from \in Int, NEW to \in Int,
         \/ Readable(minute_buckets, from, to)
         \/ /\ Readable(rollup_10m, from, to)
            /\ from < to => IsMultiple(from, BlockLen) /\ IsMultiple(to, BlockLen)
  PROVE  \A t \in Times : from <= t /\ t < to => ~Bad(minute_buckets[t])
<1> SUFFICES ASSUME NEW t \in Times, from <= t, t < to, Bad(minute_buckets[t])
             PROVE  FALSE
  OBVIOUS
<1> DEFINE b == ToTenMinuteStart(t)
<1>1. t \in Int /\ b \in Int /\ b \in Blocks /\ b <= t
  BY InItsBlock
<1>2. DOMAIN minute_buckets = Times /\ DOMAIN rollup_10m = Blocks
  BY DEF Stored, IsTable
<1>3. CASE Readable(minute_buckets, from, to)
  BY <1>2, <1>3 DEF Readable, Rows, Bad
<1>4. CASE /\ Readable(rollup_10m, from, to)
           /\ from < to => IsMultiple(from, BlockLen)
  <2>1. from <= b
    BY <1>1, <1>4, BlockAfterBoundary
  <2>2. b < to
    BY <1>1
  <2>3. Bad(rollup_10m[b])
    BY DEF Stored, Marked
  <2>4. b \in Rows(rollup_10m, from, to)
    BY <1>1, <1>2, <2>1, <2>2, <2>3 DEF Rows, Bad
  <2> QED
    BY <1>4, <2>3, <2>4 DEF Readable, Bad
<1> QED
  BY <1>3, <1>4

LEMMA SelectRead ==
  ASSUME ReadInv, ReadHead \/ ReadRollups \/ ReadTail
  PROVE  ReadInv'
<1>1. /\ UNCHANGED <<minute_buckets, rollup_10m, query>> /\ UNCHANGED txn
      /\ reader # "idle"
  BY DEF ReadHead, ReadRollups, ReadTail, Select, file
<1>2. IsRange /\ IsRange' /\ First' = First /\ Last' = Last
  BY <1>1 DEF ReadInv, ReadGood, IsRange, First, Last
<1>3. /\ First \in Int /\ Last \in Int
      /\ query.start <= First /\ First <= Last /\ Last <= query.end
      /\ First < Last => IsMultiple(First, BlockLen) /\ IsMultiple(Last, BlockLen)
      /\ query.start \in Int /\ query.end \in Int
  BY <1>2, RangeFacts DEF IsRange
<1>4. \A t \in Times : t \in Int
  BY StoreAssumption
<1>5. ASSUME NEW from \in Int, NEW to \in Int, ReadTo = from, ReadTo' = to,
             \/ Readable(minute_buckets, from, to)
             \/ /\ Readable(rollup_10m, from, to)
                /\ from < to => IsMultiple(from, BlockLen) /\ IsMultiple(to, BlockLen),
             reader' \in {"rollups", "tail", "answered"}
      PROVE  ReadGood'
  <2>1. ASSUME query.function = "QueryAggregate", NEW t \in Times,
               query.start <= t, t < to
        PROVE  ~Bad(minute_buckets[t])
    <3>1. CASE t < from
      BY <1>1, <1>5, <2>1, <3>1 DEF ReadInv, ReadGood
    <3>2. CASE from <= t
      BY <1>2, <1>5, <2>1, <3>2, PartIsGood DEF ReadInv
    <3> QED
      BY <1>4, <3>1, <3>2
  <2> QED
    BY <1>1, <1>2, <1>5, <2>1 DEF ReadGood
<1>6. CASE ReadHead
  <2>1. /\ reader = "head" /\ reader' = "rollups"
        /\ Readable(minute_buckets, query.start, First)
    BY <1>6 DEF ReadHead, Select
  <2>2. ReadTo = query.start /\ ReadTo' = First
    BY <1>2, <2>1 DEF ReadTo
  <2> QED
    BY <1>1, <1>3, <1>5, <2>1, <2>2, WriterRests DEF ReadInv
<1>7. CASE ReadRollups
  <2>1. /\ reader = "rollups" /\ reader' = "tail" /\ Readable(rollup_10m, First, Last)
    BY <1>7 DEF ReadRollups, Select
  <2>2. ReadTo = First /\ ReadTo' = Last
    BY <1>2, <2>1 DEF ReadTo
  <2> QED
    BY <1>1, <1>3, <1>5, <2>1, <2>2, WriterRests DEF ReadInv
<1>8. CASE ReadTail
  <2>1. /\ reader = "tail" /\ reader' = "answered"
        /\ Readable(minute_buckets, Last, query.end)
    BY <1>8 DEF ReadTail, Select
  <2>2. ReadTo = Last /\ ReadTo' = query.end
    BY <1>1, <1>2, <2>1 DEF ReadTo
  <2> QED
    BY <1>1, <1>3, <1>5, <2>1, <2>2, WriterRests DEF ReadInv
<1> QED
  BY <1>6, <1>7, <1>8

LEMMA StartQueryRead ==
  ASSUME ReadInv, NEW function, NEW start \in Times, NEW end \in {t + 1 : t \in Times},
         StartQuery(function, start, end)
  PROVE  ReadInv'
<1>1. /\ UNCHANGED <<minute_buckets, rollup_10m>> /\ UNCHANGED txn
      /\ reader' = "head" /\ query'.start = start /\ query'.end = end /\ start < end
  BY DEF StartQuery, file
<1>2. start \in Int /\ end \in Int /\ \A t \in Times : t \in Int
  BY StoreAssumption
<1>3. ReadGood'
  BY <1>1, <1>2 DEF ReadGood, ReadTo, IsRange
<1> QED
  BY <1>1, <1>3, WriterRests DEF ReadInv

LEMMA StepRead == ReadInv /\ [Next]_vars => ReadInv'
<1> SUFFICES ASSUME ReadInv, [Next]_vars
             PROVE  ReadInv'
  OBVIOUS
<1>1. CASE RefuseFile \/ Initialize \/ CreateTable \/ SetSchemaVersion \/ UNCHANGED vars
  <2>1. UNCHANGED <<minute_buckets, rollup_10m, reader, query>> /\ UNCHANGED txn
    BY <1>1 DEF RefuseFile, Initialize, CreateTable, SetSchemaVersion, vars, file, reads
  <2> QED
    BY <2>1, WriterRests, ReaderRests DEF ReadInv, NoNewBad
<1>2. ASSUME NEW m \in Times, NEW c \in [Keys -> 0 .. MaxRowCount], Begin(m, c)
      PROVE  ReadInv'
  BY <1>2, BeginRead
<1>3. CASE InsertMinute
  BY <1>3, InsertRead
<1>4. CASE RebuildTenMinuteRollup
  BY <1>4, RebuildRead
<1>5. CASE Commit
  BY <1>5, CommitRead
<1>6. CASE FailSave \/ RefuseBlock
  BY <1>6, RollbackRead
<1>7. ASSUME NEW function \in {"QueryAggregate", "QueryTenMinuteTotals"},
             NEW start \in Times, NEW end \in {t + 1 : t \in Times},
             StartQuery(function, start, end)
      PROVE  ReadInv'
  BY <1>7, StartQueryRead
<1>8. CASE ReadHead \/ ReadRollups \/ ReadTail
  BY <1>8, SelectRead
<1>9. CASE QueryThrows \/ Return
  <2>1. UNCHANGED <<minute_buckets, rollup_10m>> /\ UNCHANGED txn /\ EndQuery
    BY <1>9 DEF QueryThrows, SelectThrows, Return, file
  <2> QED
    BY <2>1, WriterRests, EndQueryRead DEF ReadInv
<1>10. CASE Exit
  <2>1. UNCHANGED <<minute_buckets, rollup_10m>> /\ EndTransaction /\ EndQuery
    BY <1>10 DEF Exit, file
  <2> QED
    BY <2>1, EndQueryRead, EndTransactionPrepared DEF ReadInv, Stored
<1> QED
  BY <1>1, <1>2, <1>3, <1>4, <1>5, <1>6, <1>7, <1>8, <1>9, <1>10 DEF Next

\* No answer of QueryAggregate has counted a minute of an unsupported key map
\* version, neither from its row nor through a rollup, although the save thread
\* rebuilds rollups between its SELECTs: a rollup is never rebuilt over such a row.
THEOREM AnswersAreReadable == Spec => []AnswerReadable
<1>1. ReadInv => AnswerReadable
  <2> SUFFICES ASSUME ReadInv, reader = "answered", query.function = "QueryAggregate",
                      NEW t \in Rows(minute_buckets, query.start, query.end)
               PROVE  Supported(minute_buckets[t])
    BY DEF AnswerReadable
  <2>1. ReadTo = query.end
    BY DEF ReadTo
  <2>2. t \in Times /\ query.start <= t /\ t < query.end /\ minute_buckets[t] # NoRow
    BY DEF Rows, ReadInv, Stored, IsTable
  <2> QED
    BY <2>1, <2>2 DEF ReadInv, ReadGood, Bad
<1> QED
  BY <1>1, InitRead, StepRead, PTL DEF Spec

\* A table of rows, one for each element of S at most.
TableOf(S) == [S -> Row \cup {NoRow}]

\* The elements of S in [from, to).
Span(S, from, to) == {t \in S : from <= t /\ t < to}

\* Sums are over finite sets of integers.
LEMMA TimesAreFinite ==
  /\ IsFiniteSet(Times) /\ IsFiniteSet(Blocks) /\ IsFiniteSet(Keys)
  /\ Times \subseteq Int /\ Blocks \subseteq Int
<1>1. IsFiniteSet(Blocks)
  <2> DEFINE f == [m \in Times |-> ToTenMinuteStart(m)]
  <2>1. f \in Surjection(Times, Blocks)
    BY DEF Surjection, Blocks
  <2> QED
    BY <2>1, StoreAssumption, FS_Surjection
<1>2. Blocks \subseteq Int
  BY InItsBlock DEF Blocks
<1> QED
  BY <1>1, <1>2, StoreAssumption

\* Totals and counts are naturals, of rows that are there and of those that are not.
LEMMA TotalIsSum ==
  ASSUME NEW c, DOMAIN c = Keys
  PROVE  Total(c) = SumFunctionOnSet(c, Keys)
  BY DEF Total, SumFunction

LEMMA CountsAreNat ==
  /\ MaxCount \in Nat
  /\ \A c \in Counts : c \in [Keys -> Nat] /\ DOMAIN c = Keys
  /\ Zero \in Counts
  BY StoreAssumption DEF Counts, Zero

LEMMA TotalIsNat ==
  ASSUME NEW c \in [Keys -> Nat]
  PROVE  Total(c) \in Nat
<1>1. NatOn(c, Keys) /\ DOMAIN c = Keys
  BY DEF NatOn
<1> QED
  BY <1>1, TimesAreFinite, TotalIsSum, SumStarts

LEMMA RowTypes ==
  ASSUME NEW row \in Row \cup {NoRow}
  PROVE  /\ row.counts \in Counts
         /\ row.total_count \in Nat
         /\ \A k \in Keys : row.counts[k] \in Nat
<1>1. row.counts \in Counts /\ row.total_count \in Nat
  BY CountsAreNat DEF Row, NoRow
<1> QED
  BY <1>1, CountsAreNat

LEMMA NewRowIsRow ==
  ASSUME NEW c \in Counts
  PROVE  NewRow(c) \in Row /\ NewRow(c) # NoRow
<1>1. Total(c) \in Nat
  BY CountsAreNat, TotalIsNat
<1>2. KeyMapVersion \in 1 .. NewestKeyMap /\ KeyMapVersion # 0
  BY StoreAssumption DEF KeyMapVersion
<1>3. NewRow(c).keymap_version # 0 /\ NoRow.keymap_version = 0
  BY <1>2 DEF NewRow, NoRow
<1> QED
  BY <1>1, <1>2, <1>3 DEF NewRow, Row

\* The columns of a table.
LEMMA ColumnTypes ==
  ASSUME NEW S, IsFiniteSet(S), NEW table \in TableOf(S)
  PROVE  /\ \A k \in Keys : /\ NatOn(CountsOf(table, k), S)
                            /\ \A t \in S : CountsOf(table, k)[t] = table[t].counts[k]
         /\ NatOn(TotalsOf(table), S)
         /\ \A t \in S : TotalsOf(table)[t] = table[t].total_count
         /\ \A from, to : Rows(table, from, to) \subseteq Span(S, from, to)
<1>1. DOMAIN table = S /\ \A t \in S : table[t] \in Row \cup {NoRow}
  BY DEF TableOf
<1> QED
  BY <1>1, RowTypes DEF NatOn, CountsOf, TotalsOf, Rows, Span

\* A missing row counts nothing: a SELECT adds up the whole span it asks for.
LEMMA SumIsOverSpan ==
  ASSUME NEW S, IsFiniteSet(S), NEW table \in TableOf(S), NEW from, NEW to
  PROVE  /\ \A k \in Keys :
              Sum(table, from, to)[k]
                = SumFunctionOnSet(CountsOf(table, k), Span(S, from, to))
         /\ \A b : TotalIn(table, from, to, b)
                     = SumFunctionOnSet(TotalsOf(table),
                         {t \in Span(S, from, to) : ToTenMinuteStart(t) = b})
<1> DEFINE span == Span(S, from, to)
           rows == Rows(table, from, to)
<1>1. IsFiniteSet(span) /\ span \subseteq S
  BY FS_Subset DEF Span
<1>2. \A t \in span \ rows : table[t] = NoRow
  BY DEF Span, Rows, TableOf
<1>3. rows \subseteq span
  BY ColumnTypes
<1> HIDE DEF span, rows
<1>4. ASSUME NEW k \in Keys
      PROVE  Sum(table, from, to)[k] = SumFunctionOnSet(CountsOf(table, k), span)
  <2> DEFINE f == CountsOf(table, k)
  <2>1. NatOn(f, span)
    BY <1>1, ColumnTypes DEF NatOn
  <2>2. \A t \in span \ rows : f[t] = 0
    BY <1>1, <1>2, ColumnTypes DEF NoRow, Zero
  <2>3. SumFunctionOnSet(f, span) = SumFunctionOnSet(f, rows)
    <3> HIDE DEF f
    <3> QED
      BY <1>1, <1>3, <2>1, <2>2, SumOfZeros
  <2> QED
    BY <2>3 DEF Sum, rows
<1>5. ASSUME NEW b
      PROVE  TotalIn(table, from, to, b)
               = SumFunctionOnSet(TotalsOf(table), {t \in span : ToTenMinuteStart(t) = b})
  <2> DEFINE f  == TotalsOf(table)
             sb == {t \in span : ToTenMinuteStart(t) = b}
             rb == {t \in rows : ToTenMinuteStart(t) = b}
  <2>1. IsFiniteSet(sb) /\ NatOn(f, sb) /\ rb \subseteq sb
    BY <1>1, <1>3, ColumnTypes, FS_Subset DEF NatOn
  <2>2. \A t \in sb \ rb : f[t] = 0
    BY <1>1, <1>2, ColumnTypes DEF NoRow
  <2>3. SumFunctionOnSet(f, sb) = SumFunctionOnSet(f, rb)
    <3> HIDE DEF f, sb, rb
    <3> QED
      BY <2>1, <2>2, SumOfZeros
  <2> QED
    BY <2>3 DEF TotalIn, rows
<1> QED
  BY <1>4, <1>5 DEF span

\* Sums over part of a table are naturals.
LEMMA SumsAreNat ==
  ASSUME NEW S, IsFiniteSet(S), NEW table \in TableOf(S), NEW from, NEW to
  PROVE  /\ Sum(table, from, to) \in [Keys -> Nat]
         /\ \A b : TotalIn(table, from, to, b) \in Nat
<1>1. IsFiniteSet(Span(S, from, to)) /\ Span(S, from, to) \subseteq S
  BY FS_Subset DEF Span
<1>2. ASSUME NEW k \in Keys
      PROVE  Sum(table, from, to)[k] \in Nat
  <2>1. NatOn(CountsOf(table, k), Span(S, from, to))
    BY <1>1, ColumnTypes DEF NatOn
  <2> QED
    BY <1>1, <2>1, SumIsOverSpan, SumStarts
<1>3. ASSUME NEW b
      PROVE  TotalIn(table, from, to, b) \in Nat
  <2> DEFINE sb == {t \in Span(S, from, to) : ToTenMinuteStart(t) = b}
  <2>1. IsFiniteSet(sb) /\ NatOn(TotalsOf(table), sb)
    BY <1>1, ColumnTypes, FS_Subset DEF NatOn
  <2>2. SumFunctionOnSet(TotalsOf(table), sb) \in Nat
    <3> HIDE DEF sb
    <3> QED
      BY <2>1, SumStarts
  <2> QED
    BY <2>2, SumIsOverSpan
<1> QED
  BY <1>2, <1>3 DEF Sum

\* Two consecutive SELECTs add up to one.
LEMMA SumsAddUp ==
  ASSUME NEW table \in TableOf(Times),
         NEW from \in Int, NEW mid \in Int, NEW to \in Int, from <= mid, mid <= to
  PROVE  /\ \A k \in Keys :
              Sum(table, from, to)[k] = Sum(table, from, mid)[k] + Sum(table, mid, to)[k]
         /\ \A b : TotalIn(table, from, to, b)
                     = TotalIn(table, from, mid, b) + TotalIn(table, mid, to, b)
<1>0. IsFiniteSet(Times) /\ Times \subseteq Int
  BY TimesAreFinite
<1> DEFINE all == Span(Times, from, to)
           one == Span(Times, from, mid)
           two == Span(Times, mid, to)
<1>1. /\ all = one \cup two /\ one \cap two = {}
      /\ IsFiniteSet(one) /\ IsFiniteSet(two) /\ one \subseteq Times /\ two \subseteq Times
  <2>1. one \subseteq Times /\ two \subseteq Times
    BY DEF Span
  <2>2. ASSUME NEW t \in Times
        PROVE  /\ from <= t /\ t < to <=> (from <= t /\ t < mid) \/ (mid <= t /\ t < to)
               /\ ~(t < mid /\ mid <= t)
    <3>1. t \in Int
      BY <1>0
    <3> QED
      BY <3>1
  <2>3. all = one \cup two /\ one \cap two = {}
    BY <2>2 DEF Span
  <2> QED
    BY <2>1, <2>3, <1>0, FS_Subset
<1> HIDE DEF all, one, two
<1>2. ASSUME NEW k \in Keys
      PROVE  Sum(table, from, to)[k] = Sum(table, from, mid)[k] + Sum(table, mid, to)[k]
  <2> DEFINE f == CountsOf(table, k)
  <2>1. NatOn(f, one \cup two)
    BY <1>0, <1>1, ColumnTypes DEF NatOn
  <2>2. SumFunctionOnSet(f, all)
          = SumFunctionOnSet(f, one) + SumFunctionOnSet(f, two)
    <3> HIDE DEF f
    <3>1. SumFunctionOnSet(f, one \cup two)
            = SumFunctionOnSet(f, one) + SumFunctionOnSet(f, two)
      BY <1>1, <2>1, SumOfUnion
    <3> QED
      BY <1>1, <3>1
  <2> QED
    BY <1>0, <2>2, SumIsOverSpan DEF all, one, two
<1>3. ASSUME NEW b
      PROVE  TotalIn(table, from, to, b)
               = TotalIn(table, from, mid, b) + TotalIn(table, mid, to, b)
  <2> DEFINE f == TotalsOf(table)
             ofb(s) == {t \in s : ToTenMinuteStart(t) = b}
  <2>1. /\ ofb(all) = ofb(one) \cup ofb(two) /\ ofb(one) \cap ofb(two) = {}
        /\ IsFiniteSet(ofb(one)) /\ IsFiniteSet(ofb(two))
        /\ NatOn(f, ofb(one) \cup ofb(two))
    BY <1>0, <1>1, ColumnTypes, FS_Subset DEF NatOn
  <2>2. SumFunctionOnSet(f, ofb(all))
          = SumFunctionOnSet(f, ofb(one)) + SumFunctionOnSet(f, ofb(two))
    <3>1. SumFunctionOnSet(f, ofb(one) \cup ofb(two))
            = SumFunctionOnSet(f, ofb(one)) + SumFunctionOnSet(f, ofb(two))
      <4> HIDE DEF f, ofb
      <4> QED
        BY <2>1, SumOfUnion
    <3> QED
      BY <2>1, <3>1
  <2> QED
    BY <1>0, <2>2, SumIsOverSpan DEF all, one, two
<1> QED
  BY <1>2, <1>3

\* The column total_count is the sum of the row's counts.
TotalsRight(table) == \A t \in Times : table[t].total_count = Total(table[t].counts)

\* A table that has the same rows there has the same sums.
LEMMA SameRowsSameSums ==
  ASSUME NEW one \in TableOf(Times), NEW two \in TableOf(Times), NEW from, NEW to,
         \A t \in Span(Times, from, to) : one[t] = two[t]
  PROVE  /\ \A k \in Keys : Sum(one, from, to)[k] = Sum(two, from, to)[k]
         /\ \A b : TotalIn(one, from, to, b) = TotalIn(two, from, to, b)
<1> DEFINE span == Span(Times, from, to)
<1>1. IsFiniteSet(span) /\ span \subseteq Times /\ IsFiniteSet(Times)
  BY TimesAreFinite, FS_Subset DEF Span
<1>2. \A t \in span : one[t] = two[t]
  OBVIOUS
<1> HIDE DEF span
<1>3. ASSUME NEW k \in Keys
      PROVE  Sum(one, from, to)[k] = Sum(two, from, to)[k]
  <2> DEFINE f == CountsOf(one, k)
             g == CountsOf(two, k)
  <2>1. NatOn(f, span) /\ NatOn(g, span) /\ \A t \in span : f[t] = g[t]
    BY <1>1, <1>2, ColumnTypes DEF NatOn
  <2>2. SumFunctionOnSet(f, span) = SumFunctionOnSet(g, span)
    <3> HIDE DEF f, g
    <3> QED
      BY <1>1, <2>1, SumSame
  <2> QED
    BY <1>1, <2>2, SumIsOverSpan DEF span
<1>4. ASSUME NEW b
      PROVE  TotalIn(one, from, to, b) = TotalIn(two, from, to, b)
  <2> DEFINE f  == TotalsOf(one)
             g  == TotalsOf(two)
             sb == {t \in span : ToTenMinuteStart(t) = b}
  <2>1. IsFiniteSet(sb) /\ NatOn(f, sb) /\ NatOn(g, sb)
    BY <1>1, ColumnTypes, FS_Subset DEF NatOn
  <2>2. \A t \in sb : f[t] = g[t]
    BY <1>1, <1>2, ColumnTypes
  <2>3. SumFunctionOnSet(f, sb) = SumFunctionOnSet(g, sb)
    <3> HIDE DEF f, g, sb
    <3> QED
      BY <2>1, <2>2, SumSame
  <2> QED
    BY <1>1, <2>3, SumIsOverSpan DEF span
<1> QED
  BY <1>3, <1>4

-----------------------------------------------------------------------------
(* A rollup stands for the minutes of its block. *)
\* Between two multiples there is a whole block, or nothing.
LEMMA MultiplesApart ==
  ASSUME NEW x \in Int, NEW y \in Int, IsMultiple(x, BlockLen), IsMultiple(y, BlockLen),
         x < y + BlockLen
  PROVE  x <= y
<1>1. BlockLen \in Nat \ {0}
  BY StoreAssumption
<1>2. PICK p \in Int : x = p * BlockLen
  BY DEF IsMultiple
<1>3. PICK q \in Int : y = q * BlockLen
  BY DEF IsMultiple
<1>4. CASE p <= q
  <2>1. (q - p) * BlockLen >= 0
    BY <1>1, <1>4
  <2>2. (q - p) * BlockLen = q * BlockLen - p * BlockLen
    BY <1>1
  <2> QED
    BY <1>2, <1>3, <2>1, <2>2
<1>5. CASE p > q
  <2>1. (p - q - 1) * BlockLen >= 0
    BY <1>1, <1>5
  <2>2. (p - q - 1) * BlockLen = p * BlockLen - q * BlockLen - BlockLen
    BY <1>1
  <2>3. FALSE
    BY <1>1, <1>2, <1>3, <2>1, <2>2
  <2> QED
    BY <2>3
<1> QED
  BY <1>4, <1>5

\* The start of a block is in the block.
LEMMA BlockFacts ==
  ASSUME NEW b \in Blocks
  PROVE  /\ b \in Int /\ b + BlockLen \in Int /\ b < b + BlockLen
         /\ IsMultiple(b, BlockLen)
         /\ ToTenMinuteStart(b) = b
<1>1. b \in Int /\ IsMultiple(b, BlockLen) /\ BlockLen \in Nat \ {0}
  BY InItsBlock, StoreAssumption DEF Blocks
<1> DEFINE d == ToTenMinuteStart(b)
<1>2. d \in Int /\ d <= b /\ b < d + BlockLen /\ IsMultiple(d, BlockLen)
  BY <1>1, AlignDownIsFloor DEF ToTenMinuteStart
<1> HIDE DEF d
<1>3. b <= d
  BY <1>1, <1>2, MultiplesApart
<1> QED
  BY <1>1, <1>2, <1>3 DEF d

\* The minutes of a block, as RebuildTenMinuteRollup asks for them.
LEMMA MinutesOfBlock ==
  ASSUME NEW t \in Times, NEW b \in Blocks
  PROVE  b <= t /\ t < b + BlockLen <=> ToTenMinuteStart(t) = b
<1> DEFINE c == ToTenMinuteStart(t)
<1>1. /\ t \in Int /\ c \in Int /\ c <= t /\ t < c + BlockLen /\ IsMultiple(c, BlockLen)
  BY InItsBlock
<1>2. b \in Int /\ IsMultiple(b, BlockLen) /\ BlockLen \in Int
  BY BlockFacts, StoreAssumption
<1> HIDE DEF c
<1>3. ASSUME b <= t, t < b + BlockLen
      PROVE  c = b
  <2>1. b < c + BlockLen /\ c < b + BlockLen
    BY <1>1, <1>2, <1>3
  <2>2. b <= c /\ c <= b
    BY <1>1, <1>2, <2>1, MultiplesApart
  <2> QED
    BY <1>1, <1>2, <2>2
<1> QED
  BY <1>1, <1>3 DEF c

\* Whole blocks: a minute lies in them if its block does.
LEMMA WholeBlocks ==
  ASSUME NEW from \in Int, NEW to \in Int,
         IsMultiple(from, BlockLen), IsMultiple(to, BlockLen), NEW t \in Times
  PROVE  from <= t /\ t < to <=> from <= ToTenMinuteStart(t) /\ ToTenMinuteStart(t) < to
<1> DEFINE c == ToTenMinuteStart(t)
<1>1. /\ t \in Int /\ c \in Int /\ c <= t /\ t < c + BlockLen /\ IsMultiple(c, BlockLen)
      /\ BlockLen \in Int
  BY InItsBlock, StoreAssumption
<1> HIDE DEF c
<1>2. ASSUME from <= t
      PROVE  from <= c
  <2>1. from < c + BlockLen
    BY <1>1, <1>2
  <2> QED
    BY <1>1, <2>1, MultiplesApart
<1>3. ASSUME c < to
      PROVE  t < to
  <2>1. to < c + BlockLen => to <= c
    BY <1>1, MultiplesApart
  <2> QED
    BY <1>1, <1>3, <2>1
<1> QED
  BY <1>1, <1>2, <1>3 DEF c

\* The presses of a block, by key and by minute, are the same.
LEMMA BlockTotal ==
  ASSUME NEW minutes \in TableOf(Times), TotalsRight(minutes), NEW b \in Blocks
  PROVE  Total(BlockSum(minutes, b))
           = SumFunctionOnSet(TotalsOf(minutes), Span(Times, b, b + BlockLen))
<1> DEFINE T  == Span(Times, b, b + BlockLen)
           f  == [k \in Keys |-> CountsOf(minutes, k)]
           byKey == [k \in Keys |-> SumFunctionOnSet(f[k], T)]
           ofKeys(t) == [k \in Keys |-> f[k][t]]
           byMinute == [t \in T |-> SumFunctionOnSet(ofKeys(t), Keys)]
           g  == TotalsOf(minutes)
<1>1. IsFiniteSet(T) /\ T \subseteq Times /\ IsFiniteSet(Times) /\ IsFiniteSet(Keys)
  BY TimesAreFinite, FS_Subset DEF Span
<1>2. \A k \in Keys, t \in T : f[k][t] = minutes[t].counts[k] /\ f[k][t] \in Nat
  BY <1>1, ColumnTypes DEF NatOn
<1>3. SumFunctionOnSet(byKey, Keys) = SumFunctionOnSet(byMinute, T)
  <2> HIDE DEF f, T
  <2> QED
    BY <1>1, <1>2, SumSwap
<1>4. Total(BlockSum(minutes, b)) = SumFunctionOnSet(byKey, Keys)
  <2>1. BlockSum(minutes, b) = byKey
    <3>1. \A k \in Keys : Sum(minutes, b, b + BlockLen)[k]
                            = SumFunctionOnSet(CountsOf(minutes, k), T)
      BY <1>1, SumIsOverSpan
    <3>2. BlockSum(minutes, b) = [k \in Keys |-> BlockSum(minutes, b)[k]]
      BY DEF BlockSum, Sum
    <3> HIDE DEF T
    <3> QED
      BY <3>1, <3>2 DEF BlockSum
  <2>2. DOMAIN byKey = Keys
    OBVIOUS
  <2> HIDE DEF byKey
  <2> QED
    BY <2>1, <2>2, TotalIsSum
<1>5. SumFunctionOnSet(g, T) = SumFunctionOnSet(byMinute, T)
  <2>1. \A t \in T : g[t] = byMinute[t]
    <3> TAKE t \in T
    <3>1. minutes[t].counts \in Counts
      BY <1>1, RowTypes DEF TableOf
    <3>2. ofKeys(t) = minutes[t].counts
      <4>1. minutes[t].counts = [k \in Keys |-> minutes[t].counts[k]]
        BY <3>1 DEF Counts
      <4> HIDE DEF f
      <4> QED
        BY <1>2, <4>1
    <3>3. g[t] = Total(minutes[t].counts)
      BY <1>1, ColumnTypes DEF TotalsRight
    <3>4. Total(minutes[t].counts) = SumFunctionOnSet(minutes[t].counts, Keys)
      BY <3>1, CountsAreNat, TotalIsSum
    <3> QED
      BY <3>2, <3>3, <3>4
  <2>2. NatOn(g, T)
    BY <1>1, ColumnTypes DEF NatOn
  <2> HIDE DEF g, byMinute, T
  <2> QED
    BY <1>1, <2>1, <2>2, SumSame
<1> QED
  BY <1>3, <1>4, <1>5

\* No rollup is cut off at 32 bits.
Fits(minutes) == \A b \in Blocks, k \in Keys : BlockSum(minutes, b)[k] <= MaxCount

\* A rollup, read instead of the minutes of its block, adds what they would.
LEMMA RollupsAddUp ==
  ASSUME minute_buckets \in TableOf(Times), rollup_10m \in TableOf(Blocks),
         RollupsExact, TotalsRight(minute_buckets), Fits(minute_buckets),
         NEW from \in Int, NEW to \in Int,
         IsMultiple(from, BlockLen), IsMultiple(to, BlockLen)
  PROVE  /\ \A k \in Keys :
              Sum(rollup_10m, from, to)[k] = Sum(minute_buckets, from, to)[k]
         /\ \A b \in Blocks :
              TotalIn(rollup_10m, from, to, b) = TotalIn(minute_buckets, from, to, b)
<1> DEFINE T == Span(Times, from, to)
           B == Span(Blocks, from, to)
           c == [t \in Times |-> ToTenMinuteStart(t)]
<1>1. /\ IsFiniteSet(T) /\ T \subseteq Times /\ IsFiniteSet(Times)
      /\ IsFiniteSet(B) /\ B \subseteq Blocks /\ IsFiniteSet(Blocks) /\ IsFiniteSet(Keys)
  BY TimesAreFinite, FS_Subset DEF Span
<1>2. \A t \in T : c[t] \in B
  BY InItsBlock, WholeBlocks DEF Span
<1>3. ASSUME NEW b \in B
      PROVE  {t \in T : c[t] = b} = Span(Times, b, b + BlockLen)
  <2>1. from <= b /\ b < to
    BY DEF Span
  <2>2. \A t \in Times : c[t] = b => t \in T
    BY <2>1, WholeBlocks DEF Span
  <2>3. \A t \in Times : c[t] = b <=> b <= t /\ t < b + BlockLen
    BY <1>1, MinutesOfBlock
  <2> QED
    BY <1>1, <2>2, <2>3 DEF Span
<1>4. \A b \in Blocks, k \in Keys :
        rollup_10m[b].counts[k] = BlockSum(minute_buckets, b)[k]
  BY DEF RollupsExact, Fits
<1>5. ASSUME NEW k \in Keys
      PROVE  Sum(rollup_10m, from, to)[k] = Sum(minute_buckets, from, to)[k]
  <2> DEFINE f == CountsOf(minute_buckets, k)
             g == CountsOf(rollup_10m, k)
             parts == [b \in B |-> SumFunctionOnSet(f, {t \in T : c[t] = b})]
  <2>1. NatOn(f, T) /\ NatOn(g, B)
    BY <1>1, ColumnTypes DEF NatOn
  <2>2. SumFunctionOnSet(f, T) = SumFunctionOnSet(parts, B)
    <3> HIDE DEF f, T, B, c
    <3> QED
      BY <1>1, <1>2, <2>1, SumByClass
  <2>3. \A b \in B : g[b] = parts[b]
    <3> TAKE b \in B
    <3>1. parts[b] = SumFunctionOnSet(f, Span(Times, b, b + BlockLen))
      BY <1>3
    <3>2. BlockSum(minute_buckets, b)[k] = SumFunctionOnSet(f, Span(Times, b, b + BlockLen))
      BY <1>1, SumIsOverSpan DEF BlockSum
    <3>3. g[b] = rollup_10m[b].counts[k]
      BY <1>1, ColumnTypes
    <3> QED
      BY <1>1, <1>4, <3>1, <3>2, <3>3
  <2>4. SumFunctionOnSet(g, B) = SumFunctionOnSet(parts, B)
    <3> HIDE DEF g, B, parts
    <3> QED
      BY <1>1, <2>1, <2>3, SumSame
  <2> HIDE DEF parts
  <2> QED
    BY <1>1, <2>2, <2>4, SumIsOverSpan
<1>6. ASSUME NEW b \in Blocks
      PROVE  TotalIn(rollup_10m, from, to, b) = TotalIn(minute_buckets, from, to, b)
  <2> DEFINE f  == TotalsOf(minute_buckets)
             g  == TotalsOf(rollup_10m)
             tb == {t \in T : ToTenMinuteStart(t) = b}
             bb == {r \in B : ToTenMinuteStart(r) = b}
  <2>1. /\ TotalIn(rollup_10m, from, to, b) = SumFunctionOnSet(g, bb)
        /\ TotalIn(minute_buckets, from, to, b) = SumFunctionOnSet(f, tb)
    BY <1>1, SumIsOverSpan
  <2>2. \A r \in B : ToTenMinuteStart(r) = r
    BY <1>1, BlockFacts
  <2>3. CASE b \in B
    <3>1. bb = {b}
      BY <2>2, <2>3
    <3>2. tb = Span(Times, b, b + BlockLen)
      BY <1>1, <1>3, <2>3
    <3>3. g[b] = rollup_10m[b].total_count /\ g[b] \in Nat
      BY <1>1, ColumnTypes DEF NatOn
    <3>4. SumFunctionOnSet(g, bb) = g[b]
      <4> HIDE DEF g
      <4> QED
        BY <3>1, <3>3, SumOfOne
    <3>5. rollup_10m[b].total_count = Total(rollup_10m[b].counts)
      BY DEF RollupsExact
    <3>6. rollup_10m[b].counts = BlockSum(minute_buckets, b)
      <4>1. rollup_10m[b].counts \in Counts
        BY RowTypes DEF TableOf
      <4>2. rollup_10m[b].counts = [k \in Keys |-> rollup_10m[b].counts[k]]
        BY <4>1 DEF Counts
      <4>3. BlockSum(minute_buckets, b) = [k \in Keys |-> BlockSum(minute_buckets, b)[k]]
        BY DEF BlockSum, Sum
      <4> QED
        BY <1>4, <4>2, <4>3
    <3>7. Total(BlockSum(minute_buckets, b)) = SumFunctionOnSet(f, Span(Times, b, b + BlockLen))
      BY BlockTotal
    <3> HIDE DEF f, g, tb, bb
    <3> QED
      BY <2>1, <3>2, <3>3, <3>4, <3>5, <3>6, <3>7
  <2>4. CASE b \notin B
    <3>1. bb = {}
      BY <2>2, <2>4
    <3>2. tb = {}
      BY <1>2, <1>1, <2>4
    <3> QED
      BY <2>1, <3>1, <3>2, SumOfNone
  <2> QED
    BY <2>3, <2>4
<1> QED
  BY <1>5, <1>6

-----------------------------------------------------------------------------
(* Rollups are exact, statement by statement. *)
\* RollupsExact, of any two tables.
Exact(minutes, rollups) ==
  \A b \in Blocks :
    /\ rollups[b] = NoRow <=> Rows(minutes, b, b + BlockLen) = {}
    /\ rollups[b].total_count = Total(rollups[b].counts)
    /\ \A k \in Keys : BlockSum(minutes, b)[k] <= MaxCount =>
         rollups[b].counts[k] = BlockSum(minutes, b)[k]

\* The transaction, statement by statement, from the committed tables.
Transacting ==
  writer # "idle" =>
    LET m == snapshot.minute
        b == ToTenMinuteStart(m) IN
    /\ writer = "begun" => txn_minutes = minute_buckets
    /\ writer # "begun" =>
         txn_minutes = [minute_buckets EXCEPT ![m] = NewRow(snapshot.counts)]
    /\ writer # "rebuilt" => txn_rollups = rollup_10m
    /\ writer = "rebuilt" =>
         txn_rollups = [rollup_10m EXCEPT ![b] = Rollup(txn_minutes, b)]

\* The type invariant in four parts: file, tables, transaction, query.
FileTyped ==
  /\ user_version \in 0 .. 2
  /\ tables \in 0 .. Cardinality(Schema)
  /\ phase \in {"closed", "creating", "open", "refused"}

TablesTyped ==
  /\ minute_buckets \in TableOf(Times)
  /\ rollup_10m \in TableOf(Blocks)

TxnTyped ==
  /\ writer \in {"idle", "begun", "inserted", "rebuilt"}
  /\ writer # "idle" => /\ snapshot \in [minute : Times, counts : Counts]
                        /\ txn_minutes \in TableOf(Times)
                        /\ txn_rollups \in TableOf(Blocks)

ReaderTyped ==
  /\ reader \in {"idle", "head", "rollups", "tail", "answered"}
  /\ answer \in [counts : [Keys -> Nat], series : [Blocks -> Nat]]

LEMMA TypeParts == TypeOK <=> FileTyped /\ TablesTyped /\ TxnTyped /\ ReaderTyped
  BY DEF TypeOK, FileTyped, TablesTyped, TxnTyped, ReaderTyped, TableOf

\* The tables, and what the transaction under way will make of them.
StoreInv == TablesTyped /\ TxnTyped /\ Transacting /\ TotalsRight(minute_buckets)
            /\ RollupsExact

LEMMA SameRollups == RollupsExact <=> Exact(minute_buckets, rollup_10m)
  BY DEF RollupsExact, Exact

\* What RebuildTenMinuteRollup writes.
LEMMA RollupFacts ==
  ASSUME NEW minutes \in TableOf(Times), NEW b \in Blocks
  PROVE  /\ Rollup(minutes, b) \in Row /\ Rollup(minutes, b) # NoRow
         /\ Rollup(minutes, b).total_count = Total(Rollup(minutes, b).counts)
         /\ \A k \in Keys : BlockSum(minutes, b)[k] <= MaxCount =>
              Rollup(minutes, b).counts[k] = BlockSum(minutes, b)[k]
<1> DEFINE c == [k \in Keys |-> BlockSum(minutes, b)[k] % (MaxCount + 1)]
<1>1. \A k \in Keys : BlockSum(minutes, b)[k] \in Nat
  BY SumsAreNat, TimesAreFinite DEF BlockSum
<1>2. ASSUME NEW n \in Nat
      PROVE  n % (MaxCount + 1) \in 0 .. MaxCount /\ (n <= MaxCount => n % (MaxCount + 1) = n)
  <2> DEFINE d == MaxCount + 1
  <2>1. d \in Nat \ {0} /\ MaxCount \in Nat /\ MaxCount = d - 1
    BY StoreAssumption
  <2> HIDE DEF d
  <2>2. n % d \in 0 .. d - 1 /\ (n <= d - 1 => n % d = n)
    BY <2>1
  <2> QED
    BY <2>1, <2>2 DEF d
<1>3. c \in Counts
  BY <1>1, <1>2 DEF Counts
<1>4. \A k \in Keys : BlockSum(minutes, b)[k] <= MaxCount => c[k] = BlockSum(minutes, b)[k]
  BY <1>1, <1>2
<1>5. Rollup(minutes, b) = NewRow(c)
  BY DEF Rollup
<1> HIDE DEF c
<1> QED
  BY <1>3, <1>4, <1>5, NewRowIsRow DEF NewRow

\* The upsert of a minute and the rebuilding of its rollup keep the tables exact.
LEMMA RebuiltIsExact ==
  ASSUME NEW minutes \in TableOf(Times), NEW rollups \in TableOf(Blocks),
         Exact(minutes, rollups), NEW m \in Times, NEW c \in Counts,
         NEW minutes2, minutes2 = [minutes EXCEPT ![m] = NewRow(c)],
         NEW rollups2, rollups2 = [rollups EXCEPT ![ToTenMinuteStart(m)]
                                     = Rollup(minutes2, ToTenMinuteStart(m))]
  PROVE  /\ minutes2 \in TableOf(Times) /\ rollups2 \in TableOf(Blocks)
         /\ Exact(minutes2, rollups2)
<1> DEFINE b == ToTenMinuteStart(m)
<1>1. b \in Blocks
  BY InItsBlock
<1>2. minutes2 \in TableOf(Times) /\ \A t \in Times : t # m => minutes2[t] = minutes[t]
  BY NewRowIsRow DEF TableOf
<1>3. minutes2[m] = NewRow(c) /\ minutes2[m] # NoRow
  BY NewRowIsRow DEF TableOf
<1>4. /\ rollups2 \in TableOf(Blocks) /\ rollups2[b] = Rollup(minutes2, b)
      /\ \A r \in Blocks : r # b => rollups2[r] = rollups[r]
  BY <1>1, <1>2, RollupFacts DEF TableOf
<1>5. ASSUME NEW r \in Blocks
      PROVE  /\ rollups2[r] = NoRow <=> Rows(minutes2, r, r + BlockLen) = {}
             /\ rollups2[r].total_count = Total(rollups2[r].counts)
             /\ \A k \in Keys : BlockSum(minutes2, r)[k] <= MaxCount =>
                  rollups2[r].counts[k] = BlockSum(minutes2, r)[k]
  <2>1. CASE r = b
    <3>1. m \in Rows(minutes2, b, b + BlockLen)
      <4>1. b <= m /\ m < b + BlockLen /\ m \in DOMAIN minutes2
        BY <1>2, InItsBlock DEF TableOf
      <4> QED
        BY <1>3, <4>1 DEF Rows
    <3>2. rollups2[r] = Rollup(minutes2, r)
      BY <1>4, <2>1
    <3>3. Rows(minutes2, r, r + BlockLen) # {}
      BY <2>1, <3>1
    <3>4. /\ Rollup(minutes2, r) # NoRow
          /\ Rollup(minutes2, r).total_count = Total(Rollup(minutes2, r).counts)
          /\ \A k \in Keys : BlockSum(minutes2, r)[k] <= MaxCount =>
               Rollup(minutes2, r).counts[k] = BlockSum(minutes2, r)[k]
      BY <1>2, RollupFacts
    <3> QED
      BY <3>2, <3>3, <3>4
  <2>2. CASE r # b
    <3> DEFINE rows == Rows(minutes, r, r + BlockLen)
    <3>1. Rows(minutes2, r, r + BlockLen) = rows /\ m \notin rows /\ rows \subseteq Times
      <4>1. ~(r <= m /\ m < r + BlockLen)
        BY <2>2, MinutesOfBlock
      <4>2. DOMAIN minutes = Times /\ DOMAIN minutes2 = Times
        BY <1>2 DEF TableOf
      <4> QED
        BY <1>2, <4>1, <4>2 DEF Rows
    <3>2. ASSUME NEW k \in Keys
          PROVE  BlockSum(minutes2, r)[k] = BlockSum(minutes, r)[k]
      <4> DEFINE f == CountsOf(minutes, k)
                 g == CountsOf(minutes2, k)
      <4>1. IsFiniteSet(rows) /\ NatOn(f, rows)
        BY <3>1, TimesAreFinite, FS_Subset, ColumnTypes DEF NatOn
      <4>2. ASSUME NEW t \in rows
            PROVE  f[t] = g[t]
        <5>1. t \in Times /\ minutes2[t] = minutes[t]
          BY <1>2, <3>1
        <5>2. f[t] = minutes[t].counts[k] /\ g[t] = minutes2[t].counts[k]
          BY <1>2, <5>1 DEF CountsOf, TableOf
        <5> QED
          BY <5>1, <5>2
      <4>3. SumFunctionOnSet(f, rows) = SumFunctionOnSet(g, rows)
        <5> HIDE DEF f, g, rows
        <5> QED
          BY <4>1, <4>2, SumSame
      <4> QED
        BY <3>1, <4>3 DEF BlockSum, Sum
    <3>3. rollups2[r] = rollups[r]
      BY <1>4, <2>2
    <3>4. Rows(minutes2, r, r + BlockLen) # {} <=> Rows(minutes, r, r + BlockLen) # {}
      BY <3>1
    <3> QED
      BY <3>2, <3>3, <3>4 DEF Exact
  <2> QED
    BY <2>1, <2>2
<1> QED
  BY <1>2, <1>4, <1>5 DEF Exact

LEMMA TotalOfZero == Total(Zero) = 0
<1>1. NatOn(Zero, Keys) /\ \A k \in Keys \ {} : Zero[k] = 0
  BY DEF NatOn, Zero
<1>2. SumFunctionOnSet(Zero, Keys) = SumFunctionOnSet(Zero, {})
  BY <1>1, TimesAreFinite, SumOfZeros
<1> QED
  BY <1>2, SumOfNone, CountsAreNat, TotalIsSum

\* A file with one row, as the program may find it.
LEMMA OneRowIsExact ==
  ASSUME NEW m \in Times, NEW c \in Counts, NEW row \in Row \cup {NoRow},
         row.counts = c, row.total_count = Total(c), row # NoRow,
         NEW minutes, minutes = [t \in Times |-> IF t = m THEN row ELSE NoRow],
         NEW rollups, rollups = [b \in Blocks |-> IF b = ToTenMinuteStart(m) THEN row ELSE NoRow]
  PROVE  /\ minutes \in TableOf(Times) /\ rollups \in TableOf(Blocks)
         /\ TotalsRight(minutes) /\ Exact(minutes, rollups)
<1>1. minutes \in TableOf(Times) /\ rollups \in TableOf(Blocks)
  BY DEF TableOf
<1>2. TotalsRight(minutes)
  BY TotalOfZero DEF TotalsRight, NoRow
<1>3. ASSUME NEW b \in Blocks
      PROVE  /\ rollups[b] = NoRow <=> Rows(minutes, b, b + BlockLen) = {}
             /\ rollups[b].total_count = Total(rollups[b].counts)
             /\ \A k \in Keys : rollups[b].counts[k] = BlockSum(minutes, b)[k]
  <2>1. Rows(minutes, b, b + BlockLen) = IF b = ToTenMinuteStart(m) THEN {m} ELSE {}
    BY MinutesOfBlock DEF Rows
  <2>2. CASE b = ToTenMinuteStart(m)
    <3>1. ASSUME NEW k \in Keys
          PROVE  BlockSum(minutes, b)[k] = row.counts[k]
      <4> DEFINE f == CountsOf(minutes, k)
      <4>1. f[m] = row.counts[k] /\ f[m] \in Nat
        BY <1>1, TimesAreFinite, ColumnTypes, RowTypes
      <4>2. SumFunctionOnSet(f, {m}) = f[m]
        <5> HIDE DEF f
        <5> QED
          BY <4>1, SumOfOne
      <4> QED
        BY <2>1, <2>2, <4>1, <4>2 DEF BlockSum, Sum
    <3> QED
      BY <2>1, <2>2, <3>1
  <2>3. CASE b # ToTenMinuteStart(m)
    <3>1. \A k \in Keys : BlockSum(minutes, b)[k] = 0
      BY <2>1, <2>3, SumOfNone DEF BlockSum, Sum
    <3> QED
      BY TotalOfZero, <2>1, <2>3, <3>1 DEF NoRow, Zero
  <2> QED
    BY <2>2, <2>3
<1> QED
  BY <1>1, <1>2, <1>3 DEF Exact

\* A file with no rows.
LEMMA EmptyIsExact ==
  ASSUME NEW minutes, minutes = [t \in Times |-> NoRow],
         NEW rollups, rollups = [b \in Blocks |-> NoRow]
  PROVE  /\ minutes \in TableOf(Times) /\ rollups \in TableOf(Blocks)
         /\ TotalsRight(minutes) /\ Exact(minutes, rollups)
<1>1. minutes \in TableOf(Times) /\ rollups \in TableOf(Blocks)
  BY DEF TableOf
<1>2. TotalsRight(minutes)
  BY TotalOfZero DEF TotalsRight, NoRow
<1>3. \A b \in Blocks : Rows(minutes, b, b + BlockLen) = {}
  BY DEF Rows
<1>4. \A b \in Blocks, k \in Keys : BlockSum(minutes, b)[k] = 0
  BY <1>3, SumOfNone DEF BlockSum, Sum
<1> QED
  BY TotalOfZero, <1>1, <1>2, <1>3, <1>4 DEF Exact, NoRow, Zero

\* What earlier releases wrote are rows.
LEMMA FoundRowIsRow ==
  ASSUME NEW v \in 1 .. NewestKeyMap, NEW k \in Keys
  PROVE  /\ FoundRow(v, k) \in Row /\ FoundRow(v, k) # NoRow
         /\ FoundRow(v, k).counts \in Counts
         /\ FoundRow(v, k).total_count = Total(FoundRow(v, k).counts)
<1> DEFINE c == [Zero EXCEPT ![k] = 1]
           row == FoundRow(v, k)
<1>1. c \in Counts
  BY StoreAssumption DEF Zero, Counts
<1>2. row = [keymap_version |-> v, counts |-> c, total_count |-> Total(c)]
  <2>1. row = [NewRow(c) EXCEPT !.keymap_version = v]
    BY Zenon DEF FoundRow
  <2> HIDE DEF c, row
  <2> QED
    BY <2>1 DEF NewRow
<1>3. Total(c) \in Nat
  BY <1>1, CountsAreNat, TotalIsNat
<1> HIDE DEF c, row
<1>4. row \in Row /\ row.counts = c /\ row.total_count = Total(c)
  BY <1>1, <1>2, <1>3 DEF Row
<1>5. row # NoRow
  <2>1. row.keymap_version = v /\ v # 0 /\ NoRow.keymap_version = 0
    BY <1>2 DEF NoRow
  <2> QED
    BY <2>1
<1> QED
  BY <1>1, <1>4, <1>5 DEF row

\* Every file the program may find is exact.
LEMMA InitStore == Init => StoreInv
<1> SUFFICES ASSUME Init
             PROVE  StoreInv
  OBVIOUS
<1>1. /\ TablesTyped /\ TotalsRight(minute_buckets) /\ Exact(minute_buckets, rollup_10m)
  <2>1. CASE /\ minute_buckets = [t \in Times |-> NoRow]
             /\ rollup_10m = [b \in Blocks |-> NoRow]
    BY <2>1, EmptyIsExact DEF TablesTyped
  <2>2. ASSUME NEW m \in Times, NEW v \in 1 .. NewestKeyMap, NEW k \in Keys,
               minute_buckets = [t \in Times |-> IF t = m THEN FoundRow(v, k) ELSE NoRow],
               rollup_10m = [b \in Blocks |-> IF b = ToTenMinuteStart(m)
                                              THEN FoundRow(v, k) ELSE NoRow]
        PROVE  /\ TablesTyped /\ TotalsRight(minute_buckets)
               /\ Exact(minute_buckets, rollup_10m)
    <3> DEFINE row == FoundRow(v, k)
    <3>1. row \in Row /\ row # NoRow /\ row.counts \in Counts
          /\ row.total_count = Total(row.counts)
      BY FoundRowIsRow
    <3>2. minute_buckets = [t \in Times |-> IF t = m THEN row ELSE NoRow]
          /\ rollup_10m = [b \in Blocks |-> IF b = ToTenMinuteStart(m) THEN row ELSE NoRow]
      BY <2>2
    <3> HIDE DEF row
    <3> QED
      BY <3>1, <3>2, OneRowIsExact DEF TablesTyped
  <2> QED
    BY <2>1, <2>2 DEF Init
<1>2. writer = "idle"
  BY DEF Init
<1> QED
  BY <1>1, <1>2, SameRollups DEF StoreInv, TxnTyped, Transacting

\* Steps that leave tables and transaction alone; the end of a transaction.
LEMMA StoreRests ==
  ASSUME StoreInv, UNCHANGED <<minute_buckets, rollup_10m>>, UNCHANGED txn
  PROVE  StoreInv'
<1>1. RollupsExact'
  BY DEF StoreInv, RollupsExact, txn
<1> QED
  BY <1>1 DEF StoreInv, TablesTyped, TxnTyped, Transacting, TotalsRight, txn

LEMMA StoreWithoutTxn ==
  ASSUME StoreInv, UNCHANGED <<minute_buckets, rollup_10m>>, writer' = "idle"
  PROVE  StoreInv'
<1>1. RollupsExact'
  BY DEF StoreInv, RollupsExact
<1> QED
  BY <1>1 DEF StoreInv, TablesTyped, TxnTyped, Transacting, TotalsRight

\* The statements of a transaction.
LEMMA BeginStore ==
  ASSUME StoreInv, NEW m \in Times, NEW c \in [Keys -> 0 .. MaxRowCount], Begin(m, c)
  PROVE  StoreInv'
<1>1. /\ UNCHANGED <<minute_buckets, rollup_10m>>
      /\ writer' = "begun" /\ snapshot' = [minute |-> m, counts |-> c]
      /\ txn_minutes' = minute_buckets /\ txn_rollups' = rollup_10m
  BY DEF Begin, file
<1>2. c \in Counts
  <2>1. 0 .. MaxRowCount \subseteq 0 .. MaxCount
    BY StoreAssumption
  <2> QED
    BY <2>1 DEF Counts
<1>3. TablesTyped' /\ TxnTyped' /\ TotalsRight(minute_buckets)'
  BY <1>1, <1>2 DEF StoreInv, TablesTyped, TxnTyped, TotalsRight
<1>4. Transacting'
  BY <1>1 DEF Transacting
<1>5. RollupsExact'
  BY <1>1 DEF StoreInv, RollupsExact
<1> QED
  BY <1>3, <1>4, <1>5 DEF StoreInv

LEMMA InsertStore ==
  ASSUME StoreInv, InsertMinute
  PROVE  StoreInv'
<1>1. /\ UNCHANGED <<minute_buckets, rollup_10m, snapshot, txn_rollups>>
      /\ writer = "begun" /\ writer' = "inserted"
      /\ txn_minutes' = [txn_minutes EXCEPT ![snapshot.minute] = NewRow(snapshot.counts)]
  BY DEF InsertMinute, file
<1>2. snapshot.minute \in Times /\ NewRow(snapshot.counts) \in Row
  BY <1>1, NewRowIsRow DEF StoreInv, TxnTyped
<1>3. TablesTyped' /\ TxnTyped' /\ TotalsRight(minute_buckets)'
  BY <1>1, <1>2 DEF StoreInv, TablesTyped, TxnTyped, TotalsRight, TableOf
<1>4. Transacting'
  BY <1>1 DEF StoreInv, Transacting
<1>5. RollupsExact'
  BY <1>1 DEF StoreInv, RollupsExact
<1> QED
  BY <1>3, <1>4, <1>5 DEF StoreInv

LEMMA RebuildStore ==
  ASSUME StoreInv, RebuildTenMinuteRollup
  PROVE  StoreInv'
<1> DEFINE b == ToTenMinuteStart(snapshot.minute)
<1>1. /\ UNCHANGED <<minute_buckets, rollup_10m, snapshot, txn_minutes>>
      /\ writer = "inserted" /\ writer' = "rebuilt"
      /\ txn_rollups' = [txn_rollups EXCEPT ![b] = Rollup(txn_minutes, b)]
  BY DEF RebuildTenMinuteRollup, file
<1>2. Rollup(txn_minutes, b) \in Row
  BY <1>1, InItsBlock, RollupFacts DEF StoreInv, TxnTyped
<1>3. TablesTyped' /\ TxnTyped' /\ TotalsRight(minute_buckets)'
  BY <1>1, <1>2 DEF StoreInv, TablesTyped, TxnTyped, TotalsRight, TableOf
<1>4. Transacting'
  BY <1>1 DEF StoreInv, Transacting
<1>5. RollupsExact'
  BY <1>1 DEF StoreInv, RollupsExact
<1> QED
  BY <1>3, <1>4, <1>5 DEF StoreInv

LEMMA TotalsAfterWrite ==
  ASSUME NEW minutes \in TableOf(Times), TotalsRight(minutes),
         NEW m \in Times, NEW c \in Counts
  PROVE  TotalsRight([minutes EXCEPT ![m] = NewRow(c)])
  BY DEF TotalsRight, NewRow, TableOf

LEMMA CommitStore ==
  ASSUME StoreInv, Commit
  PROVE  StoreInv'
<1> DEFINE m == snapshot.minute
           c == snapshot.counts
<1>1. /\ minute_buckets' = txn_minutes /\ rollup_10m' = txn_rollups
      /\ writer = "rebuilt" /\ writer' = "idle"
  BY DEF Commit, EndTransaction
<1>2. m \in Times /\ c \in Counts /\ TablesTyped
  BY <1>1 DEF StoreInv, TxnTyped
<1>3. /\ txn_minutes = [minute_buckets EXCEPT ![m] = NewRow(c)]
      /\ txn_rollups = [rollup_10m EXCEPT ![ToTenMinuteStart(m)]
                                     = Rollup(txn_minutes, ToTenMinuteStart(m))]
  BY <1>1 DEF StoreInv, Transacting
<1> HIDE DEF m, c
<1>4. /\ txn_minutes \in TableOf(Times) /\ txn_rollups \in TableOf(Blocks)
      /\ Exact(txn_minutes, txn_rollups)
  BY <1>2, <1>3, SameRollups, RebuiltIsExact DEF StoreInv, TablesTyped
<1>5. TotalsRight(txn_minutes)
  BY <1>2, <1>3, TotalsAfterWrite DEF StoreInv, TablesTyped
<1>6. Exact(minute_buckets', rollup_10m')
  BY <1>1, <1>4
<1>7. RollupsExact'
  BY <1>6 DEF RollupsExact, Exact
<1>8. TablesTyped' /\ TxnTyped' /\ TotalsRight(minute_buckets)' /\ Transacting'
  BY <1>1, <1>4, <1>5 DEF TablesTyped, TxnTyped, TotalsRight, Transacting
<1> QED
  BY <1>7, <1>8 DEF StoreInv

\* Every other step leaves the committed tables alone, and the transaction, if it
\* does not end it.
LEMMA OtherStore ==
  ASSUME StoreInv, [Next]_vars, ~InsertMinute, ~RebuildTenMinuteRollup, ~Commit,
         ~\E m \in Times, c \in [Keys -> 0 .. MaxRowCount] : Begin(m, c)
  PROVE  StoreInv'
<1>1. UNCHANGED <<minute_buckets, rollup_10m>> /\ (UNCHANGED txn \/ writer' = "idle")
  <2>1. CASE RefuseFile \/ Initialize \/ CreateTable \/ SetSchemaVersion \/ UNCHANGED vars
    BY <2>1 DEF RefuseFile, Initialize, CreateTable, SetSchemaVersion, vars, file
  <2>2. CASE FailSave \/ RefuseBlock
    BY <2>2 DEF FailSave, RefuseBlock, DropWrites, EndTransaction
  <2>3. ASSUME NEW function, NEW start, NEW end, StartQuery(function, start, end)
        PROVE  UNCHANGED <<minute_buckets, rollup_10m>> /\ UNCHANGED txn
    BY <2>3 DEF StartQuery, file
  <2>4. CASE ReadHead \/ ReadRollups \/ ReadTail
    BY <2>4 DEF ReadHead, ReadRollups, ReadTail, Select, file
  <2>5. CASE QueryThrows \/ Return
    BY <2>5 DEF QueryThrows, SelectThrows, Return, file
  <2>6. CASE Exit
    BY <2>6 DEF Exit, EndTransaction, file
  <2> QED
    BY <2>1, <2>2, <2>3, <2>4, <2>5, <2>6 DEF Next
<1> QED
  BY <1>1, StoreRests, StoreWithoutTxn

\* Every step.
LEMMA StepStore == StoreInv /\ [Next]_vars => StoreInv'
<1> SUFFICES ASSUME StoreInv, [Next]_vars
             PROVE  StoreInv'
  OBVIOUS
<1>1. ASSUME NEW m \in Times, NEW c \in [Keys -> 0 .. MaxRowCount], Begin(m, c)
      PROVE  StoreInv'
  BY <1>1, BeginStore
<1> QED
  BY <1>1, InsertStore, RebuildStore, CommitStore, OtherStore

\* In every committed state a rollup is the sum of the minutes of its block, for
\* every set of minutes and keys, every length of a block, every kind of failure
\* and every file the program may have found, unless the sum does not fit.
THEOREM RollupsAreExact == Spec => []RollupsExact
<1>1. StoreInv => RollupsExact
  BY DEF StoreInv
<1> QED
  BY <1>1, InitStore, StepStore, PTL DEF Spec

-----------------------------------------------------------------------------
(* Types. *)
\* The schema is created statement by statement, up to its number of statements.
LEMMA SchemaIsFinite == Cardinality(Schema) \in Nat
<1>1. IsFiniteSet({"minute_buckets"})
  BY FS_Singleton
<1>2. IsFiniteSet({"minute_buckets"} \cup {"rollup_10m"})
  BY <1>1, FS_AddElement
<1>3. IsFiniteSet(({"minute_buckets"} \cup {"rollup_10m"}) \cup {"app_meta"})
  BY <1>2, FS_AddElement
<1>4. IsFiniteSet((({"minute_buckets"} \cup {"rollup_10m"}) \cup {"app_meta"})
                    \cup {"schema_version"})
  BY <1>3, FS_AddElement
<1>5. Schema = (({"minute_buckets"} \cup {"rollup_10m"}) \cup {"app_meta"})
                 \cup {"schema_version"}
  BY DEF Schema
<1> QED
  BY <1>4, <1>5, FS_CardinalityType

LEMMA EmptyAnswerIsAnswer ==
  EmptyAnswer \in [counts : [Keys -> Nat], series : [Blocks -> Nat]]
  BY DEF EmptyAnswer, Zero

\* What a SELECT adds.
LEMMA AccumulateFacts ==
  ASSUME ReaderTyped, NEW S, IsFiniteSet(S), NEW table \in TableOf(S), NEW from, NEW to
  PROVE  /\ Accumulate(table, from, to) \in [counts : [Keys -> Nat], series : [Blocks -> Nat]]
         /\ \A k \in Keys : Accumulate(table, from, to).counts[k]
                              = answer.counts[k] + Sum(table, from, to)[k]
         /\ \A b \in Blocks : Accumulate(table, from, to).series[b]
                              = answer.series[b] + TotalIn(table, from, to, b)
<1>1. ASSUME NEW k \in Keys
      PROVE  answer.counts[k] + Sum(table, from, to)[k] \in Nat
  <2>1. Sum(table, from, to)[k] \in Nat
    BY SumsAreNat
  <2>2. answer.counts[k] \in Nat
    BY DEF ReaderTyped
  <2> QED
    BY <2>1, <2>2
<1>2. ASSUME NEW b \in Blocks
      PROVE  answer.series[b] + TotalIn(table, from, to, b) \in Nat
  <2>1. TotalIn(table, from, to, b) \in Nat
    BY SumsAreNat
  <2>2. answer.series[b] \in Nat
    BY DEF ReaderTyped
  <2> QED
    BY <2>1, <2>2
<1> QED
  BY <1>1, <1>2 DEF Accumulate

\* The types of the query and of the file.
LEMMA StepReader == ReaderTyped /\ TablesTyped /\ [Next]_vars => ReaderTyped'
<1> SUFFICES ASSUME ReaderTyped, TablesTyped, [Next]_vars
             PROVE  ReaderTyped'
  OBVIOUS
<1>1. CASE UNCHANGED <<reader, answer>>
  BY <1>1 DEF ReaderTyped
<1>2. ASSUME NEW function, NEW start, NEW end, StartQuery(function, start, end)
      PROVE  ReaderTyped'
  BY <1>2, EmptyAnswerIsAnswer DEF StartQuery, ReaderTyped
<1>3. CASE ReadHead
  <2>1. /\ reader' = "rollups"
        /\ answer' = Accumulate(minute_buckets, query.start, First)
    BY <1>3 DEF ReadHead, Select
  <2> QED
    BY <2>1, TimesAreFinite, AccumulateFacts DEF TablesTyped, ReaderTyped
<1>4. CASE ReadRollups
  <2>1. reader' = "tail" /\ answer' = Accumulate(rollup_10m, First, Last)
    BY <1>4 DEF ReadRollups, Select
  <2> QED
    BY <2>1, TimesAreFinite, AccumulateFacts DEF TablesTyped, ReaderTyped
<1>5. CASE ReadTail
  <2>1. reader' = "answered" /\ answer' = Accumulate(minute_buckets, Last, query.end)
    BY <1>5 DEF ReadTail, Select
  <2> QED
    BY <2>1, TimesAreFinite, AccumulateFacts DEF TablesTyped, ReaderTyped
<1>6. CASE EndQuery
  BY <1>6, EmptyAnswerIsAnswer DEF EndQuery, ReaderTyped
<1>7. CASE QueryThrows \/ Return \/ Exit
  BY <1>6, <1>7 DEF QueryThrows, SelectThrows, Return, Exit
<1>8. CASE RefuseFile \/ Initialize \/ CreateTable \/ SetSchemaVersion \/ UNCHANGED vars
  BY <1>1, <1>8
  DEF RefuseFile, Initialize, CreateTable, SetSchemaVersion, vars, reads
<1>9. CASE InsertMinute \/ RebuildTenMinuteRollup \/ Commit \/ FailSave \/ RefuseBlock
  BY <1>1, <1>9 DEF InsertMinute, RebuildTenMinuteRollup, Commit, FailSave, RefuseBlock, reads
<1>10. ASSUME NEW m, NEW c, Begin(m, c)
       PROVE  ReaderTyped'
  BY <1>1, <1>10 DEF Begin, reads
<1> QED
  BY <1>2, <1>3, <1>4, <1>5, <1>7, <1>8, <1>9, <1>10 DEF Next

LEMMA StepFile == FileTyped /\ [Next]_vars => FileTyped'
<1> SUFFICES ASSUME FileTyped, [Next]_vars
             PROVE  FileTyped'
  OBVIOUS
<1>1. CASE UNCHANGED <<user_version, tables, phase>>
  BY <1>1 DEF FileTyped
<1>2. CASE Initialize
  <2>1. user_version \in 0 .. 2
    BY DEF FileTyped
  <2>2. user_version > 1 \/ user_version = 0 \/ user_version = 1
    BY <2>1
  <2>3. UNCHANGED <<user_version, tables>>
        /\ phase' \in {"closed", "creating", "open", "refused"}
    BY <1>2, <2>1, <2>2 DEF Initialize, CurrentSchemaVersion, file
  <2> QED
    BY <2>3 DEF FileTyped
<1>10. CASE RefuseFile
  BY <1>10 DEF RefuseFile, file, FileTyped
<1>3. CASE CreateTable
  BY <1>3, SchemaIsFinite DEF CreateTable, SchemaDone, FileTyped
<1>4. CASE SetSchemaVersion
  BY <1>4 DEF SetSchemaVersion, CurrentSchemaVersion, FileTyped
<1>5. CASE Exit
  BY <1>5 DEF Exit, file, FileTyped
<1>6. CASE InsertMinute \/ RebuildTenMinuteRollup \/ Commit \/ FailSave \/ RefuseBlock
  BY <1>1, <1>6 DEF InsertMinute, RebuildTenMinuteRollup, Commit, FailSave, RefuseBlock, file
<1>7. ASSUME NEW m, NEW c, Begin(m, c)
      PROVE  FileTyped'
  BY <1>1, <1>7 DEF Begin, file
<1>8. ASSUME NEW function, NEW start, NEW end, StartQuery(function, start, end)
      PROVE  FileTyped'
  BY <1>1, <1>8 DEF StartQuery, file
<1>9. CASE ReadHead \/ ReadRollups \/ ReadTail \/ QueryThrows \/ Return \/ UNCHANGED vars
  BY <1>1, <1>9
  DEF ReadHead, ReadRollups, ReadTail, Select, QueryThrows, SelectThrows, Return, file, vars
<1> QED
  BY <1>2, <1>3, <1>4, <1>5, <1>6, <1>7, <1>8, <1>9, <1>10 DEF Next

LEMMA InitTyped == Init => FileTyped /\ ReaderTyped
<1> SUFFICES ASSUME Init
             PROVE  FileTyped /\ ReaderTyped
  OBVIOUS
<1>1. \/ user_version = 0 /\ tables = 0
      \/ user_version \in {1, 2} /\ tables = Cardinality(Schema)
  BY Zenon DEF Init
<1>2. phase = "closed" /\ reader = "idle" /\ answer = EmptyAnswer
  BY DEF Init
<1> QED
  BY <1>1, <1>2, SchemaIsFinite, EmptyAnswerIsAnswer DEF FileTyped, ReaderTyped

\* The tables and the transaction hold rows whose counts fit 32 bits, and an answer
\* counts in natural numbers.
THEOREM TypeCorrect == Spec => []TypeOK
<1> DEFINE Inv == StoreInv /\ FileTyped /\ ReaderTyped
<1>1. Init => Inv
  BY InitStore, InitTyped
<1>2. Inv /\ [Next]_vars => Inv'
  BY StepStore, StepReader, StepFile DEF StoreInv
<1>3. Inv => TypeOK
  BY TypeParts DEF StoreInv
<1> QED
  BY <1>1, <1>2, <1>3, PTL DEF Spec

-----------------------------------------------------------------------------
(* An answer counts every minute once. *)
\* What has been counted is what the table has in [from, to).
Counted(table, from, to, counted) ==
  /\ \A k \in Keys : counted.counts[k] = Sum(table, from, to)[k]
  /\ \A b \in Blocks : counted.series[b] = TotalIn(table, from, to, b)

\* A query has seen the rows that are committed, and what it has counted so far are
\* rows it has seen, one of each minute it has read.
Seen ==
  reader # "idle" =>
    /\ seen \in [Times -> SUBSET (Row \cup {NoRow})]
    /\ \A t \in Times : minute_buckets[t] \in seen[t]
    /\ NoWrap => \E past \in Past : Counted(past, query.start, ReadTo, answer)

\* Tables of rows that have been seen.
LEMMA PastIsSeen ==
  ASSUME seen \in [Times -> SUBSET (Row \cup {NoRow})]
  PROVE  /\ \A past \in Past : past \in TableOf(Times) /\ \A t \in Times : past[t] \in seen[t]
         /\ \A table \in TableOf(Times) :
              (\A t \in Times : table[t] \in seen[t]) => table \in Past
<1>1. ASSUME NEW past \in Past
      PROVE  past \in TableOf(Times) /\ \A t \in Times : past[t] \in seen[t]
  <2>1. past \in [Times -> UNION {seen[t] : t \in Times}] /\ \A t \in Times : past[t] \in seen[t]
    BY DEF Past
  <2>2. \A t \in Times : past[t] \in Row \cup {NoRow}
    BY <2>1
  <2> QED
    BY <2>1, <2>2 DEF TableOf
<1>2. ASSUME NEW table \in TableOf(Times), \A t \in Times : table[t] \in seen[t]
      PROVE  table \in Past
  <2>1. \A t \in Times : table[t] \in UNION {seen[u] : u \in Times}
    BY <1>2
  <2>2. table \in [Times -> UNION {seen[u] : u \in Times}]
    BY <2>1 DEF TableOf
  <2> QED
    BY <1>2, <2>2 DEF Past
<1> QED
  BY <1>1, <1>2

\* Nothing is counted of nothing.
LEMMA NothingOfNothing ==
  ASSUME NEW S, IsFiniteSet(S), S \subseteq Int, NEW table \in TableOf(S), NEW from \in Int
  PROVE  /\ \A k \in Keys : Sum(table, from, from)[k] = 0
         /\ \A b : TotalIn(table, from, from, b) = 0
<1>1. Span(S, from, from) = {}
  <2>1. \A t \in S : ~(from <= t /\ t < from)
    OBVIOUS
  <2> QED
    BY <2>1 DEF Span
<1>2. ASSUME NEW k \in Keys
      PROVE  Sum(table, from, from)[k] = 0
  <2>1. Sum(table, from, from)[k]
          = SumFunctionOnSet(CountsOf(table, k), Span(S, from, from))
    BY SumIsOverSpan
  <2> QED
    BY <1>1, <2>1, SumOfNone
<1>3. ASSUME NEW b
      PROVE  TotalIn(table, from, from, b) = 0
  <2>1. {t \in Span(S, from, from) : ToTenMinuteStart(t) = b} = {}
    BY <1>1
  <2> QED
    BY <2>1, SumIsOverSpan, SumOfNone
<1> QED
  BY <1>2, <1>3

\* One SELECT more: the minutes before it as they were counted, the others as now.
LEMMA CountedAdds ==
  ASSUME NEW past \in TableOf(Times), NEW now \in TableOf(Times),
         NEW from \in Int, NEW mid \in Int, NEW to \in Int, from <= mid, mid <= to,
         NEW counted, Counted(past, from, mid, counted),
         NEW more,
         \A k \in Keys : more.counts[k] = counted.counts[k] + Sum(now, mid, to)[k],
         \A b \in Blocks : more.series[b] = counted.series[b] + TotalIn(now, mid, to, b)
  PROVE  Counted([t \in Times |-> IF t < mid THEN past[t] ELSE now[t]], from, to, more)
<1> DEFINE both == [t \in Times |-> IF t < mid THEN past[t] ELSE now[t]]
<1>1. both \in TableOf(Times)
  BY DEF TableOf
<1>2. \A t \in Span(Times, from, mid) : both[t] = past[t]
  BY DEF Span
<1>3. \A t \in Span(Times, mid, to) : both[t] = now[t]
  <2>1. \A t \in Times : mid <= t => ~(t < mid)
    BY TimesAreFinite
  <2> QED
    BY <2>1 DEF Span
<1> HIDE DEF both
<1>4. /\ \A k \in Keys : Sum(both, from, mid)[k] = Sum(past, from, mid)[k]
      /\ \A b : TotalIn(both, from, mid, b) = TotalIn(past, from, mid, b)
  BY <1>1, <1>2, SameRowsSameSums
<1>5. /\ \A k \in Keys : Sum(both, mid, to)[k] = Sum(now, mid, to)[k]
      /\ \A b : TotalIn(both, mid, to, b) = TotalIn(now, mid, to, b)
  BY <1>1, <1>3, SameRowsSameSums
<1>6. /\ \A k \in Keys :
           Sum(both, from, to)[k] = Sum(both, from, mid)[k] + Sum(both, mid, to)[k]
      /\ \A b : TotalIn(both, from, to, b)
                  = TotalIn(both, from, mid, b) + TotalIn(both, mid, to, b)
  BY <1>1, SumsAddUp
<1>7. Counted(both, from, to, more)
  BY <1>4, <1>5, <1>6 DEF Counted
<1> QED
  BY <1>7 DEF both

-----------------------------------------------------------------------------
\* What a query may rely on.
QueryInv == StoreInv /\ ReaderTyped /\ ReadInv /\ Seen

LEMMA InitQuery == Init => QueryInv
<1>1. Init => Seen
  BY DEF Init, Seen
<1> QED
  BY <1>1, InitStore, InitTyped, InitRead DEF QueryInv

LEMMA QueryRests ==
  ASSUME Seen, UNCHANGED <<minute_buckets, reader, query, answer, seen>>
  PROVE  Seen'
<1>1. ReadTo' = ReadTo
  BY DEF ReadTo, First, Last
<1>2. Past' = Past
  BY DEF Past
<1> QED
  BY <1>1, <1>2 DEF Seen, NoWrap

\* A commit while a query runs: it will have seen the new rows, and has still seen
\* those it has counted.
LEMMA CommitSeen ==
  ASSUME QueryInv, Commit
  PROVE  Seen'
<1>1. UNCHANGED <<reader, query, answer>> /\ ReadTo' = ReadTo /\ minute_buckets' = txn_minutes
  BY DEF Commit, ReadTo, First, Last
<1> SUFFICES ASSUME reader # "idle"
             PROVE  Seen'
  BY <1>1 DEF Seen
<1>2. /\ seen \in [Times -> SUBSET (Row \cup {NoRow})]
      /\ \A t \in Times : minute_buckets[t] \in seen[t]
      /\ NoWrap => \E past \in Past : Counted(past, query.start, ReadTo, answer)
  BY DEF QueryInv, Seen
<1>3. txn_minutes \in TableOf(Times)
  BY <1>1, CommitStore DEF QueryInv, StoreInv, TablesTyped
<1>4. seen' = [t \in Times |-> seen[t] \cup {txn_minutes[t]}]
  BY DEF Commit
<1>5. /\ seen' \in [Times -> SUBSET (Row \cup {NoRow})]
      /\ \A t \in Times : txn_minutes[t] \in seen'[t] /\ seen[t] \subseteq seen'[t]
  BY <1>2, <1>3, <1>4 DEF TableOf
<1>6. \A past \in Past : past \in Past'
  <2> SUFFICES ASSUME NEW past \in Past
               PROVE  past \in Past'
    OBVIOUS
  <2>1. past \in TableOf(Times) /\ \A t \in Times : past[t] \in seen[t]
    BY <1>2, PastIsSeen
  <2>2. \A t \in Times : past[t] \in seen'[t]
    BY <1>5, <2>1
  <2>3. past \in [Times -> UNION {seen'[t] : t \in Times}]
    BY <2>1, <2>2 DEF TableOf
  <2> QED
    BY <2>2, <2>3 DEF Past
<1>7. NoWrap' => NoWrap
  BY <1>6 DEF NoWrap
<1> QED
  BY <1>1, <1>2, <1>5, <1>6, <1>7 DEF Seen, Counted

\* A query begins, with the rows that are there.
LEMMA StartSeen ==
  ASSUME QueryInv, NEW function, NEW start \in Times, NEW end,
         StartQuery(function, start, end)
  PROVE  Seen'
<1>1. /\ reader' = "head" /\ query'.start = start /\ answer' = EmptyAnswer
      /\ seen' = [t \in Times |-> {minute_buckets[t]}] /\ minute_buckets' = minute_buckets
  BY DEF StartQuery, file
<1>2. ReadTo' = start
  BY <1>1 DEF ReadTo
<1>3. minute_buckets \in TableOf(Times) /\ start \in Int
  BY TimesAreFinite DEF QueryInv, StoreInv, TablesTyped
<1>4. /\ seen' \in [Times -> SUBSET (Row \cup {NoRow})]
      /\ \A t \in Times : minute_buckets[t] \in seen'[t]
  BY <1>1, <1>3 DEF TableOf
<1>5. minute_buckets \in Past'
  <2>1. minute_buckets \in [Times -> UNION {seen'[t] : t \in Times}]
    BY <1>3, <1>4 DEF TableOf
  <2> QED
    BY <1>4, <2>1 DEF Past
<1>6. Counted(minute_buckets, start, start, EmptyAnswer)
  <2>1. /\ \A k \in Keys : Sum(minute_buckets, start, start)[k] = 0
        /\ \A b : TotalIn(minute_buckets, start, start, b) = 0
    BY <1>3, TimesAreFinite, NothingOfNothing
  <2> QED
    BY <2>1 DEF Counted, EmptyAnswer, Zero
<1> QED
  BY <1>1, <1>2, <1>4, <1>5, <1>6 DEF Seen, Counted

\* A SELECT of the minutes, or of rollups that stand for them.
LEMMA SelectSeen ==
  ASSUME QueryInv, reader # "idle", NEW mid \in Int, NEW to \in Int,
         query.start <= mid, mid <= to, ReadTo = mid, ReadTo' = to,
         UNCHANGED <<minute_buckets, query, seen>>,
         \/ answer' = Accumulate(minute_buckets, mid, to)
         \/ /\ answer' = Accumulate(rollup_10m, mid, to)
            /\ mid < to => IsMultiple(mid, BlockLen) /\ IsMultiple(to, BlockLen)
  PROVE  Seen'
<1>1. /\ minute_buckets \in TableOf(Times) /\ rollup_10m \in TableOf(Blocks)
      /\ TotalsRight(minute_buckets) /\ RollupsExact /\ ReaderTyped
  BY DEF QueryInv, StoreInv, TablesTyped
<1>2. /\ seen \in [Times -> SUBSET (Row \cup {NoRow})]
      /\ \A t \in Times : minute_buckets[t] \in seen[t]
      /\ NoWrap => \E past \in Past : Counted(past, query.start, mid, answer)
  BY DEF QueryInv, Seen
<1>3. query.start \in Int
  BY DEF QueryInv, ReadInv, ReadGood, IsRange
<1>4. Past' = Past /\ NoWrap' = NoWrap
  BY DEF Past, NoWrap
<1>5. NoWrap => Fits(minute_buckets)
  <2>1. minute_buckets \in Past
    BY <1>1, <1>2, PastIsSeen
  <2> QED
    BY <2>1 DEF NoWrap, Fits
<1>6. ASSUME Fits(minute_buckets)
      PROVE  /\ \A k \in Keys : answer'.counts[k]
                                  = answer.counts[k] + Sum(minute_buckets, mid, to)[k]
             /\ \A b \in Blocks : answer'.series[b]
                                    = answer.series[b] + TotalIn(minute_buckets, mid, to, b)
  <2>1. CASE answer' = Accumulate(minute_buckets, mid, to)
    BY <1>1, <2>1, TimesAreFinite, AccumulateFacts
  <2>2. CASE /\ answer' = Accumulate(rollup_10m, mid, to)
             /\ mid < to => IsMultiple(mid, BlockLen) /\ IsMultiple(to, BlockLen)
    <3>1. /\ \A k \in Keys : answer'.counts[k]
                               = answer.counts[k] + Sum(rollup_10m, mid, to)[k]
          /\ \A b \in Blocks : answer'.series[b]
                                 = answer.series[b] + TotalIn(rollup_10m, mid, to, b)
      BY <1>1, <2>2, TimesAreFinite, AccumulateFacts
    <3>2. /\ \A k \in Keys : Sum(rollup_10m, mid, to)[k] = Sum(minute_buckets, mid, to)[k]
          /\ \A b \in Blocks :
               TotalIn(rollup_10m, mid, to, b) = TotalIn(minute_buckets, mid, to, b)
      <4>1. CASE mid < to
        BY <1>1, <1>6, <2>2, <4>1, RollupsAddUp
      <4>2. CASE mid = to
        <5>1. /\ \A k \in Keys : Sum(rollup_10m, mid, mid)[k] = 0
              /\ \A b : TotalIn(rollup_10m, mid, mid, b) = 0
          BY <1>1, TimesAreFinite, NothingOfNothing
        <5>2. /\ \A k \in Keys : Sum(minute_buckets, mid, mid)[k] = 0
              /\ \A b : TotalIn(minute_buckets, mid, mid, b) = 0
          BY <1>1, TimesAreFinite, NothingOfNothing
        <5> QED
          BY <4>2, <5>1, <5>2
      <4> QED
        BY <4>1, <4>2
    <3> QED
      BY <3>1, <3>2
  <2> QED
    BY <2>1, <2>2
<1>7. ASSUME NoWrap
      PROVE  \E past \in Past : Counted(past, query.start, to, answer')
  <2>1. PICK past \in Past : Counted(past, query.start, mid, answer)
    BY <1>2, <1>7
  <2> DEFINE both == [t \in Times |-> IF t < mid THEN past[t] ELSE minute_buckets[t]]
  <2>2. past \in TableOf(Times) /\ \A t \in Times : past[t] \in seen[t]
    BY <1>2, PastIsSeen
  <2>3. both \in TableOf(Times) /\ \A t \in Times : both[t] \in seen[t]
    BY <1>1, <1>2, <2>2 DEF TableOf
  <2>4. Counted(both, query.start, to, answer')
    BY <1>1, <1>3, <1>5, <1>6, <1>7, <2>1, <2>2, CountedAdds
  <2> HIDE DEF both
  <2>5. both \in Past
    BY <1>2, <2>3, PastIsSeen
  <2> QED
    BY <2>4, <2>5
<1> QED
  BY <1>2, <1>4, <1>7 DEF Seen, Counted

\* Each of the three SELECTs.
LEMMA ReadSeen ==
  ASSUME QueryInv, ReadHead \/ ReadRollups \/ ReadTail
  PROVE  Seen'
<1>1. UNCHANGED <<minute_buckets, query, seen>> /\ reader # "idle"
  BY DEF ReadHead, ReadRollups, ReadTail, Select, file
<1>2. /\ First \in Int /\ Last \in Int /\ query.start \in Int /\ query.end \in Int
      /\ query.start <= First /\ First <= Last /\ Last <= query.end
      /\ query.start <= Last
      /\ First < Last => IsMultiple(First, BlockLen) /\ IsMultiple(Last, BlockLen)
  <2>1. IsRange
    BY <1>1 DEF QueryInv, ReadInv, ReadGood
  <2> QED
    BY <2>1, RangeFacts DEF IsRange
<1>3. First' = First /\ Last' = Last
  BY <1>1 DEF First, Last
<1>4. query.start <= query.start
  BY <1>2
<1>5. CASE ReadHead
  <2>1. /\ reader = "head" /\ reader' = "rollups"
        /\ answer' = Accumulate(minute_buckets, query.start, First)
    BY <1>5 DEF ReadHead, Select
  <2>2. ReadTo = query.start /\ ReadTo' = First
    BY <1>3, <2>1 DEF ReadTo
  <2> QED
    BY <1>1, <1>2, <1>4, <2>1, <2>2, SelectSeen
<1>6. CASE ReadRollups
  <2>1. /\ reader = "rollups" /\ reader' = "tail"
        /\ answer' = Accumulate(rollup_10m, First, Last)
    BY <1>6 DEF ReadRollups, Select
  <2>2. ReadTo = First /\ ReadTo' = Last
    BY <1>3, <2>1 DEF ReadTo
  <2> QED
    BY <1>1, <1>2, <2>1, <2>2, SelectSeen
<1>7. CASE ReadTail
  <2>1. /\ reader = "tail" /\ reader' = "answered"
        /\ answer' = Accumulate(minute_buckets, Last, query.end)
    BY <1>7 DEF ReadTail, Select
  <2>2. ReadTo = Last /\ ReadTo' = query.end
    BY <1>1, <1>3, <2>1 DEF ReadTo
  <2> QED
    BY <1>1, <1>2, <2>1, <2>2, SelectSeen
<1> QED
  BY <1>5, <1>6, <1>7

\* Every step.
LEMMA StepQuery == QueryInv /\ [Next]_vars => QueryInv'
<1> SUFFICES ASSUME QueryInv, [Next]_vars
             PROVE  Seen'
  BY StepStore, StepReader, StepRead DEF QueryInv, StoreInv
<1>1. ASSUME UNCHANGED minute_buckets, UNCHANGED reads
      PROVE  Seen'
  BY <1>1, QueryRests DEF reads, QueryInv
<1>2. CASE RefuseFile \/ Initialize \/ CreateTable \/ SetSchemaVersion \/ UNCHANGED vars
  BY <1>1, <1>2 DEF RefuseFile, Initialize, CreateTable, SetSchemaVersion, vars, file
<1>3. CASE InsertMinute \/ RebuildTenMinuteRollup \/ FailSave \/ RefuseBlock
  BY <1>1, <1>3
  DEF InsertMinute, RebuildTenMinuteRollup, FailSave, RefuseBlock, DropWrites, file
<1>4. ASSUME NEW m, NEW c, Begin(m, c)
      PROVE  Seen'
  BY <1>1, <1>4 DEF Begin, file
<1>5. ASSUME NEW function, NEW start \in Times, NEW end, StartQuery(function, start, end)
      PROVE  Seen'
  BY <1>5, StartSeen
<1>6. CASE EndQuery
  BY <1>6 DEF EndQuery, Seen
<1>7. CASE QueryThrows \/ Return \/ Exit
  BY <1>6, <1>7 DEF QueryThrows, SelectThrows, Return, Exit
<1> QED
  BY <1>2, <1>3, <1>4, <1>5, <1>7, CommitSeen, ReadSeen DEF Next

\* QueryAggregate, however the save thread commits between its three SELECTs and
\* whatever it writes, more presses of a minute or fewer, counts each minute of its
\* range exactly once, from its own row or through a rollup, with the counts of a row
\* the minute had while the query ran: for every range and every length of a block,
\* unless a rollup of such rows exceeds 32 bits.
THEOREM AggregatesCountOnce == Spec => []AggregateOnce
<1>1. QueryInv => AggregateOnce
  <2> SUFFICES ASSUME QueryInv, reader = "answered", NoWrap
               PROVE  \E past \in Past : answer.counts = Sum(past, query.start, query.end)
    BY DEF AggregateOnce
  <2>1. ReadTo = query.end
    BY DEF ReadTo
  <2>2. PICK past \in Past : Counted(past, query.start, query.end, answer)
    BY <2>1 DEF QueryInv, Seen
  <2>3. DOMAIN answer.counts = Keys /\ answer.counts = [k \in Keys |-> answer.counts[k]]
    BY DEF QueryInv, ReaderTyped
  <2>4. Sum(past, query.start, query.end)
          = [k \in Keys |-> Sum(past, query.start, query.end)[k]]
    BY DEF Sum
  <2> QED
    BY <2>2, <2>3, <2>4 DEF Counted
<1> QED
  BY <1>1, InitQuery, StepQuery, PTL DEF Spec

\* QueryTenMinuteTotals likewise, in each ten minutes: the part of a range that is
\* cut off at either end is counted in its own block, once.
THEOREM SeriesCountOnce == Spec => []SeriesOnce
<1>1. QueryInv => SeriesOnce
  <2> SUFFICES ASSUME QueryInv, reader = "answered", NoWrap
               PROVE  \E past \in Past :
                        answer.series
                          = [b \in Blocks |-> TotalIn(past, query.start, query.end, b)]
    BY DEF SeriesOnce
  <2>1. ReadTo = query.end
    BY DEF ReadTo
  <2>2. PICK past \in Past : Counted(past, query.start, query.end, answer)
    BY <2>1 DEF QueryInv, Seen
  <2>3. answer.series = [b \in Blocks |-> answer.series[b]]
    BY DEF QueryInv, ReaderTyped
  <2> QED
    BY <2>2, <2>3 DEF Counted
<1> QED
  BY <1>1, InitQuery, StepQuery, PTL DEF Spec
===============================================================================
