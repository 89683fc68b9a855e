----------------------------- MODULE MinuteStore -----------------------------
(***************************************************************************)
(* KeyStatsRepository (src/storage/repository.cpp): the minute_buckets and *)
(* rollup_10m tables, the transaction by which the save thread replaces a  *)
(* minute, and the range queries of the UI thread, whose three SELECTs run *)
(* on a connection of their own, each on the state committed when it runs. *)
(*                                                                         *)
(* A time is a whole number of minutes; ValidateRange and UpsertMinute-    *)
(* Bucket refuse any other, and every caller aligns.  CountVectorCodec     *)
(* restores what it encoded, so a blob is its counts.                      *)
(***************************************************************************)
EXTENDS TimeBuckets, FiniteSets, Functions

CONSTANTS
  Keys,      \* the KeyIds in play
  Times,     \* the minutes in play
  BlockLen,  \* kTenMinuteSeconds, in minutes
  MaxCount,  \* UINT32_MAX
  NewestKeyMap,  \* the highest keymap_version any release has written
  \* The bounds of a run:
  MaxRowCount,   \* presses of one key in one minute
  MaxSaves,      \* transactions begun
  MaxFailures    \* statements the database refuses

\* CountVectorCodec::kMinimumSupportedKeyMapVersion and kKeyMapVersion.
MinKeyMapVersion == 1
KeyMapVersion    == 2

ASSUME StoreAssumption ==
  /\ IsFiniteSet(Keys)
  /\ IsFiniteSet(Times)
  /\ Times \subseteq Int
  /\ BlockLen \in Nat \ {0}
  /\ MaxCount \in Nat \ {0}
  /\ NewestKeyMap \in Nat /\ NewestKeyMap >= KeyMapVersion
  /\ MaxRowCount \in 1 .. MaxCount
  /\ MaxSaves \in Nat
  /\ MaxFailures \in Nat

VARIABLES
  \* The database file: what is committed.
  user_version, tables, minute_buckets, rollup_10m,
  \* The program that opened it, and its save thread's transaction.
  phase, writer, snapshot, txn_minutes, txn_rollups,
  \* The UI thread's query.
  reader, query, answer,
  \* History: the rows each minute has had since the query began; transactions
  \* begun and refusals.
  seen, saves, failures

file  == <<user_version, tables, minute_buckets, rollup_10m>>
txn   == <<writer, snapshot, txn_minutes, txn_rollups>>
reads == <<reader, query, answer, seen>>
count == <<saves, failures>>
vars  == <<file, phase, txn, reads, count>>

-----------------------------------------------------------------------------
ToTenMinuteStart(m) == AlignDown(m, BlockLen)

Blocks == {ToTenMinuteStart(m) : m \in Times}

Counts == [Keys -> 0 .. MaxCount]
Zero   == [k \in Keys |-> 0]

\* A row of either table, and no row.
Row   == [keymap_version : 1 .. NewestKeyMap, counts : Counts, total_count : Nat]
NoRow == [keymap_version |-> 0, counts |-> Zero, total_count |-> 0]

Total(c) == SumFunction(c)

\* The aggregate and the series a query starts from.
EmptyAnswer == [counts |-> Zero, series |-> [b \in Blocks |-> 0]]

NoQuery == [function |-> "none", start |-> 0, end |-> 0]

NewRow(c) ==
  [keymap_version |-> KeyMapVersion, counts |-> c, total_count |-> Total(c)]

Supported(row) == row.keymap_version \in MinKeyMapVersion .. KeyMapVersion

\* The rows a SELECT ... WHERE bucket_start_utc >= from AND ... < to returns.
Rows(table, from, to) ==
  {t \in DOMAIN table : from <= t /\ t < to /\ table[t] # NoRow}

\* One column of a table: the counts of a key, the totals.
CountsOf(table, k) == [t \in DOMAIN table |-> table[t].counts[k]]
TotalsOf(table)    == [t \in DOMAIN table |-> table[t].total_count]

\* The sum of those rows, key by key, in 64 bits; their totals, by ten minutes.
Sum(table, from, to) ==
  [k \in Keys |-> SumFunctionOnSet(CountsOf(table, k), Rows(table, from, to))]

TotalIn(table, from, to, b) ==
  SumFunctionOnSet(TotalsOf(table),
                   {t \in Rows(table, from, to) : ToTenMinuteStart(t) = b})

\* RebuildTenMinuteRollup: the sum of the block's minutes ...
BlockSum(minutes, b) == Sum(minutes, b, b + BlockLen)

\* Mutant: the sum is stored uncast.
RollupWide(minutes, b) == NewRow(BlockSum(minutes, b))

\* ... cast to 32 bits.
Rollup(minutes, b) ==
  NewRow([k \in Keys |-> BlockSum(minutes, b)[k] % (MaxCount + 1)])

-----------------------------------------------------------------------------
(***************************************************************************)
(* Initialize.  A new file has user_version 0; kCreateSchema creates the   *)
(* tables one statement, and one commit, at a time and then sets it to 1;  *)
(* `tables' counts the statements that have run.                           *)
(***************************************************************************)
Schema == {"minute_buckets", "rollup_10m", "app_meta", "schema_version"}

CurrentSchemaVersion == 1

\* A minute with one press of k, written by the release of key map version v.
FoundRow(v, k) == [NewRow([Zero EXCEPT ![k] = 1]) EXCEPT !.keymap_version = v]

\* A file of this release or another: new, or holding one minute of any key map
\* version with its rollup, or of a newer schema.
Init ==
  /\ \/ /\ user_version = 0
        /\ tables = 0
        /\ minute_buckets = [t \in Times |-> NoRow]
        /\ rollup_10m = [b \in Blocks |-> NoRow]
     \/ \E m \in Times, v \in 1 .. NewestKeyMap, schema \in {1, 2}, k \in Keys :
          /\ user_version = schema
          /\ tables = Cardinality(Schema)
          /\ minute_buckets = [t \in Times |-> IF t = m THEN FoundRow(v, k) ELSE NoRow]
          /\ rollup_10m =
               [b \in Blocks |-> IF b = ToTenMinuteStart(m) THEN FoundRow(v, k) ELSE NoRow]
  /\ phase = "closed"
  /\ writer = "idle"
  /\ snapshot = [minute |-> 0, counts |-> Zero]
  /\ txn_minutes = << >>
  /\ txn_rollups = << >>
  /\ reader = "idle"
  /\ query = NoQuery
  /\ answer = EmptyAnswer
  /\ seen = [t \in Times |-> {}]
  /\ saves = 0
  /\ failures = 0

\* PRAGMA quick_check does not answer `ok': the file is refused unread.
RefuseFile ==
  /\ phase = "closed"
  /\ phase' = "refused"
  /\ UNCHANGED <<file, txn, reads, count>>

\* Initialize reads user_version: a newer schema is refused, a new file gets its
\* tables, any other is opened.
Initialize ==
  /\ phase = "closed"
  /\ phase' = CASE user_version > CurrentSchemaVersion -> "refused"
                [] user_version = 0                    -> "creating"
                [] user_version = CurrentSchemaVersion -> "open"
  /\ UNCHANGED <<file, txn, reads, count>>

\* Mutant: user_version is set before the last statement has run.
SchemaDoneEarly == tables >= Cardinality(Schema) - 1

SchemaDone == tables = Cardinality(Schema)

\* The next statement of kCreateSchema: CREATE TABLE IF NOT EXISTS, three times,
\* and the row of app_meta.
CreateTable ==
  /\ phase = "creating"
  /\ ~SchemaDone
  /\ tables' = tables + 1
  /\ UNCHANGED <<user_version, minute_buckets, rollup_10m, phase, txn, reads, count>>

\* PRAGMA user_version=1.
SetSchemaVersion ==
  /\ phase = "creating"
  /\ SchemaDone
  /\ user_version' = CurrentSchemaVersion
  /\ phase' = "open"
  /\ UNCHANGED <<tables, minute_buckets, rollup_10m, txn, reads, count>>

-----------------------------------------------------------------------------
(***************************************************************************)
(* UpsertMinuteBucket, by the save thread.  What it writes is in txn_...   *)
(* until COMMIT.                                                           *)
(***************************************************************************)
EndTransaction ==
  /\ writer' = "idle"
  /\ snapshot' = [minute |-> 0, counts |-> Zero]
  /\ txn_minutes' = << >>
  /\ txn_rollups' = << >>

\* BEGIN IMMEDIATE.  The snapshot is absolute and may count less than the row it
\* replaces: the save does not compare the two.
Begin(m, c) ==
  /\ phase = "open"
  /\ writer = "idle"
  /\ saves < MaxSaves
  /\ Total(c) > 0
  /\ writer' = "begun"
  /\ snapshot' = [minute |-> m, counts |-> c]
  /\ txn_minutes' = minute_buckets
  /\ txn_rollups' = rollup_10m
  /\ saves' = saves + 1
  /\ UNCHANGED <<file, phase, reads, failures>>

\* INSERT INTO minute_buckets ... ON CONFLICT DO UPDATE.
InsertMinute ==
  /\ writer = "begun"
  /\ txn_minutes' = [txn_minutes EXCEPT ![snapshot.minute] = NewRow(snapshot.counts)]
  /\ writer' = "inserted"
  /\ UNCHANGED <<file, phase, snapshot, txn_rollups, reads, count>>

\* Mutant: ValidateKeyMapVersion is not called for the rows of a block.
BlockUnchecked(minutes, b) == TRUE

\* RebuildTenMinuteRollup decodes every row of the block, or throws.
BlockReadable(minutes, b) ==
  \A t \in Rows(minutes, b, b + BlockLen) : Supported(minutes[t])

RebuildTenMinuteRollup ==
  LET b == ToTenMinuteStart(snapshot.minute) IN
  /\ writer = "inserted"
  /\ BlockReadable(txn_minutes, b)
  /\ txn_rollups' = [txn_rollups EXCEPT ![b] = Rollup(txn_minutes, b)]
  /\ writer' = "rebuilt"
  /\ UNCHANGED <<file, phase, snapshot, txn_minutes, reads, count>>

\* A query that runs will have seen the new rows, too.
Commit ==
  /\ writer = "rebuilt"
  /\ minute_buckets' = txn_minutes
  /\ rollup_10m' = txn_rollups
  /\ seen' = IF reader = "idle" THEN seen
             ELSE [t \in Times |-> seen[t] \cup {txn_minutes[t]}]
  /\ EndTransaction
  /\ UNCHANGED <<user_version, tables, phase, reader, query, answer, count>>

\* Mutant: the catch block commits instead.
KeepWrites ==
  /\ minute_buckets' = txn_minutes
  /\ rollup_10m' = txn_rollups

\* ROLLBACK: nothing that was written remains.
DropWrites == UNCHANGED <<minute_buckets, rollup_10m>>

\* A statement is refused (a full disk, a lock) ...
FailSave ==
  /\ writer # "idle"
  /\ failures < MaxFailures
  /\ failures' = failures + 1
  /\ DropWrites
  /\ EndTransaction
  /\ UNCHANGED <<user_version, tables, phase, reads, saves>>

\* ... or the block holds a row of an unsupported key map version.
RefuseBlock ==
  /\ writer = "inserted"
  /\ ~BlockReadable(txn_minutes, ToTenMinuteStart(snapshot.minute))
  /\ DropWrites
  /\ EndTransaction
  /\ UNCHANGED <<user_version, tables, phase, reads, count>>

-----------------------------------------------------------------------------
(***************************************************************************)
(* QueryAggregate (counts by key) and QueryTenMinuteTotals (totals by ten  *)
(* minutes), by the UI thread: minutes up to the first whole rollup,       *)
(* rollups, minutes after the last.                                        *)
(***************************************************************************)
First == RollupStart(query.start, query.end, BlockLen)
Last  == RollupEnd(query.start, query.end, BlockLen)

\* The answer with what one SELECT adds: AccumulateRows for the counts,
\* accumulate_minutes or accumulate_rollups for the series.
Accumulate(table, from, to) ==
  [counts |-> [k \in Keys |-> answer.counts[k] + Sum(table, from, to)[k]],
   series |-> [b \in Blocks |-> answer.series[b] + TotalIn(table, from, to, b)]]

EndQuery ==
  /\ reader' = "idle"
  /\ query' = NoQuery
  /\ answer' = EmptyAnswer
  /\ seen' = [t \in Times |-> {}]

\* ValidateRange refuses an empty range.
StartQuery(function, start, end) ==
  /\ phase = "open"
  /\ reader = "idle"
  /\ start < end
  /\ reader' = "head"
  /\ query' = [function |-> function, start |-> start, end |-> end]
  /\ answer' = EmptyAnswer
  /\ seen' = [t \in Times |-> {minute_buckets[t]}]
  /\ UNCHANGED <<file, phase, txn, count>>

\* QueryAggregate checks the key map version of each row, QueryTenMinuteTotals
\* reads only total_count.
Readable(table, from, to) ==
  query.function = "QueryAggregate" =>
    \A t \in Rows(table, from, to) : Supported(table[t])

\* One SELECT.
Select(at, table, from, to, next) ==
  /\ reader = at
  /\ Readable(table, from, to)
  /\ answer' = Accumulate(table, from, to)
  /\ reader' = next
  /\ UNCHANGED <<file, phase, txn, query, seen, count>>

SelectThrows(at, table, from, to) ==
  /\ reader = at
  /\ ~Readable(table, from, to)
  /\ EndQuery
  /\ UNCHANGED <<file, phase, txn, count>>

ReadHead    == Select("head", minute_buckets, query.start, First, "rollups")
ReadRollups == Select("rollups", rollup_10m, First, Last, "tail")
ReadTail    == Select("tail", minute_buckets, Last, query.end, "answered")

QueryThrows ==
  \/ SelectThrows("head", minute_buckets, query.start, First)
  \/ SelectThrows("rollups", rollup_10m, First, Last)
  \/ SelectThrows("tail", minute_buckets, Last, query.end)

Return ==
  /\ reader = "answered"
  /\ EndQuery
  /\ UNCHANGED <<file, phase, txn, count>>

-----------------------------------------------------------------------------
\* The process exits or is killed; SQLite discards an open transaction.
Exit ==
  /\ phase # "closed"
  /\ phase' = "closed"
  /\ EndTransaction
  /\ EndQuery
  /\ UNCHANGED <<file, saves, failures>>

Next ==
  \/ RefuseFile \/ Initialize \/ CreateTable \/ SetSchemaVersion
  \/ \E m \in Times, c \in [Keys -> 0 .. MaxRowCount] : Begin(m, c)
  \/ InsertMinute \/ RebuildTenMinuteRollup \/ Commit \/ FailSave \/ RefuseBlock
  \/ \E function \in {"QueryAggregate", "QueryTenMinuteTotals"},
        start \in Times, end \in {t + 1 : t \in Times} :
       StartQuery(function, start, end)
  \/ ReadHead \/ ReadRollups \/ ReadTail \/ QueryThrows \/ Return
  \/ Exit

Spec == Init /\ [][Next]_vars
-----------------------------------------------------------------------------
\* The tables and the transaction hold rows, counted in 32 bits.
TypeOK ==
  /\ user_version \in 0 .. 2
  /\ tables \in 0 .. Cardinality(Schema)
  /\ minute_buckets \in [Times -> Row \cup {NoRow}]
  /\ rollup_10m \in [Blocks -> Row \cup {NoRow}]
  /\ phase \in {"closed", "creating", "open", "refused"}
  /\ writer \in {"idle", "begun", "inserted", "rebuilt"}
  /\ writer # "idle" => /\ snapshot \in [minute : Times, counts : Counts]
                        /\ txn_minutes \in [Times -> Row \cup {NoRow}]
                        /\ txn_rollups \in [Blocks -> Row \cup {NoRow}]
  /\ reader \in {"idle", "head", "rollups", "tail", "answered"}
  /\ answer \in [counts : [Keys -> Nat], series : [Blocks -> Nat]]

\* A database whose user_version is set has its whole schema: a process killed
\* during the first start leaves a file the next start completes.
SchemaComplete == user_version > 0 => tables = Cardinality(Schema)

\* In every committed state a rollup is the sum of its minutes, unless that does
\* not fit 32 bits: the two tables are written by one transaction, which a
\* refusal or a kill at any statement undoes as a whole.
RollupsExact ==
  \A b \in Blocks :
    /\ rollup_10m[b] = NoRow <=> Rows(minute_buckets, b, b + BlockLen) = {}
    /\ rollup_10m[b].total_count = Total(rollup_10m[b].counts)
    /\ \A k \in Keys : BlockSum(minute_buckets, b)[k] <= MaxCount =>
         rollup_10m[b].counts[k] = BlockSum(minute_buckets, b)[k]

\* The tables a query may report: for each minute one of the rows it has had
\* since the query began.
Past ==
  {past \in [Times -> UNION {seen[t] : t \in Times}] :
     \A t \in Times : past[t] \in seen[t]}

\* In none of them does a rollup exceed 32 bits.
NoWrap ==
  \A past \in Past, b \in Blocks, k \in Keys : BlockSum(past, b)[k] <= MaxCount

\* QueryAggregate, while the save thread commits between its three SELECTs,
\* counts every minute of the range exactly once, with the counts of a row the
\* minute had while the query ran: the rollups and the cut ends neither overlap
\* nor leave a gap, and no save makes a minute count in both or in none.
AggregateOnce ==
  reader = "answered" /\ NoWrap =>
    \E past \in Past : answer.counts = Sum(past, query.start, query.end)

\* QueryTenMinuteTotals likewise, in each ten minutes, the cut ones at both ends
\* of the range included.
SeriesOnce ==
  reader = "answered" /\ NoWrap =>
    \E past \in Past :
      answer.series = [b \in Blocks |-> TotalIn(past, query.start, query.end, b)]

\* QueryAggregate never counts a row of an unsupported key map version, directly
\* or through the rollup of its block.
AnswerReadable ==
  reader = "answered" /\ query.function = "QueryAggregate" =>
    \A t \in Rows(minute_buckets, query.start, query.end) : Supported(minute_buckets[t])
=============================================================================
