--------------------------- MODULE DataFilesProofs ----------------------------
(*****************************************************************************)
(* Blobs, for any number of keys and all 32-bit counts; the settings file    *)
(* and the export, for every set of files a user may make of the first and   *)
(* every old row, and any number of presses, starts, kills, failed calls and *)
(* edits.                                                                    *)
(*****************************************************************************)
EXTENDS DataFiles, MinuteLedgerProofs

-------------------------------------------------------------------------------
(* What CountVectorCodec encodes it reads back, and what it accepts it has encoded. *)
UInt16 == {n \in Nat : n < 65536}
UInt32 == {n \in Nat : n < 4294967296}

CountVectors == [KeyIndexes -> UInt32]

-----------------------------------------------------------------------------
\* WriteU16 writes bytes, from which ReadU16 puts the value together again.
LEMMA Bytes16 ==
  ASSUME NEW v \in UInt16
  PROVE  /\ ByteOf(v, 0) \in Bytes /\ ByteOf(v, 1) \in Bytes
         /\ ByteOf(v, 0) + 256 * ByteOf(v, 1) = v
<1> DEFINE q == v \div 256
<1>1. v \in Nat /\ v < 65536
  BY SMT DEF UInt16
<1>2. q \in Nat /\ q < 256 /\ v % 256 = v - 256 * q /\ v % 256 \in 0 .. 255
  BY SMT, <1>1
<1>3. ByteOf(v, 0) = v % 256 /\ ByteOf(v, 1) = q % 256
  BY SMT DEF ByteOf
<1> HIDE DEF q
<1>4. q % 256 = q /\ q \in 0 .. 255
  BY SMT, <1>2
<1> QED
  BY SMT, <1>1, <1>2, <1>3, <1>4 DEF Bytes

\* WriteU32 and ReadU32 likewise.
LEMMA Bytes32 ==
  ASSUME NEW v \in UInt32
  PROVE  /\ \A b \in 0 .. 3 : ByteOf(v, b) \in Bytes
         /\ ByteOf(v, 0) + 256 * ByteOf(v, 1) + 65536 * ByteOf(v, 2)
              + 16777216 * ByteOf(v, 3) = v
<1> DEFINE q1 == v \div 256
           q2 == v \div 65536
           q3 == v \div 16777216
<1>1. v \in Nat /\ v < 4294967296
  BY SMT DEF UInt32
<1>2. /\ q1 \in Nat /\ 256 * q1 <= v /\ v < 256 * q1 + 256
      /\ q2 \in Nat /\ 65536 * q2 <= v /\ v < 65536 * q2 + 65536
      /\ q3 \in Nat /\ 16777216 * q3 <= v /\ v < 16777216 * q3 + 16777216
  BY SMT, <1>1
<1>3. /\ ByteOf(v, 0) = v % 256 /\ ByteOf(v, 1) = q1 % 256
      /\ ByteOf(v, 2) = q2 % 256 /\ ByteOf(v, 3) = q3 % 256
  BY SMT DEF ByteOf
<1>4. v % 256 = v - 256 * q1 /\ v % 256 \in 0 .. 255
  BY SMT, <1>1
<1> HIDE DEF q1, q2, q3
<1>5. q2 \div 256 = q3 /\ q1 \div 256 = q2
  BY SMT, <1>1, <1>2
<1>6. q1 % 256 = q1 - 256 * q2 /\ q1 % 256 \in 0 .. 255
  BY SMT, <1>2, <1>5
<1>7. q2 % 256 = q2 - 256 * q3 /\ q2 % 256 \in 0 .. 255
  BY SMT, <1>2, <1>5
<1>8. q3 % 256 = q3 /\ q3 % 256 \in 0 .. 255
  BY SMT, <1>1, <1>2
<1>9. \A b \in 0 .. 3 : ByteOf(v, b) \in Bytes
  <2> TAKE b \in 0 .. 3
  <2>1. b = 0 \/ b = 1 \/ b = 2 \/ b = 3
    BY SMT
  <2> QED
    BY SMT, <2>1, <1>3, <1>4, <1>6, <1>7, <1>8 DEF Bytes
<1>10. (v % 256) + 256 * (q1 % 256) + 65536 * (q2 % 256) + 16777216 * (q3 % 256) = v
  BY SMT, <1>1, <1>2, <1>4, <1>6, <1>7, <1>8
<1>11. ByteOf(v, 0) + 256 * ByteOf(v, 1) + 65536 * ByteOf(v, 2) + 16777216 * ByteOf(v, 3)
          = (v % 256) + 256 * (q1 % 256) + 65536 * (q2 % 256) + 16777216 * (q3 % 256)
  BY SMT, <1>3
<1> QED
  BY SMT, <1>9, <1>10, <1>11

\* The other way round: bytes are what is written of the value read from them.
LEMMA Bytes16Back ==
  ASSUME NEW b0 \in Bytes, NEW b1 \in Bytes
  PROVE  /\ b0 + 256 * b1 \in UInt16
         /\ ByteOf(b0 + 256 * b1, 0) = b0
         /\ ByteOf(b0 + 256 * b1, 1) = b1
<1> DEFINE v == b0 + 256 * b1
<1>1. v \in UInt16
  BY SMT DEF Bytes, UInt16
<1>2. v \div 256 = b1 /\ v % 256 = b0 /\ b1 % 256 = b1
  BY SMT DEF Bytes
<1> QED
  BY SMT, <1>1, <1>2 DEF ByteOf

\* The value of four bytes, and that the count of an entry is one.
Word(b0, b1, b2, b3) == b0 + 256 * b1 + 65536 * b2 + 16777216 * b3

LEMMA CountIsWord ==
  ASSUME NEW data, NEW e, EntryOffset(e) \in Nat
  PROVE  LET o == EntryOffset(e)
         IN  CountAt(data, e) = Word(data[o + 3], data[o + 4], data[o + 5], data[o + 6])
<1> DEFINE o == EntryOffset(e)
<1>1. CountAt(data, e) = ReadU32(data, o + 2)
  BY DEF CountAt
<1> HIDE DEF o
<1>2. o + 2 + 1 = o + 3 /\ o + 2 + 2 = o + 4 /\ o + 2 + 3 = o + 5 /\ o + 2 + 4 = o + 6
  BY SMT DEF o
<1>3. ReadU32(data, o + 2) = Word(data[o + 3], data[o + 4], data[o + 5], data[o + 6])
  BY <1>2 DEF ReadU32, Word
<1> QED
  BY <1>1, <1>3 DEF o

LEMMA Bytes32Back ==
  ASSUME NEW b0 \in Bytes, NEW b1 \in Bytes, NEW b2 \in Bytes, NEW b3 \in Bytes,
         NEW v, v = Word(b0, b1, b2, b3)
  PROVE  /\ v \in UInt32
         /\ ByteOf(v, 0) = b0 /\ ByteOf(v, 1) = b1
         /\ ByteOf(v, 2) = b2 /\ ByteOf(v, 3) = b3
<1>0. v = b0 + 256 * b1 + 65536 * b2 + 16777216 * b3
  BY DEF Word
<1>1. v \in UInt32
  BY SMT, <1>0 DEF Bytes, UInt32
<1>2. /\ v \div 256 = b1 + 256 * b2 + 65536 * b3
      /\ v \div 65536 = b2 + 256 * b3
      /\ v \div 16777216 = b3
  BY SMT, <1>0 DEF Bytes
<1>3. /\ v % 256 = b0
      /\ (b1 + 256 * b2 + 65536 * b3) % 256 = b1
      /\ (b2 + 256 * b3) % 256 = b2
      /\ b3 % 256 = b3
  BY SMT, <1>0 DEF Bytes
<1> QED
  BY SMT, <1>1, <1>2, <1>3 DEF ByteOf
-----------------------------------------------------------------------------
\* A listing has at most KeyCount entries, so that their number fits 16 bits.
LEMMA ListingFits ==
  ASSUME NEW S \in SUBSET KeyIndexes, NEW order, IsListing(order, S)
  PROVE  /\ order \in [1 .. Len(order) -> S]
         /\ Len(order) \in UInt16
<1>1. order \in [1 .. Len(order) -> S] /\ Len(order) \in Nat
  BY DEF IsListing
<1>2. order \in Injection(1 .. Len(order), KeyIndexes)
  BY <1>1 DEF IsListing, Injection, IsInjective
<1>3. IsFiniteSet(KeyIndexes) /\ Cardinality(KeyIndexes) = KeyCount
  BY FS_Interval, CodecAssumption DEF KeyIndexes
<1>4. Cardinality(1 .. Len(order)) <= Cardinality(KeyIndexes)
  BY <1>2, <1>3, FS_Injection
<1>5. Cardinality(1 .. Len(order)) = Len(order)
  <2>1. 1 \in Int /\ Len(order) \in Int
    BY SMT, <1>1
  <2>2. Cardinality(1 .. Len(order)) = IF 1 > Len(order) THEN 0 ELSE Len(order) - 1 + 1
    BY <2>1, FS_Interval
  <2> QED
    BY SMT, <1>1, <2>2
<1>6. Len(order) < 65536
  BY SMT, <1>1, <1>3, <1>4, <1>5, CodecAssumption
<1> QED
  BY SMT, <1>1, <1>6 DEF UInt16

\* Byte b of entry e, b = 0 the first, is at this position.
LEMMA EntryBytes ==
  ASSUME NEW n \in Nat, NEW e \in 1 .. n, NEW b \in 0 .. 5
  PROVE  LET p == EntryOffset(e) + 1 + b
         IN  /\ p \in 1 .. kHeaderSize + kEntrySize * n
             /\ p > kHeaderSize
             /\ (p - 4) \div kEntrySize + 1 = e
             /\ (p - 4) % kEntrySize = b
BY SMT DEF EntryOffset, kHeaderSize, kEntrySize

\* The header and the entries of what is encoded.
LEMMA EncodedHeader ==
  ASSUME NEW counts \in CountVectors, NEW order, IsListing(order, NonZero(counts))
  PROVE  LET data == EncodeEntries(counts, order)
         IN  /\ Len(data) = kHeaderSize + kEntrySize * Len(order)
             /\ data[1] = kFormatVersion
             /\ EntryCount(data) = Len(order)
<1> DEFINE data == EncodeEntries(counts, order)
<1>1. Len(order) \in UInt16
  BY ListingFits DEF NonZero
<1>2. Len(order) \in Nat
  BY SMT, <1>1 DEF UInt16
<1>3. Len(data) = kHeaderSize + kEntrySize * Len(order)
  BY SMT, <1>2 DEF EncodeEntries, kHeaderSize, kEntrySize
<1>4. /\ data[1] = kFormatVersion
      /\ data[2] = ByteOf(Len(order), 0)
      /\ data[3] = ByteOf(Len(order), 1)
  BY SMT, <1>2 DEF EncodeEntries, kHeaderSize, kEntrySize
<1>5. EntryCount(data) = Len(order)
  BY SMT, <1>1, <1>4, Bytes16 DEF EntryCount, ReadU16
<1> QED
  BY <1>3, <1>4, <1>5

LEMMA EncodedEntry ==
  ASSUME NEW counts \in CountVectors, NEW order, IsListing(order, NonZero(counts)),
         NEW e \in 1 .. Len(order)
  PROVE  LET data == EncodeEntries(counts, order)
         IN  /\ KeyAt(data, e) = order[e]
             /\ CountAt(data, e) = counts[order[e]]
<1> DEFINE data == EncodeEntries(counts, order)
           key  == order[e]
<1>1. /\ order \in [1 .. Len(order) -> NonZero(counts)]
      /\ Len(order) \in Nat
  BY ListingFits DEF NonZero, UInt16
<1>2. key \in KeyIndexes /\ key \in UInt16
  BY SMT, <1>1, CodecAssumption DEF NonZero, KeyIndexes, UInt16
<1>3. counts[key] \in UInt32
  BY <1>2 DEF CountVectors
<1>4. ASSUME NEW b \in 0 .. 5
      PROVE  data[EntryOffset(e) + 1 + b]
               = IF b < 2 THEN ByteOf(key, b) ELSE ByteOf(counts[key], b - 2)
  <2> DEFINE p == EntryOffset(e) + 1 + b
  <2>1. /\ p \in 1 .. kHeaderSize + kEntrySize * Len(order)
        /\ p > kHeaderSize
        /\ (p - 4) \div kEntrySize + 1 = e
        /\ (p - 4) % kEntrySize = b
    BY <1>1, EntryBytes
  <2>2. p # 1
    BY SMT, <2>1 DEF kHeaderSize, kEntrySize
  <2> HIDE DEF p
  <2>3. data[p] = IF b < 2 THEN ByteOf(key, b) ELSE ByteOf(counts[key], b - 2)
    BY SMT, <2>1, <2>2 DEF EncodeEntries, kHeaderSize
  <2> QED
    BY <2>3 DEF p
<1>5. EntryOffset(e) \in Nat
  BY SMT, <1>1 DEF EntryOffset, kHeaderSize, kEntrySize
<1> DEFINE o == EntryOffset(e)
<1> HIDE DEF data, o
<1>6. /\ data[o + 1] = ByteOf(key, 0) /\ data[o + 2] = ByteOf(key, 1)
      /\ data[o + 3] = ByteOf(counts[key], 0) /\ data[o + 4] = ByteOf(counts[key], 1)
      /\ data[o + 5] = ByteOf(counts[key], 2) /\ data[o + 6] = ByteOf(counts[key], 3)
  BY SMT, <1>4, <1>5 DEF o
<1>7. KeyAt(data, e) = key
  BY SMT, <1>2, <1>5, <1>6, Bytes16 DEF KeyAt, ReadU16, o
<1>8. CountAt(data, e) = counts[key]
  <2>1. CountAt(data, e) = data[o + 3] + 256 * data[o + 4] + 65536 * data[o + 5]
                             + 16777216 * data[o + 6]
    BY <1>5, CountIsWord DEF Word, o
  <2> QED
    BY SMT, <2>1, <1>6, <1>3, Bytes32
<1> QED
  BY <1>7, <1>8 DEF data

-----------------------------------------------------------------------------
\* What Encode writes of any counts, whatever the order of the entries, Decode
\* accepts, and it returns these counts: count_vector_codec.cpp, both ways.
THEOREM EncodedIsReadBack ==
  ASSUME NEW counts \in CountVectors, NEW order, IsListing(order, NonZero(counts))
  PROVE  ReadsBack(counts, order)
<1> DEFINE data == EncodeEntries(counts, order)
<1>1. /\ Len(data) = kHeaderSize + kEntrySize * Len(order)
      /\ data[1] = kFormatVersion
      /\ EntryCount(data) = Len(order)
  BY EncodedHeader
<1>2. \A e \in 1 .. Len(order) : KeyAt(data, e) = order[e] /\ CountAt(data, e) = counts[order[e]]
  BY EncodedEntry
<1>3. order \in [1 .. Len(order) -> NonZero(counts)] /\ Len(order) \in Nat
  <2>1. NonZero(counts) \in SUBSET KeyIndexes
    BY DEF NonZero
  <2>2. order \in [1 .. Len(order) -> NonZero(counts)] /\ Len(order) \in UInt16
    BY <2>1, ListingFits
  <2> QED
    BY <2>2 DEF UInt16
<1> HIDE DEF data
<1>4. Len(data) >= kHeaderSize
  BY SMT, <1>1, <1>3 DEF kHeaderSize, kEntrySize
<1>5. ASSUME NEW e \in 1 .. Len(order)
      PROVE  /\ KeyAt(data, e) < KeyCount
             /\ FirstOfKey(data, e)
             /\ CountAt(data, e) # 0
  <2>1. order[e] \in KeyIndexes /\ counts[order[e]] # 0
    BY <1>3 DEF NonZero
  <2>2. order[e] < KeyCount
    BY SMT, <2>1, CodecAssumption DEF KeyIndexes
  <2>3. \A f \in 1 .. e - 1 : f \in 1 .. Len(order) /\ f # e
    BY SMT, <1>3
  <2>4. FirstOfKey(data, e)
    <3>1. \A f \in 1 .. e - 1 : order[f] # order[e]
      BY Zenon, <2>3 DEF IsListing
    <3> QED
      BY Zenon, <2>3, <3>1, <1>2 DEF FirstOfKey
  <2> QED
    BY <2>1, <2>2, <2>4, <1>2
<1>6. Accepts(data)
  BY <1>1, <1>4, <1>5 DEF Accepts
<1>7. ASSUME NEW k \in KeyIndexes
      PROVE  Decode(data)[k] = counts[k]
  <2>1. CASE \E e \in 1 .. Len(order) : order[e] = k
    <3> DEFINE c == CHOOSE e \in 1 .. EntryCount(data) : KeyAt(data, e) = k
    <3>1. \E e \in 1 .. EntryCount(data) : KeyAt(data, e) = k
      BY <2>1, <1>1, <1>2
    <3>2. c \in 1 .. EntryCount(data) /\ KeyAt(data, c) = k
      BY <3>1
    <3>3. Decode(data)[k] = CountAt(data, c)
      BY <3>1 DEF Decode
    <3> HIDE DEF c
    <3> QED
      BY <3>2, <3>3, <1>1, <1>2
  <2>2. CASE ~ \E e \in 1 .. Len(order) : order[e] = k
    <3>1. ~ \E e \in 1 .. EntryCount(data) : KeyAt(data, e) = k
      BY <2>2, <1>1, <1>2
    <3>2. counts[k] = 0
      BY <2>2 DEF IsListing, NonZero
    <3> QED
      BY <3>1, <3>2 DEF Decode
  <2> QED
    BY <2>1, <2>2
<1>8. Decode(data) = counts
  BY <1>7 DEF Decode, CountVectors
<1> QED
  BY <1>6, <1>8 DEF ReadsBack, data

\* Whatever bytes a minute's blob consists of: if Decode accepts them, they are
\* what encoding the counts it returns writes, entry for entry.
THEOREM AcceptedOnlyEncodings ==
  ASSUME NEW data \in Seq(Bytes)
  PROVE  AcceptedIsEncoding(data)
<1> SUFFICES ASSUME Accepts(data)
    PROVE  data = EncodeEntries(Decode(data),
                                [e \in 1 .. EntryCount(data) |-> KeyAt(data, e)])
  BY DEF AcceptedIsEncoding
<1> DEFINE n == EntryCount(data)
           order == [e \in 1 .. n |-> KeyAt(data, e)]
           size == kHeaderSize + kEntrySize * n
<1>1. /\ Len(data) >= 3 /\ data[1] = 1 /\ Len(data) = size
      /\ data \in [1 .. Len(data) -> Bytes]
  BY DEF Accepts, kHeaderSize, kFormatVersion
<1>2. /\ n \in UInt16
      /\ data[2] = ByteOf(n, 0) /\ data[3] = ByteOf(n, 1)
  <2>1. data[2] \in Bytes /\ data[3] \in Bytes /\ n = data[2] + 256 * data[3]
    BY SMT, <1>1 DEF EntryCount, ReadU16
  <2> HIDE DEF n
  <2> QED
    BY <2>1, Bytes16Back
<1>3. n \in Nat
  BY SMT, <1>2 DEF UInt16
<1> HIDE DEF n
<1>4. Len(order) = n
  BY <1>3
<1>5. ASSUME NEW e \in 1 .. n, NEW b \in 0 .. 5
      PROVE  LET p == EntryOffset(e) + 1 + b
             IN  data[p] = IF b < 2 THEN ByteOf(KeyAt(data, e), b)
                                    ELSE ByteOf(CountAt(data, e), b - 2)
  <2> DEFINE o == EntryOffset(e)
  <2>1. o \in Nat
    BY SMT, <1>3 DEF EntryOffset, kHeaderSize, kEntrySize
  <2>2. \A c \in 0 .. 5 : data[o + 1 + c] \in Bytes
    BY <1>1, <1>3, EntryBytes
  <2> HIDE DEF o
  <2>3. /\ data[o + 1] \in Bytes /\ data[o + 2] \in Bytes /\ data[o + 3] \in Bytes
        /\ data[o + 4] \in Bytes /\ data[o + 5] \in Bytes /\ data[o + 6] \in Bytes
    BY SMT, <2>1, <2>2
  <2>4. KeyAt(data, e) = data[o + 1] + 256 * data[o + 2]
    BY SMT, <2>1 DEF KeyAt, ReadU16, o
  <2>5. CountAt(data, e) = Word(data[o + 3], data[o + 4], data[o + 5], data[o + 6])
    BY <2>1, CountIsWord DEF o
  <2>6. /\ ByteOf(KeyAt(data, e), 0) = data[o + 1]
        /\ ByteOf(KeyAt(data, e), 1) = data[o + 2]
    BY <2>3, <2>4, Bytes16Back
  <2>7. /\ ByteOf(CountAt(data, e), 0) = data[o + 3]
        /\ ByteOf(CountAt(data, e), 1) = data[o + 4]
        /\ ByteOf(CountAt(data, e), 2) = data[o + 5]
        /\ ByteOf(CountAt(data, e), 3) = data[o + 6]
    BY <2>3, <2>5, Bytes32Back
  <2>8. b = 0 \/ b = 1 \/ b = 2 \/ b = 3 \/ b = 4 \/ b = 5
    BY SMT
  <2>9. data[o + 1 + b] = IF b < 2 THEN ByteOf(KeyAt(data, e), b)
                                   ELSE ByteOf(CountAt(data, e), b - 2)
    <3>1. CASE b = 0 \/ b = 1
      BY SMT, <2>1, <2>6, <3>1
    <3>2. CASE b = 2 \/ b = 3
      BY SMT, <2>1, <2>7, <3>2
    <3>3. CASE b = 4 \/ b = 5
      BY SMT, <2>1, <2>7, <3>3
    <3> QED
      BY <2>8, <3>1, <3>2, <3>3
  <2> QED
    BY <2>9 DEF o
<1>6. ASSUME NEW e \in 1 .. n
      PROVE  Decode(data)[KeyAt(data, e)] = CountAt(data, e)
  <2> DEFINE k == KeyAt(data, e)
             c == CHOOSE f \in 1 .. EntryCount(data) : KeyAt(data, f) = k
  <2>1. k < KeyCount /\ \A f \in 1 .. n : FirstOfKey(data, f)
    BY DEF Accepts, n
  <2>2. k \in KeyIndexes
    <3> DEFINE o == EntryOffset(e)
    <3>1. data[o + 1] \in Nat /\ data[o + 2] \in Nat
      <4>1. o \in Nat
        BY SMT, <1>3 DEF EntryOffset, kHeaderSize, kEntrySize
      <4>2. \A p \in 0 .. 5 : data[o + 1 + p] \in Bytes
        BY <1>1, <1>3, EntryBytes
      <4> HIDE DEF o
      <4>3. data[o + 1] \in Bytes /\ data[o + 2] \in Bytes
        BY SMT, <4>1, <4>2
      <4>4. \A byte \in Bytes : byte \in Nat
        BY SMT DEF Bytes
      <4> QED
        BY <4>3, <4>4
    <3>2. k = data[o + 1] + 256 * data[o + 2]
      BY DEF KeyAt, ReadU16
    <3> HIDE DEF o, k
    <3>3. k \in Nat
      BY SMT, <3>1, <3>2
    <3> QED
      BY SMT, <2>1, <3>3, CodecAssumption DEF KeyIndexes
  <2>3. \E f \in 1 .. EntryCount(data) : KeyAt(data, f) = k
    BY DEF n
  <2>4. c \in 1 .. n /\ KeyAt(data, c) = k
    BY <2>3 DEF n
  <2>5. Decode(data)[k] = CountAt(data, c)
    BY <2>2, <2>3 DEF Decode
  <2> HIDE DEF c
  <2>6. c = e
    <3>1. c < e => c \in 1 .. e - 1
      BY SMT, <2>4, <1>3
    <3>2. e < c => e \in 1 .. c - 1
      BY SMT, <2>4, <1>3
    <3>3. ~(c < e) /\ ~(e < c)
      BY <3>1, <3>2, <2>1, <2>4 DEF FirstOfKey
    <3> QED
      BY SMT, <3>3, <2>4, <1>3
  <2> QED
    BY <2>5, <2>6
<1>7. ASSUME NEW p \in 1 .. size
      PROVE  data[p] = EncodeEntries(Decode(data), order)[p]
  <2> DEFINE e == (p - 4) \div kEntrySize + 1
             b == (p - 4) % kEntrySize
             counts == Decode(data)
  <2>0. p \in 1 .. kHeaderSize + kEntrySize * Len(order)
    BY <1>4
  <2> HIDE DEF order, counts
  <2>1. CASE p <= kHeaderSize
    <3>1. p = 1 \/ p = 2 \/ p = 3
      BY SMT, <2>1, <1>3 DEF kHeaderSize, kEntrySize
    <3>2. EncodeEntries(counts, order)[p]
            = IF p = 1 THEN kFormatVersion ELSE ByteOf(n, p - 2)
      BY <2>0, <2>1, <1>4 DEF EncodeEntries
    <3>3. data[p] = EncodeEntries(counts, order)[p]
      BY SMT, <3>1, <3>2, <1>1, <1>2 DEF kFormatVersion
    <3> QED
      BY <3>3 DEF order, counts
  <2>2. CASE p > kHeaderSize
    <3>1. e \in 1 .. n /\ b \in 0 .. 5 /\ p = EntryOffset(e) + 1 + b
      BY SMT, <2>2, <1>3 DEF EntryOffset, kHeaderSize, kEntrySize
    <3>2. p # 1 /\ ~(p <= kHeaderSize)
      BY SMT, <2>2 DEF kHeaderSize, kEntrySize
    <3>3. EncodeEntries(counts, order)[p]
            = IF b < 2 THEN ByteOf(order[e], b) ELSE ByteOf(counts[order[e]], b - 2)
      BY <2>0, <3>2 DEF EncodeEntries
    <3> HIDE DEF e, b
    <3>4. order[e] = KeyAt(data, e)
      BY <3>1 DEF order
    <3>5. counts[order[e]] = CountAt(data, e)
      BY <3>1, <3>4, <1>6 DEF counts
    <3>6. data[p] = EncodeEntries(counts, order)[p]
      BY <3>1, <3>3, <3>4, <3>5, <1>5
    <3> QED
      BY <3>6 DEF order, counts
  <2>3. p <= kHeaderSize \/ p > kHeaderSize
    BY SMT, <1>3 DEF kHeaderSize, kEntrySize
  <2> QED
    BY <2>1, <2>2, <2>3
<1>8. data = EncodeEntries(Decode(data), order)
  <2> HIDE DEF order
  <2>1. EncodeEntries(Decode(data), order)
          = [p \in 1 .. size |-> EncodeEntries(Decode(data), order)[p]]
    BY <1>4 DEF EncodeEntries
  <2>2. data = [p \in 1 .. size |-> data[p]]
    BY <1>1
  <2> HIDE DEF size
  <2> QED
    BY <2>1, <2>2, <1>7
<1> QED
  BY <1>8 DEF n

-----------------------------------------------------------------------------
\* Every set of indexes can be put in order, by induction on a bound of them.
Increasing(order, S) ==
  /\ order \in [1 .. Cardinality(S) -> S]
  /\ \A i, j \in 1 .. Cardinality(S) : i < j => order[i] < order[j]

LEMMA OrdersExist ==
  \A n \in Nat : \A T \in SUBSET (0 .. n - 1) : \E order : Increasing(order, T)
<1> DEFINE P == {n \in Nat : \A T \in SUBSET (0 .. n - 1) : \E order : Increasing(order, T)}
<1>1. 0 \in P
  <2> SUFFICES ASSUME NEW T \in SUBSET (0 .. 0 - 1)
               PROVE  \E order : Increasing(order, T)
    OBVIOUS
  <2>1. 0 .. 0 - 1 = {}
    OBVIOUS
  <2>2. T = {} /\ Cardinality(T) = 0
    BY <2>1, FS_EmptySet
  <2>3. Increasing([i \in 1 .. 0 |-> 0], T)
    BY <2>2 DEF Increasing
  <2> QED
    BY <2>3
<1>2. ASSUME NEW n \in P
      PROVE  n + 1 \in P
  <2> SUFFICES ASSUME NEW T \in SUBSET (0 .. (n + 1) - 1)
               PROVE  \E order : Increasing(order, T)
    OBVIOUS
  <2>0. n \in Nat
    OBVIOUS
  <2>1. CASE n \notin T
    <3>1. T \in SUBSET (0 .. n - 1)
      BY <2>0, <2>1
    <3> QED
      BY <3>1
  <2>2. CASE n \in T
    <3> DEFINE rest == T \ {n}
               c == Cardinality(rest)
    <3>1. rest \in SUBSET (0 .. n - 1)
      BY <2>0
    <3>2. PICK order : Increasing(order, rest)
      BY <3>1
    <3>3. c \in Nat /\ Cardinality(T) = c + 1
      <4>1. IsFiniteSet(0 .. n - 1)
        BY <2>0, FS_Interval
      <4>2. IsFiniteSet(rest)
        BY <3>1, <4>1, FS_Subset
      <4>3. rest \cup {n} = T /\ n \notin rest
        BY <2>2
      <4>4. Cardinality(rest \cup {n}) = Cardinality(rest) + 1
        BY <4>2, <4>3, FS_AddElement
      <4> QED
        BY <4>2, <4>3, <4>4, FS_CardinalityType
    <3>4. /\ order \in [1 .. c -> rest]
          /\ \A i, j \in 1 .. c : i < j => order[i] < order[j]
      BY <3>2 DEF Increasing
    <3>5. \A x \in rest : x \in T /\ x \in Nat /\ x < n
      BY <2>0, <3>1
    <3> HIDE DEF c, rest
    <3>6. \A i \in 1 .. c : order[i] \in T /\ order[i] \in Nat /\ order[i] < n
      BY <3>4, <3>5
    <3> DEFINE longer == [i \in 1 .. c + 1 |-> IF i <= c THEN order[i] ELSE n]
    <3>7. longer \in [1 .. c + 1 -> T]
      BY <2>2, <3>3, <3>6
    <3>8. ASSUME NEW i \in 1 .. c + 1, NEW j \in 1 .. c + 1, i < j
          PROVE  longer[i] < longer[j]
      <4>1. i \in 1 .. c /\ longer[i] = order[i]
        BY <3>3, <3>8
      <4>2. \/ j \in 1 .. c /\ longer[j] = order[j]
            \/ longer[j] = n
        BY <3>3
      <4> QED
        BY <3>4, <3>6, <3>8, <4>1, <4>2
    <3>9. Increasing(longer, T)
      BY <3>3, <3>7, <3>8 DEF Increasing
    <3> QED
      BY <3>9
  <2> QED
    BY <2>1, <2>2
<1>3. P = Nat
  <2> HIDE DEF P
  <2>1. P \in SUBSET Nat
    BY DEF P
  <2> QED
    BY <1>1, <1>2, <2>1, Induction
<1> QED
  BY <1>3

\* The order of Encode has every index, and none twice.
LEMMA InOrderLists ==
  ASSUME NEW S \in SUBSET KeyIndexes
  PROVE  IsListing(InOrder(S), S)
<1> DEFINE order == InOrder(S)
           c == Cardinality(S)
<1>1. IsFiniteSet(S) /\ c \in Nat
  <2>1. IsFiniteSet(KeyIndexes)
    BY FS_Interval, CodecAssumption DEF KeyIndexes
  <2> QED
    BY <2>1, FS_Subset, FS_CardinalityType
<1>2. Increasing(order, S)
  <2>1. \E o : Increasing(o, S)
    <3>1. KeyCount \in Nat /\ S \in SUBSET (0 .. KeyCount - 1)
      BY CodecAssumption DEF KeyIndexes
    <3> QED
      BY <3>1, OrdersExist
  <2>2. \E o \in [1 .. Cardinality(S) -> S] :
          \A i, j \in 1 .. Cardinality(S) : i < j => o[i] < o[j]
    BY <2>1 DEF Increasing
  <2> QED
    BY <2>2 DEF Increasing, InOrder
<1> HIDE DEF order
<1>3. order \in [1 .. c -> S] /\ \A i, j \in 1 .. c : i < j => order[i] < order[j]
  BY <1>2 DEF Increasing
<1>4. \A i \in 1 .. c : order[i] \in Int
  <2>1. S \subseteq Int
    BY DEF KeyIndexes
  <2> HIDE DEF c
  <2> QED
    BY <1>3, <2>1
<1>5. \A i, j \in 1 .. c : order[i] = order[j] => i = j
  <2> SUFFICES ASSUME NEW i \in 1 .. c, NEW j \in 1 .. c, order[i] = order[j], i # j
               PROVE  FALSE
    OBVIOUS
  <2>1. i < j \/ j < i
    BY <1>1
  <2>2. order[i] < order[j] \/ order[j] < order[i]
    BY <1>3, <2>1
  <2> QED
    BY <1>4, <2>2
<1>6. order \in Injection(1 .. c, S)
  BY <1>3, <1>5 DEF Injection, IsInjective
<1>7. Cardinality(1 .. c) = c
  <2>1. Cardinality(1 .. c) = IF 1 > c THEN 0 ELSE c - 1 + 1
    BY <1>1, FS_Interval
  <2> QED
    BY <1>1, <2>1
<1>8. order \in Surjection(1 .. c, S)
  BY <1>1, <1>6, <1>7, FS_Injection
<1>9. \A k \in S : \E i \in 1 .. c : order[i] = k
  BY <1>8 DEF Surjection
<1>10. order \in Seq(S) /\ Len(order) = c
  BY <1>1, <1>3
<1>11. IsListing(order, S)
  BY <1>5, <1>9, <1>10 DEF IsListing
<1> QED
  BY <1>11 DEF order

LEMMA CountsAreVectors == Keys = KeyIndexes /\ Counts \subseteq CountVectors
<1>1. \A c \in 0 .. MaxCount : c \in UInt32
  BY SMT, LedgerAssumption, FilesAssumption DEF UInt32
<1> QED
  BY <1>1, FilesAssumption DEF Counts, CountVectors

\* What is encoded are bytes.
LEMMA EncodedBytes ==
  ASSUME NEW counts \in CountVectors, NEW order, IsListing(order, NonZero(counts))
  PROVE  EncodeEntries(counts, order) \in Seq(Bytes)
<1> DEFINE data == EncodeEntries(counts, order)
           n == Len(order)
           size == kHeaderSize + kEntrySize * n
<1>1. order \in [1 .. n -> NonZero(counts)] /\ n \in UInt16
  BY ListingFits DEF NonZero
<1>2. n \in Nat /\ size \in Nat
  BY SMT, <1>1 DEF UInt16, kHeaderSize, kEntrySize
<1> HIDE DEF n
<1>3. ASSUME NEW p \in 1 .. size
      PROVE  data[p] \in Bytes
  <2> DEFINE e == (p - 4) \div kEntrySize + 1
             b == (p - 4) % kEntrySize
  <2>1. CASE p <= kHeaderSize
    <3>1. p = 1 \/ p - 2 = 0 \/ p - 2 = 1
      BY SMT, <1>2, <2>1 DEF kHeaderSize, kEntrySize
    <3>2. data[p] = IF p = 1 THEN kFormatVersion ELSE ByteOf(n, p - 2)
      BY <2>1 DEF EncodeEntries, n
    <3>3. ByteOf(n, 0) \in Bytes /\ ByteOf(n, 1) \in Bytes /\ kFormatVersion \in Bytes
      BY <1>1, Bytes16 DEF kFormatVersion, Bytes
    <3> HIDE DEF data
    <3> QED
      BY <3>1, <3>2, <3>3
  <2>2. CASE ~(p <= kHeaderSize)
    <3>1. e \in 1 .. n /\ b \in 0 .. 5 /\ p # 1
      BY SMT, <1>2, <2>2 DEF kHeaderSize, kEntrySize
    <3>2. data[p] = IF b < 2 THEN ByteOf(order[e], b) ELSE ByteOf(counts[order[e]], b - 2)
      BY <2>2, <3>1 DEF EncodeEntries, n
    <3> HIDE DEF data, e, b
    <3>3. order[e] \in UInt16 /\ counts[order[e]] \in UInt32
      <4>1. order[e] \in KeyIndexes
        BY <1>1, <3>1 DEF NonZero
      <4> QED
        BY SMT, <4>1, CodecAssumption DEF KeyIndexes, UInt16, CountVectors
    <3>4. ByteOf(order[e], 0) \in Bytes /\ ByteOf(order[e], 1) \in Bytes
      BY <3>3, Bytes16
    <3>5. \A c \in 0 .. 3 : ByteOf(counts[order[e]], c) \in Bytes
      BY <3>3, Bytes32
    <3>6. b = 0 \/ b = 1 \/ (b - 2 \in 0 .. 3 /\ ~(b < 2))
      BY SMT, <3>1
    <3> QED
      BY <3>2, <3>4, <3>5, <3>6
  <2> QED
    BY <2>1, <2>2
<1>4. data = [p \in 1 .. size |-> data[p]]
  BY DEF EncodeEntries, n
<1> HIDE DEF data, size
<1>5. data \in Seq(Bytes)
  BY <1>2, <1>3, <1>4
<1> QED
  BY <1>5 DEF data

\* What is accepted decodes to counts.
LEMMA DecodedCounts ==
  ASSUME NEW data \in Seq(Bytes), Accepts(data), NEW k \in KeyIndexes
  PROVE  Decode(data)[k] \in Nat
<1> DEFINE n == EntryCount(data)
           c == CHOOSE e \in 1 .. n : KeyAt(data, e) = k
<1>1. /\ Len(data) = kHeaderSize + kEntrySize * n /\ Len(data) >= 3
      /\ data \in [1 .. Len(data) -> Bytes]
  BY DEF Accepts, kHeaderSize
<1>2. n \in Nat
  <2>1. data[2] \in Bytes /\ data[3] \in Bytes /\ n = data[2] + 256 * data[3]
    BY SMT, <1>1 DEF EntryCount, ReadU16
  <2> HIDE DEF n
  <2>2. \A byte \in Bytes : byte \in Nat
    BY SMT DEF Bytes
  <2> QED
    BY SMT, <2>1, <2>2
<1>3. Decode(data)[k] = IF \E e \in 1 .. n : KeyAt(data, e) = k THEN CountAt(data, c) ELSE 0
  BY DEF Decode
<1>4. CASE \E e \in 1 .. n : KeyAt(data, e) = k
  <2>1. c \in 1 .. n
    BY <1>4
  <2> HIDE DEF n, c
  <2> DEFINE o == EntryOffset(c)
  <2>2. o \in Nat
    BY SMT, <1>2, <2>1 DEF EntryOffset, kHeaderSize, kEntrySize
  <2>3. \A b \in 0 .. 5 : data[o + 1 + b] \in Bytes
    BY <1>1, <1>2, <2>1, EntryBytes
  <2> HIDE DEF o
  <2>4. /\ data[o + 3] \in Bytes /\ data[o + 4] \in Bytes
        /\ data[o + 5] \in Bytes /\ data[o + 6] \in Bytes
    BY SMT, <2>2, <2>3
  <2>5. CountAt(data, c) = Word(data[o + 3], data[o + 4], data[o + 5], data[o + 6])
    BY <2>2, CountIsWord DEF o
  <2>6. CountAt(data, c) \in Nat
    <3>1. CountAt(data, c) \in UInt32
      BY <2>4, <2>5, Bytes32Back
    <3> QED
      BY <3>1 DEF UInt32
  <2> QED
    BY <1>3, <1>4, <2>6
<1> QED
  BY <1>3, <1>4

\* A row of the recorder is read for the counts it was made of.
LEMMA NewRowRead ==
  ASSUME NEW counts \in Counts
  PROVE  /\ IsListing(InOrder(NonZero(counts)), NonZero(counts))
         /\ ReadsBack(counts, InOrder(NonZero(counts)))
         /\ Decode(NewRow(counts).counts) = counts
         /\ NewRow(counts).counts \in Seq(Bytes)
<1>1. counts \in CountVectors /\ NonZero(counts) \in SUBSET KeyIndexes
  BY CountsAreVectors DEF NonZero
<1>2. IsListing(InOrder(NonZero(counts)), NonZero(counts))
  BY <1>1, InOrderLists
<1>3. NewRow(counts).counts = EncodeEntries(counts, InOrder(NonZero(counts)))
  BY DEF NewRow, Encode
<1> QED
  BY <1>1, <1>2, <1>3, EncodedIsReadBack, EncodedBytes DEF ReadsBack

-------------------------------------------------------------------------------
(* The recorder behind the files. *)

\* No snapshot counts more than was pressed in its minute.
Covered == \A s \in Snapshots, k \in Keys : s.counts[k] <= pressed[s.minute][k]

LedgerInv == LedgerTyped /\ pressed \in Tables /\ Covered

\* What each step does to the ledger and the presses.
LedgerStep ==
  \/ \E k \in InUse : PressKey(k)
  \/ Quit
  \/ /\ pressed' = pressed
     /\ \/ Open \/ Take \/ Put \/ Save \/ Refuse \/ Close \/ Tick
        \/ FlushNow \/ FlushNowThrows \/ UNCHANGED ledger

LEMMA StepsOfLedger == [Next]_vars => LedgerStep
<1> SUFFICES ASSUME [Next]_vars
             PROVE  LedgerStep
  OBVIOUS
<1> USE DEF LedgerStep, history
<1>1. CASE StartProgram
  BY <1>1
  DEF StartProgram, Launch, Look, CreateTemporary, WriteSettings, RemoveSettings,
      RenameSettings, ReadSettings, OpenStorage, StartThrows
<1>2. CASE ExportCsv
  BY <1>2
  DEF ExportCsv, OpenCsv, WriteCsv, RowThrows, RemoveCsv, RenameCsv, ExportThrows
<1>3. CASE \E r \in Ranges : AskForExport(r) \/ FlushThrows(r)
  BY <1>3 DEF AskForExport, FlushThrows
<1>4. CASE (\E k \in InUse : PressKey(k)) \/ Quit
  BY <1>4
<1>5. CASE SaveOne \/ RefuseOne \/ TakeSnapshot \/ PutSnapshot \/ ClockMoves
  BY <1>5 DEF SaveOne, RefuseOne, TakeSnapshot, PutSnapshot, ClockMoves
<1>6. CASE Kill
  BY <1>6 DEF Kill
<1>7. CASE \E file \in GoodFiles \cup BadFiles : Edit(file)
  BY <1>7 DEF Edit
<1>8. CASE UNCHANGED vars
  BY <1>8 DEF vars
<1> QED
  BY <1>1, <1>2, <1>3, <1>4, <1>5, <1>6, <1>7, <1>8 DEF Next

\* The line the destructor saves.
LastLine == IF HasInput(live) THEN Append(unsaved, live) ELSE unsaved

LEMMA QuitKeeps ==
  ASSUME LedgerInv, Quit
  PROVE  LedgerInv'
<1>1. /\ LastLine \in Seq(Snapshot)
      /\ \A i \in DOMAIN LastLine : LastLine[i] \in Snapshots
  <2>1. /\ unsaved \in Seq(Snapshot) /\ Append(unsaved, live) \in Seq(Snapshot)
        /\ \A i \in DOMAIN Append(unsaved, live) : Append(unsaved, live)[i] \in Snapshots
    BY SnapshotFacts DEF LedgerInv, LedgerTyped
  <2> QED
    BY <2>1, SnapshotFacts DEF LastLine
<1>2. /\ rows' = Saved(LastLine) /\ live' = Empty /\ unsaved' = << >> /\ held' = None
      /\ running' = FALSE /\ now' = now /\ pressed' = pressed
  BY DEF Quit, LastLine
<1> HIDE DEF LastLine
<1>3. Saved(LastLine) \in [Minutes -> Counts]
  BY <1>1, SavedType DEF LedgerInv
<1>4. LedgerTyped'
  BY <1>2, <1>3, ZeroTypes DEF LedgerInv, LedgerTyped
<1> DEFINE S == Snapshots \cup {Empty}
<1>5. \A m \in Minutes : [minute |-> m, counts |-> rows'[m]] \in S
  <2>1. \A m \in Minutes : [minute |-> m, counts |-> Saved(LastLine)[m]] \in S
    <3>1. Snapshots \subseteq S /\ \A i \in DOMAIN LastLine : LastLine[i] \in S
      BY <1>1
    <3> HIDE DEF S
    <3> QED
      BY <1>1, <3>1, SavedOnes DEF LedgerInv
  <2> QED
    BY <1>2, <2>1
<1>6. live' \in S /\ \A i \in DOMAIN unsaved' : unsaved'[i] \in S
  BY <1>2
<1>7. held' = None /\ None' = None
  BY <1>2 DEF None
<1>8. Snapshots' \subseteq S
  <2> HIDE DEF S
  <2> QED
    BY <1>5, <1>6, <1>7, SnapshotsIn
<1>9. \A j \in Keys : Empty.counts[j] <= pressed[Empty.minute][j]
  BY ZeroTypes DEF Empty, ZeroCounts, LedgerInv, Tables
<1> QED
  BY <1>2, <1>4, <1>8, <1>9 DEF LedgerInv, Covered

LEMMA StepLedgerInv == LedgerInv /\ [Next]_vars => LedgerInv'
<1> SUFFICES ASSUME LedgerInv, [Next]_vars
             PROVE  LedgerInv'
  OBVIOUS
<1>1. ASSUME NEW k \in InUse, PressKey(k)
      PROVE  LedgerInv'
  <2>1. k \in Keys /\ Press(k) /\ pressed' = [pressed EXCEPT ![now][k] = @ + 1]
    BY <1>1, FilesAssumption DEF PressKey
  <2>2. LedgerTyped'
    BY <2>1, LedgerTypes DEF LedgerInv
  <2>3. /\ pressed' \in Tables
        /\ \A s \in Snapshots', j \in Keys : s.counts[j] <= pressed'[s.minute][j]
    BY <2>1, PressCovered DEF LedgerInv, Covered
  <2> QED
    BY <2>2, <2>3 DEF LedgerInv, Covered
<1>2. ASSUME pressed' = pressed,
             \/ Open \/ Take \/ Put \/ Save \/ Refuse \/ Close \/ Tick
             \/ FlushNow \/ FlushNowThrows \/ UNCHANGED ledger
      PROVE  LedgerInv'
  <2>1. LedgerTyped'
    BY <1>2, LedgerTypes DEF LedgerInv
  <2>2. \A s \in Snapshots', j \in Keys : s.counts[j] <= pressed[s.minute][j]
    BY <1>2, OthersCovered DEF LedgerInv, Covered
  <2> QED
    BY <1>2, <2>1, <2>2 DEF LedgerInv, Covered
<1> QED
  BY <1>1, <1>2, QuitKeeps, StepsOfLedger DEF LedgerStep

LEMMA InitLedgerInv == Init => LedgerInv
<1> SUFFICES ASSUME Init
             PROVE  LedgerInv
  OBVIOUS
<1>1. LedgerTyped
  BY InitLedgerTypes DEF Init
<1>2. pressed = [m \in Minutes |-> ZeroCounts] /\ pressed \in Tables
  BY DEF Init, ZeroCounts, Tables
<1>3. rows = [m \in Minutes |-> ZeroCounts] /\ live = Empty /\ unsaved = << >> /\ held = None
  BY DEF Init, LedgerInit
<1>4. ASSUME NEW s \in Snapshots, NEW k \in Keys
      PROVE  s.counts[k] <= pressed[s.minute][k]
  <2>1. s.counts = ZeroCounts /\ s.minute \in Minutes
    BY <1>3, ZeroTypes DEF Snapshots, Range, Empty
  <2> QED
    BY <1>2, <2>1 DEF ZeroCounts
<1> QED
  BY <1>1, <1>2, <1>4 DEF LedgerInv, Covered

-----------------------------------------------------------------------------
\* The row of the old minute: one of those it may have, or the first.
RowInv == old_row \in OldRows \cup {NewRow(ZeroCounts)}

LEMMA OldRowBytes == RowInv => old_row.counts \in Seq(Bytes)
<1>1. ZeroCounts \in Counts
  BY ZeroTypes
<1>2. NewRow(ZeroCounts).counts \in Seq(Bytes)
  BY <1>1, NewRowRead
<1> QED
  BY <1>2, FilesAssumption DEF RowInv

LEMMA StepRow == RowInv /\ [Next]_vars => RowInv'
<1> SUFFICES ASSUME RowInv, [Next]_vars
             PROVE  RowInv'
  OBVIOUS
<1>1. old_row' = old_row \/ old_row' \in OldRows
  BY DEF Next, StartProgram, Launch, Look, CreateTemporary, WriteSettings, RemoveSettings,
         RenameSettings, ReadSettings, OpenStorage, StartThrows, ExportCsv, OpenCsv,
         WriteCsv, RowThrows, RemoveCsv, RenameCsv, ExportThrows, AskForExport,
         FlushThrows, Ask, PressKey, SaveOne, RefuseOne, TakeSnapshot, PutSnapshot,
         ClockMoves, Quit, Kill, Edit, vars
<1>2. NewRow(ZeroCounts)' = NewRow(ZeroCounts)
  BY DEF NewRow, Encode
<1> QED
  BY <1>1, <1>2 DEF RowInv

\* Every blob an export can come upon, written by this release, by another or damaged,
\* is read for exactly what it encodes, or refused.
THEOREM BlobsAreReadExactly == Spec => []BlobsReadExactly
<1>1. Init => LedgerInv /\ RowInv
  BY InitLedgerInv DEF Init, RowInv
<1>2. LedgerInv /\ RowInv /\ [Next]_vars => (LedgerInv /\ RowInv)'
  BY StepLedgerInv, StepRow
<1>3. LedgerInv /\ RowInv => BlobsReadExactly
  <2> SUFFICES ASSUME LedgerInv, RowInv
               PROVE  BlobsReadExactly
    OBVIOUS
  <2>1. AcceptedIsEncoding(old_row.counts)
    BY OldRowBytes, AcceptedOnlyEncodings
  <2>2. ASSUME NEW m \in Minutes
        PROVE  /\ IsListing(InOrder(NonZero(rows[m])), NonZero(rows[m]))
               /\ ReadsBack(rows[m], InOrder(NonZero(rows[m])))
    <3>1. rows[m] \in Counts
      BY DEF LedgerInv, LedgerTyped
    <3> QED
      BY <3>1, NewRowRead
  <2> QED
    BY <2>1, <2>2 DEF BlobsReadExactly
<1> QED
  BY <1>1, <1>2, <1>3, PTL DEF Spec

-------------------------------------------------------------------------------
(* The settings file. *)
Recording == {"idle", "export open", "export write", "export remove", "export rename"}

\* The bounds are counters, and the disk has its four paths.
Counters == {faults, edits} \subseteq Nat /\ disk = [p \in Paths |-> disk[p]]

\* Save runs only when there is no settings file.
NothingToSpoil == ui \in {"create", "write", "remove", "rename"} => disk[Settings] = NoFile

KeptInv == Counters /\ NothingToSpoil

\* Without a fault, settings.json holds what was written to it, and the temporary
\* file is renamed when it holds all of Serialize.
WholeFiles ==
  faults = 0 =>
    /\ disk[Settings] \in {NoFile, Defaults} \cup GoodFiles \cup BadFiles
    /\ ui \in {"remove", "rename"} => disk[Tmp(Settings)] = Defaults

ReadsAFile == ui = "read" => disk[Settings] # NoFile

StartInv == WholeFiles /\ ReadsAFile /\ StartsUnlessSpoiled

-----------------------------------------------------------------------------
LEMMA PathFacts ==
  /\ Settings \in Paths /\ Csv \in Paths /\ Tmp(Settings) \in Paths /\ Tmp(Csv) \in Paths
  /\ Settings # Csv /\ Settings # Tmp(Settings) /\ Settings # Tmp(Csv)
  /\ Tmp(Settings) # Csv /\ Tmp(Settings) # Tmp(Csv) /\ Csv # Tmp(Csv)
  BY DEF Paths, Tmp, Settings, Csv

\* A write changes one path.
LEMMA WriteFacts ==
  ASSUME Counters, NEW path \in Paths, NEW content, Write(path, content)
  PROVE  /\ disk' = [p \in Paths |-> disk'[p]]
         /\ disk'[path] = content
         /\ \A p \in Paths : p # path => disk'[p] = disk[p]
  BY DEF Counters, Write

\* What follows a rename of the temporary file.
LEMMA RenameFacts ==
  ASSUME Counters, NEW from \in Paths, NEW to \in Paths, from # to,
         disk' = [disk EXCEPT ![to] = disk[from], ![from] = NoFile]
  PROVE  /\ disk' = [p \in Paths |-> disk'[p]]
         /\ disk'[to] = disk[from]
         /\ \A p \in Paths : p \notin {from, to} => disk'[p] = disk[p]
  BY DEF Counters

LEMMA FaultCounts ==
  ASSUME Counters, Fault
  PROVE  faults' \in Nat /\ faults' > 0
  BY DEF Counters, Fault

\* Serialize writes what LoadOrCreate reads.
LEMMA DefaultsLoad == Loads(Defaults)
  BY SettingsAssumption
  DEF Loads, Defaults, Valid, Parsed, Given, VersionField, FlushField, RepeatField,
      RetentionField

\* Steps that have nothing to do with the settings.
LEMMA ElsewhereRests ==
  ASSUME KeptInv, StartInv,
         disk'[Settings] = disk[Settings], disk'[Tmp(Settings)] = disk[Tmp(Settings)],
         disk' = [p \in Paths |-> disk'[p]],
         edits' = edits,
         faults' = faults \/ (faults' \in Nat /\ faults' > 0),
         ui' = ui \/ ui' \in {"off", "look"} \cup Recording
  PROVE  KeptInv' /\ StartInv'
<1>1. KeptInv'
  BY DEF KeptInv, Counters, NothingToSpoil, Recording
<1>2. faults' = 0 => faults = 0
  BY DEF KeptInv, Counters
<1>3. ui' \in {"create", "write", "remove", "rename", "read", "stuck"} => ui' = ui
  BY DEF Recording
<1>4. WholeFiles'
  BY <1>2, <1>3 DEF StartInv, WholeFiles
<1>5. ReadsAFile' /\ StartsUnlessSpoiled'
  BY <1>2, <1>3 DEF StartInv, ReadsAFile, StartsUnlessSpoiled, KeptInv, Counters
<1> QED
  BY <1>1, <1>4, <1>5 DEF StartInv

LEMMA InitStart == Init => KeptInv /\ StartInv
<1> SUFFICES ASSUME Init
             PROVE  KeptInv /\ StartInv
  OBVIOUS
<1>1. PICK c : disk = [p \in Paths |-> IF p = Csv THEN c ELSE NoFile]
  BY DEF Init
<1>2. disk = [p \in Paths |-> disk[p]] /\ disk[Settings] = NoFile
  BY <1>1, PathFacts
<1> QED
  BY <1>2 DEF Init, KeptInv, Counters, NothingToSpoil, StartInv, WholeFiles, ReadsAFile,
              StartsUnlessSpoiled

\* InitializeStorage.
LEMMA StartKeeps ==
  ASSUME KeptInv, StartInv, StartProgram
  PROVE  /\ KeptInv' /\ StartInv'
         /\ disk[Settings] # NoFile => disk'[Settings] = disk[Settings]
<1> USE DEF KeptInv, NothingToSpoil, StartInv, WholeFiles, ReadsAFile, Goto
<1>1. CASE Launch
  BY <1>1, ElsewhereRests DEF Launch, bounds, Counters
<1>2. CASE Look
  BY <1>2 DEF Look, Exists, bounds, Counters, StartsUnlessSpoiled
<1>3. CASE CreateTemporary
  BY <1>3, WriteFacts, PathFacts DEF CreateTemporary, bounds, Counters, StartsUnlessSpoiled
<1>4. CASE WriteSettings
  <2>1. CASE Write(Tmp(Settings), Defaults) /\ UNCHANGED faults
    BY <1>4, <2>1, WriteFacts, PathFacts DEF WriteSettings, Counters, StartsUnlessSpoiled
  <2>2. ASSUME NEW rest, Fault, Write(Tmp(Settings), rest)
        PROVE  /\ KeptInv' /\ StartInv'
               /\ disk[Settings] # NoFile => disk'[Settings] = disk[Settings]
    BY <1>4, <2>2, FaultCounts, WriteFacts, PathFacts
    DEF WriteSettings, Counters, StartsUnlessSpoiled
  <2> QED
    BY <1>4, <2>1, <2>2 DEF WriteSettings
<1>5. CASE RemoveSettings
  BY <1>5, WriteFacts, PathFacts DEF RemoveSettings, bounds, Counters, StartsUnlessSpoiled
<1>6. CASE RenameSettings
  <2>1. /\ disk' = [p \in Paths |-> disk'[p]]
        /\ disk'[Settings] = disk[Tmp(Settings)]
    BY <1>6, RenameFacts, PathFacts DEF RenameSettings
  <2> QED
    BY <1>6, <2>1 DEF RenameSettings, bounds, Counters, StartsUnlessSpoiled
<1>7. CASE ReadSettings
  BY <1>7, DefaultsLoad, FilesAssumption
  DEF ReadSettings, bounds, Counters, StartsUnlessSpoiled
<1>8. CASE OpenStorage
  BY <1>8, ElsewhereRests DEF OpenStorage, bounds, Counters, Recording
<1>9. CASE StartThrows
  BY <1>9, FaultCounts DEF StartThrows, Counters, StartsUnlessSpoiled
<1> QED
  BY <1>1, <1>2, <1>3, <1>4, <1>5, <1>6, <1>7, <1>8, <1>9 DEF StartProgram

\* The export writes beside the CSV file; faults only grow.
LEMMA ExportKeeps ==
  ASSUME KeptInv, StartInv, ExportCsv
  PROVE  KeptInv' /\ StartInv' /\ disk'[Settings] = disk[Settings]
<1>1. /\ disk'[Settings] = disk[Settings] /\ disk'[Tmp(Settings)] = disk[Tmp(Settings)]
      /\ disk' = [p \in Paths |-> disk'[p]]
  <2>1. CASE RowThrows \/ ExportThrows
    BY <2>1 DEF RowThrows, ExportThrows, KeptInv, Counters
  <2>2. CASE OpenCsv \/ WriteCsv \/ RemoveCsv
    <3>1. ASSUME NEW path \in {Csv, Tmp(Csv)}, NEW content, Write(path, content)
          PROVE  /\ disk'[Settings] = disk[Settings]
                 /\ disk'[Tmp(Settings)] = disk[Tmp(Settings)]
                 /\ disk' = [p \in Paths |-> disk'[p]]
      BY <3>1, WriteFacts, PathFacts DEF KeptInv
    <3>2. CASE OpenCsv
      BY <3>1, <3>2 DEF OpenCsv, RowsRead
    <3>3. CASE WriteCsv
      <4>1. PICK lines, state : RowsRead(Tmp(Csv), lines, state)
        BY <3>3 DEF WriteCsv
      <4> QED
        BY <3>1, <4>1 DEF RowsRead
    <3>4. CASE RemoveCsv
      BY <3>1, <3>4 DEF RemoveCsv
    <3> QED
      BY <2>2, <3>2, <3>3, <3>4
  <2>3. CASE RenameCsv
    BY <2>3, RenameFacts, PathFacts DEF RenameCsv, KeptInv
  <2> QED
    BY <2>1, <2>2, <2>3 DEF ExportCsv
<1>2. edits' = edits
  BY DEF ExportCsv, OpenCsv, WriteCsv, RowThrows, RemoveCsv, RenameCsv, ExportThrows, bounds
<1>3. faults' = faults \/ (faults' \in Nat /\ faults' > 0)
  BY FaultCounts
  DEF ExportCsv, OpenCsv, WriteCsv, RowThrows, RemoveCsv, RenameCsv, ExportThrows, bounds,
      KeptInv
<1>4. ui' \in Recording
  BY DEF ExportCsv, OpenCsv, WriteCsv, RowThrows, RemoveCsv, RenameCsv, ExportThrows, Goto,
         Recording
<1> QED
  BY <1>1, <1>2, <1>3, <1>4, ElsewhereRests

\* The recorder, the clock, a request for an export, and the end of a process.
LEMMA OthersKeep ==
  ASSUME KeptInv, StartInv,
         \/ \E r \in Ranges : AskForExport(r) \/ FlushThrows(r)
         \/ \E k \in InUse : PressKey(k)
         \/ SaveOne \/ RefuseOne \/ TakeSnapshot \/ PutSnapshot \/ ClockMoves
         \/ Quit \/ Kill
         \/ UNCHANGED vars
  PROVE  KeptInv' /\ StartInv' /\ disk'[Settings] = disk[Settings]
<1>1. disk' = disk /\ edits' = edits
  BY DEF AskForExport, FlushThrows, PressKey, SaveOne, RefuseOne, TakeSnapshot, PutSnapshot,
         ClockMoves, Quit, Kill, vars, files, bounds
<1>2. faults' = faults \/ (faults' \in Nat /\ faults' > 0)
  BY FaultCounts
  DEF AskForExport, FlushThrows, PressKey, SaveOne, RefuseOne, TakeSnapshot, PutSnapshot,
      ClockMoves, Quit, Kill, vars, bounds, KeptInv
<1>3. ui' = ui \/ ui' \in {"off"} \cup Recording
  BY DEF AskForExport, FlushThrows, PressKey, SaveOne, RefuseOne, TakeSnapshot, PutSnapshot,
         ClockMoves, Quit, Kill, vars, files, Goto, Recording
<1> QED
  BY <1>1, <1>2, <1>3, ElsewhereRests DEF KeptInv, Counters

LEMMA EditKeeps ==
  ASSUME KeptInv, StartInv, NEW file \in GoodFiles \cup BadFiles, Edit(file)
  PROVE  KeptInv' /\ StartInv' /\ edits' # edits
<1>1. /\ disk' = [p \in Paths |-> disk'[p]] /\ disk'[Settings] = file
      /\ ui = "off" /\ ui' = ui /\ faults' = faults /\ edits' = edits + 1
  BY WriteFacts, PathFacts DEF Edit, KeptInv
<1> QED
  BY <1>1 DEF KeptInv, Counters, NothingToSpoil, StartInv, WholeFiles, ReadsAFile,
              StartsUnlessSpoiled

LEMMA StepKeeps ==
  ASSUME KeptInv, StartInv, [Next]_vars
  PROVE  /\ KeptInv' /\ StartInv'
         /\ disk[Settings] # NoFile /\ edits' = edits => disk'[Settings] = disk[Settings]
<1>1. CASE StartProgram
  BY <1>1, StartKeeps
<1>2. CASE ExportCsv
  BY <1>2, ExportKeeps
<1>3. CASE \E file \in GoodFiles \cup BadFiles : Edit(file)
  BY <1>3, EditKeeps
<1> QED
  BY <1>1, <1>2, <1>3, OthersKeep DEF Next

-----------------------------------------------------------------------------
\* Type correctness.
SettingsFile(content) == content = NoFile \/ DOMAIN content = Fields
CsvFile(content) == Exported(content) => content.state \in {"part", "cut", "whole"}

FileTypes ==
  /\ SettingsFile(disk[Settings]) /\ SettingsFile(disk[Tmp(Settings)])
  /\ CsvFile(disk[Csv]) /\ CsvFile(disk[Tmp(Csv)])

WithRecorder == running <=> ui \in Recording

Reports == report \in {"none", "failed", "done"}

LEMMA TypeParts == TypeOK <=> WithRecorder /\ FileTypes /\ Reports
  BY DEF TypeOK, WithRecorder, FileTypes, SettingsFile, CsvFile, Reports, Recording

LEMMA NoFileType == SettingsFile(NoFile) /\ CsvFile(NoFile)
  BY DEF SettingsFile, CsvFile, Exported

LEMMA TruncationType == \A file : \A rest \in Truncations(file) : SettingsFile(rest)
  BY DEF Truncations, SettingsFile

LEMMA WriteType ==
  ASSUME Counters, FileTypes, NEW path \in Paths, NEW content, Write(path, content),
         path \in {Settings, Tmp(Settings)} => SettingsFile(content),
         path \in {Csv, Tmp(Csv)} => CsvFile(content)
  PROVE  FileTypes'
<1>1. /\ disk'[path] = content
      /\ \A p \in Paths : p # path => disk'[p] = disk[p]
  BY WriteFacts
<1>2. path \in {Settings, Tmp(Settings), Csv, Tmp(Csv)}
  BY DEF Paths
<1>3. SettingsFile(disk'[Settings])
  BY <1>1, PathFacts DEF FileTypes
<1>4. SettingsFile(disk'[Tmp(Settings)])
  BY <1>1, PathFacts DEF FileTypes
<1>5. CsvFile(disk'[Csv])
  BY <1>1, PathFacts DEF FileTypes
<1>6. CsvFile(disk'[Tmp(Csv)])
  BY <1>1, PathFacts DEF FileTypes
<1> QED
  BY <1>3, <1>4, <1>5, <1>6 DEF FileTypes, SettingsFile, CsvFile, Exported

LEMMA RenameType ==
  ASSUME Counters, FileTypes, NEW to \in {Settings, Csv},
         disk' = [disk EXCEPT ![to] = disk[Tmp(to)], ![Tmp(to)] = NoFile]
  PROVE  FileTypes'
<1>1. /\ disk'[to] = disk[Tmp(to)]
      /\ disk'[Tmp(to)] = NoFile
      /\ \A p \in Paths : p \notin {to, Tmp(to)} => disk'[p] = disk[p]
  BY PathFacts DEF Counters
<1>2. /\ SettingsFile(disk'[Settings]) /\ SettingsFile(disk'[Tmp(Settings)])
  BY <1>1, PathFacts, NoFileType DEF FileTypes
<1>3. /\ CsvFile(disk'[Csv]) /\ CsvFile(disk'[Tmp(Csv)])
  BY <1>1, PathFacts, NoFileType DEF FileTypes
<1> QED
  BY <1>2, <1>3 DEF FileTypes, SettingsFile, CsvFile, Exported

LEMMA InitType == Init => TypeOK
<1> SUFFICES ASSUME Init
             PROVE  WithRecorder /\ FileTypes /\ Reports
  BY TypeParts
<1>1. PICK c \in {NoFile, Earlier} : disk = [p \in Paths |-> IF p = Csv THEN c ELSE NoFile]
  BY DEF Init
<1>2. \A p \in Paths : disk[p] = IF p = Csv THEN c ELSE NoFile
  BY <1>1
<1>3. /\ disk[Settings] = NoFile /\ disk[Tmp(Settings)] = NoFile
      /\ disk[Csv] = c /\ disk[Tmp(Csv)] = NoFile
  BY <1>2, PathFacts
<1>4. FileTypes
  BY <1>3, NoFileType DEF FileTypes, CsvFile, Exported
<1> QED
  BY <1>4 DEF Init, LedgerInit, WithRecorder, Recording, Reports

LEMMA StepFiles ==
  ASSUME Counters, FileTypes, [Next]_vars
  PROVE  FileTypes'
<1>1. disk' = disk => FileTypes'
  BY DEF FileTypes, SettingsFile, CsvFile, Exported
<1>2. CASE CreateTemporary
  <2>1. SettingsFile(Empty_)
    BY DEF SettingsFile, Empty_
  <2> QED
    BY <1>2, <2>1, WriteType, PathFacts DEF CreateTemporary
<1>3. CASE WriteSettings
  <2>1. SettingsFile(Defaults)
    BY DEF SettingsFile, Defaults, Fields
  <2>2. PICK content : Write(Tmp(Settings), content) /\ SettingsFile(content)
    BY <1>3, <2>1, TruncationType DEF WriteSettings
  <2> QED
    BY <2>2, WriteType, PathFacts
<1>4. CASE RemoveSettings
  BY <1>4, WriteType, NoFileType, PathFacts DEF RemoveSettings
<1>5. CASE RenameSettings
  BY <1>5, RenameType DEF RenameSettings
<1>6. CASE OpenCsv \/ WriteCsv
  <2>1. ASSUME NEW lines, NEW state \in {"part", "cut", "whole"},
               RowsRead(Tmp(Csv), lines, state)
        PROVE  FileTypes'
    <3>1. CsvFile([lines |-> lines, state |-> state])
      BY DEF CsvFile
    <3> QED
      BY <2>1, <3>1, WriteType, PathFacts DEF RowsRead
  <2>2. CASE OpenCsv
    BY <2>1, <2>2 DEF OpenCsv
  <2>3. CASE WriteCsv
    BY <2>1, <2>3 DEF WriteCsv
  <2> QED
    BY <1>6, <2>2, <2>3
<1>7. CASE RemoveCsv
  BY <1>7, WriteType, NoFileType, PathFacts DEF RemoveCsv
<1>8. CASE RenameCsv
  BY <1>8, RenameType DEF RenameCsv
<1>9. ASSUME NEW file \in GoodFiles \cup BadFiles, Edit(file)
      PROVE  FileTypes'
  <2>1. SettingsFile(file)
    BY FilesAssumption DEF SettingsFile
  <2> QED
    BY <1>9, <2>1, WriteType, PathFacts DEF Edit
<1>10. ASSUME ~StartProgram, ~ExportCsv, ~\E file \in GoodFiles \cup BadFiles : Edit(file)
       PROVE  disk' = disk
  BY <1>10
  DEF Next, AskForExport, FlushThrows, PressKey, SaveOne, RefuseOne, TakeSnapshot,
      PutSnapshot, ClockMoves, Quit, Kill, vars, files
<1> QED
  BY <1>1, <1>2, <1>3, <1>4, <1>5, <1>6, <1>7, <1>8, <1>9, <1>10
  DEF StartProgram, ExportCsv, Launch, Look, ReadSettings, OpenStorage, StartThrows,
      RowThrows, ExportThrows

LEMMA StepRecorder ==
  ASSUME WithRecorder, Reports, [Next]_vars
  PROVE  WithRecorder' /\ Reports'
<1> USE DEF WithRecorder, Reports, Recording, ledger, export, files
<1>1. CASE OpenStorage
  BY <1>1 DEF OpenStorage, Goto, Open
<1>2. CASE StartProgram /\ ~OpenStorage
  <2>1. running' = running /\ report' = report
    BY <1>2
    DEF StartProgram, Launch, Look, CreateTemporary, WriteSettings, RemoveSettings,
        RenameSettings, ReadSettings, StartThrows
  <2>2. ui \notin Recording /\ ui' \notin Recording
    BY <1>2
    DEF StartProgram, Launch, Look, CreateTemporary, WriteSettings, RemoveSettings,
        RenameSettings, ReadSettings, StartThrows, Goto
  <2> QED
    BY <2>1, <2>2
<1>3. CASE ExportCsv
  BY <1>3
  DEF ExportCsv, OpenCsv, WriteCsv, RowThrows, RemoveCsv, RenameCsv, ExportThrows, Goto
<1>4. CASE \E r \in Ranges : AskForExport(r) \/ FlushThrows(r)
  BY <1>4 DEF AskForExport, FlushThrows, FlushNow, FlushNowThrows, Goto
<1>5. CASE \/ \E k \in InUse : PressKey(k)
           \/ SaveOne \/ RefuseOne \/ TakeSnapshot \/ PutSnapshot \/ ClockMoves
  BY <1>5
  DEF PressKey, SaveOne, RefuseOne, TakeSnapshot, PutSnapshot, ClockMoves, Press, Save,
      Refuse, Take, Put, Tick
<1>6. CASE Quit \/ Kill \/ \E file \in GoodFiles \cup BadFiles : Edit(file)
  BY <1>6 DEF Quit, Kill, Close, Edit
<1>7. CASE UNCHANGED vars
  BY <1>7 DEF vars
<1> QED
  BY <1>1, <1>2, <1>3, <1>4, <1>5, <1>6, <1>7 DEF Next

LEMMA StepType == Counters /\ TypeOK /\ [Next]_vars => TypeOK'
<1> SUFFICES ASSUME Counters, TypeOK, [Next]_vars
             PROVE  TypeOK'
  OBVIOUS
<1>1. FileTypes'
  BY StepFiles, TypeParts
<1>2. WithRecorder' /\ Reports'
  BY StepRecorder, TypeParts
<1> QED
  BY <1>1, <1>2
  DEF TypeOK, WithRecorder, FileTypes, SettingsFile, CsvFile, Reports, Recording

\* A recorder is there exactly when InitializeStorage has returned and the program
\* has not ended, and every file has the form of what was written to it.
THEOREM TypeCorrect == Spec => []TypeOK
<1>1. KeptInv /\ StartInv /\ TypeOK /\ [Next]_vars => (KeptInv /\ StartInv /\ TypeOK)'
  BY StepType, StepKeeps DEF KeptInv
<1> QED
  BY <1>1, InitStart, InitType, PTL DEF Spec

-----------------------------------------------------------------------------
\* LoadOrCreate, Save and whatever interrupts them never touch a settings file that
\* is there.
THEOREM SettingsAreKept == Spec => UserSettingsKept
<1>1. KeptInv /\ StartInv /\ [Next]_vars
        => [disk[Settings] # NoFile /\ edits' = edits => disk'[Settings] = disk[Settings]]_vars
  BY StepKeeps
<1>2. KeptInv /\ StartInv /\ [Next]_vars => (KeptInv /\ StartInv)'
  BY StepKeeps
<1> QED
  BY <1>1, <1>2, InitStart, PTL DEF Spec, UserSettingsKept

\* Killed at any call, the program leaves no settings.json that its next start
\* refuses: only a call that failed, or an edit against the rules, leaves a window
\* without recorder.
THEOREM StartsAgain == Spec => []StartsUnlessSpoiled
<1>1. KeptInv /\ StartInv /\ [Next]_vars => (KeptInv /\ StartInv)'
  BY StepKeeps
<1>2. StartInv => StartsUnlessSpoiled
  BY DEF StartInv
<1> QED
  BY <1>1, <1>2, InitStart, PTL DEF Spec

-------------------------------------------------------------------------------
(* Where the newest counts of a minute are. *)

\* All there is to count in a minute.
Whole(m) == Counted(pressed[m])

\* Without a recorder nothing is on its way ...
Resting == ~running => live = Empty /\ unsaved = << >> /\ held = None

\* ... nor is it before the first press.
Begun ==
  running /\ ~HasInput(live) =>
    unsaved = << >> /\ held = None /\ rows[live.minute] = ZeroCounts

\* The live bucket has all of its minute; of another minute, unless exposed, the line
\* leaves all when it is saved.
Newest ==
  \A m \in Minutes \ exposed :
    IF running /\ m = live.minute
    THEN live.counts = Whole(m)
    ELSE SavedOver(rows, unsaved)[m] = Whole(m)

Balance == Resting /\ Begun /\ Newest

-----------------------------------------------------------------------------
LEMMA CappedFacts ==
  /\ Capped(0) = 0
  /\ \A n \in Nat : /\ Capped(n) <= n /\ Capped(n) \in Nat
                    /\ Capped(n + 1) = IF Capped(n) < MaxCount THEN Capped(n) + 1 ELSE Capped(n)
  BY LedgerAssumption DEF Capped

LEMMA CountedZero == Counted(ZeroCounts) = ZeroCounts
  BY CappedFacts DEF Counted, ZeroCounts

LEMMA NoInput ==
  ASSUME NEW s \in Snapshot, ~HasInput(s)
  PROVE  s.counts = ZeroCounts
<1>1. s.counts \in [Keys -> 0 .. MaxCount]
  BY DEF Snapshot, Counts
<1>2. \A k \in Keys : s.counts[k] = 0
  BY <1>1, LedgerAssumption DEF HasInput
<1> QED
  BY <1>1, <1>2 DEF ZeroCounts

LEMMA EmptyLine ==
  ASSUME NEW r, NEW m \in Minutes
  PROVE  SavedOver(r, << >>)[m] = r[m]
<1>1. << >> \in Seq(Snapshot) /\ DOMAIN << >> = {}
  OBVIOUS
<1> QED
  BY <1>1, SavedOverNone

\* The recorder is opened.
LEMMA OpenBalances ==
  ASSUME LedgerInv, Balance, Open, pressed' = pressed, exposed' = exposed
  PROVE  Balance'
<1>1. /\ ~running /\ running' /\ now' = now /\ rows' = rows
      /\ unsaved' = << >> /\ held' = None /\ None' = None
      /\ live' = [minute |-> now, counts |-> rows[now]] /\ now \in Minutes
  BY DEF Open, Balance, Resting, LedgerInv, LedgerTyped, None
<1>2. live' \in Snapshot /\ live'.minute = now /\ live'.counts = rows[now] /\ now \in Nat
  BY <1>1 DEF LedgerInv, LedgerTyped, Snapshot, Minutes
<1>3. Resting'
  BY <1>1 DEF Resting
<1>4. Begun'
  <2>1. ~HasInput(live') => live'.counts = ZeroCounts
    BY <1>2, NoInput
  <2> QED
    BY <1>1, <1>2, <2>1 DEF Begun, HasInput, ZeroCounts
<1>5. \A m \in Minutes \ exposed : rows[m] = Whole(m)
  BY <1>1, EmptyLine DEF Balance, Newest, Resting
<1>6. Newest'
  BY <1>1, <1>2, <1>5, EmptyLine DEF Newest, Whole
<1> QED
  BY <1>3, <1>4, <1>6 DEF Balance

\* What is saved once the live counts are queued behind the line.
LEMMA LiveSaved ==
  ASSUME LedgerInv, NEW m \in Minutes
  PROVE  SavedOver(rows, Append(unsaved, live))[m]
           = IF live.minute = m THEN live.counts ELSE SavedOver(rows, unsaved)[m]
<1>1. unsaved \in Seq(Snapshot) /\ live \in Snapshot
  BY DEF LedgerInv, LedgerTyped
<1> QED
  BY ZenonT(40), <1>1, SavedAppend

\* A key is pressed.
LEMMA PressBalances ==
  ASSUME LedgerInv, Balance, NEW k \in Keys, Press(k),
         pressed' = [pressed EXCEPT ![now][k] = @ + 1],
         exposed' = exposed \cup Reentered
  PROVE  Balance'
<1> DEFINE c == IF now = live.minute THEN live.counts ELSE ZeroCounts
           completes == now # live.minute /\ HasInput(live)
<1>1. /\ running /\ running' = running /\ now' = now /\ rows' = rows /\ held' = held
      /\ live' = [minute |-> now,
                  counts |-> [c EXCEPT ![k] = IF @ < MaxCount THEN @ + 1 ELSE @]]
      /\ unsaved' = IF completes THEN Append(unsaved, live) ELSE unsaved
  BY DEF Press, Pressed
<1>2. /\ now \in Minutes /\ now \in Nat /\ live.minute \in Minutes /\ live.minute \in Nat
      /\ live \in Snapshot /\ live.counts \in [Keys -> 0 .. MaxCount]
      /\ unsaved \in Seq(Snapshot)
      /\ pressed[now] \in [Keys -> Nat]
  <2>1. now \in Minutes /\ live \in Snapshot /\ unsaved \in Seq(Snapshot)
    BY DEF LedgerInv, LedgerTyped
  <2>2. live.minute \in Minutes /\ live.counts \in [Keys -> 0 .. MaxCount]
    BY <2>1 DEF Snapshot, Counts
  <2>3. Minutes \subseteq Nat
    BY DEF Minutes
  <2> QED
    BY <2>1, <2>2, <2>3 DEF LedgerInv, Tables
<1>3. c \in [Keys -> 0 .. MaxCount] /\ live'.minute = now
      /\ live'.counts = [c EXCEPT ![k] = IF @ < MaxCount THEN @ + 1 ELSE @]
  BY <1>1, <1>2, ZeroTypes DEF Counts
<1>4. /\ \A m \in Minutes : m # now => pressed'[m] = pressed[m]
      /\ pressed'[now] = [pressed[now] EXCEPT ![k] = @ + 1]
  BY <1>2 DEF LedgerInv, Tables
<1>5. now \notin exposed' => now = live.minute \/ pressed[now] = ZeroCounts
  BY DEF Reentered
<1> HIDE DEF c
<1>6. Resting'
  BY <1>1 DEF Resting
<1>7. HasInput(live')
  <2>1. live'.counts[k] > 0
    BY <1>3, LedgerAssumption
  <2> QED
    BY <2>1 DEF HasInput
<1>8. Begun'
  BY <1>7 DEF Begun
<1>9. exposed \subseteq exposed'
  OBVIOUS
<1>10. ASSUME NEW m \in Minutes \ exposed', m = now
       PROVE  live'.counts = Counted(pressed'[m])
  <2>1. c = Counted(pressed[now])
    <3>1. CASE now = live.minute
      BY <1>1, <1>9, <1>10, <3>1 DEF c, Balance, Newest, Whole
    <3>2. CASE now # live.minute
      BY <1>5, <1>10, <3>2, CountedZero DEF c
    <3> QED
      BY <3>1, <3>2
  <2>2. \A j \in Keys : c[j] = Capped(pressed[now][j])
    BY <2>1 DEF Counted
  <2>3. ASSUME NEW j \in Keys
        PROVE  live'.counts[j] = Capped(pressed'[now][j])
    <3>1. CASE j = k
      <4>1. pressed[now][k] \in Nat /\ pressed'[now][k] = pressed[now][k] + 1
        BY <1>2, <1>4
      <4>2. Capped(pressed[now][k] + 1)
              = IF Capped(pressed[now][k]) < MaxCount THEN Capped(pressed[now][k]) + 1
                ELSE Capped(pressed[now][k])
        BY <4>1, CappedFacts
      <4>3. live'.counts[k] = IF c[k] < MaxCount THEN c[k] + 1 ELSE c[k]
        BY <1>3
      <4> QED
        BY <2>2, <3>1, <4>1, <4>2, <4>3
    <3>2. CASE j # k
      BY <1>2, <1>3, <1>4, <2>2, <3>2
    <3> QED
      BY <3>1, <3>2
  <2>4. live'.counts = [j \in Keys |-> live'.counts[j]]
    BY <1>3
  <2> QED
    BY <1>10, <2>3, <2>4 DEF Counted
<1>11. ASSUME NEW m \in Minutes \ exposed', m # now
       PROVE  SavedOver(rows', unsaved')[m] = Counted(pressed'[m])
  <2>0. pressed'[m] = pressed[m]
    BY <1>4, <1>11
  <2>1. ASSUME m = live.minute, HasInput(live)
        PROVE  SavedOver(rows', unsaved')[m] = Counted(pressed'[m])
    <3>1. SavedOver(rows, Append(unsaved, live))[m] = live.counts
      BY <2>1, LiveSaved
    <3> QED
      BY <1>1, <1>9, <1>11, <2>0, <2>1, <3>1 DEF Balance, Newest, Whole
  <2>2. ASSUME m = live.minute, ~HasInput(live)
        PROVE  SavedOver(rows', unsaved')[m] = Counted(pressed'[m])
    <3>1. unsaved = << >> /\ rows[m] = ZeroCounts /\ unsaved' = unsaved
      BY <1>1, <2>2 DEF Balance, Begun
    <3>2. live.counts = ZeroCounts
      BY <1>2, <2>2, NoInput
    <3> QED
      BY <1>1, <1>9, <1>11, <2>0, <2>2, <3>1, <3>2, EmptyLine DEF Balance, Newest, Whole
  <2>3. ASSUME m # live.minute
        PROVE  SavedOver(rows', unsaved')[m] = Counted(pressed'[m])
    <3>1. SavedOver(rows, Append(unsaved, live))[m] = SavedOver(rows, unsaved)[m]
      BY <2>3, LiveSaved
    <3> QED
      BY <1>1, <1>9, <1>11, <2>0, <2>3, <3>1 DEF Balance, Newest, Whole
  <2> QED
    BY <2>1, <2>2, <2>3
<1>12. Newest'
  BY <1>1, <1>3, <1>10, <1>11 DEF Newest, Whole
<1> QED
  BY <1>6, <1>8, <1>12 DEF Balance

\* FlushNow, whether it throws or not.
LEMMA FlushBalances ==
  ASSUME LedgerInv, Balance, FlushNow \/ FlushNowThrows, pressed' = pressed,
         exposed' = exposed
  PROVE  /\ Balance'
         /\ FlushNow =>
              /\ unsaved' = << >>
              /\ \A m \in Minutes \ exposed : rows'[m] = Whole(m)
<1> DEFINE line == IF FlushNow THEN Append(unsaved, live) ELSE unsaved
<1>1. /\ running /\ running' = running /\ now' = now /\ live' = live /\ held' = held
      /\ live \in Snapshot /\ unsaved \in Seq(Snapshot) /\ live.minute \in Minutes
  BY DEF FlushNow, FlushNowThrows, LedgerInv, LedgerTyped, Snapshot
<1>2. CASE ~HasInput(live)
  <2>1. FlushNow /\ rows' = rows /\ unsaved' = unsaved
    BY <1>2 DEF FlushNow, FlushNowThrows
  <2>2. Balance'
    BY <1>1, <2>1 DEF Balance, Resting, Begun, Newest, Whole, None, ZeroCounts
  <2>3. unsaved = << >> /\ rows[live.minute] = ZeroCounts /\ live.counts = ZeroCounts
    BY <1>1, <1>2, NoInput DEF Balance, Begun
  <2>4. \A m \in Minutes \ exposed : rows[m] = Whole(m)
    BY <1>1, <2>3, EmptyLine DEF Balance, Newest
  <2> QED
    BY <2>1, <2>2, <2>3, <2>4
<1>3. CASE HasInput(live)
  <2>1. unsaved' = << >> /\ rows' = SavedOver(rows, line)
    BY <1>3, SavedOverRows DEF FlushNow, FlushNowThrows
  <2>2. ASSUME NEW m \in Minutes
        PROVE  SavedOver(rows, line)[m] = IF FlushNow /\ m = live.minute THEN live.counts
                                          ELSE SavedOver(rows, unsaved)[m]
    BY LiveSaved
  <2> HIDE DEF line
  <2>3. HasInput(live') /\ Resting' /\ Begun'
    BY <1>1, <1>3 DEF HasInput, Balance, Resting, Begun, ZeroCounts
  <2>4. Newest'
    BY <1>1, <2>1, <2>2, EmptyLine DEF Balance, Newest, Whole
  <2>5. FlushNow => \A m \in Minutes \ exposed : rows'[m] = Whole(m)
    BY <1>1, <2>1, <2>2 DEF Balance, Newest
  <2> QED
    BY <2>1, <2>3, <2>4, <2>5 DEF Balance
<1> QED
  BY <1>2, <1>3

\* The first in line is saved, or refused and dropped.
LEMMA SaveBalances ==
  ASSUME LedgerInv, Balance, pressed' = pressed,
         \/ Save /\ exposed' = exposed
         \/ Refuse /\ exposed' = exposed \cup ({Head(unsaved).minute} \ {live.minute})
  PROVE  Balance'
<1>1. /\ unsaved # << >> /\ unsaved' = Tail(unsaved) /\ unsaved \in Seq(Snapshot)
      /\ running' = running /\ now' = now /\ live' = live /\ held' = held
  BY DEF Save, Refuse, LedgerInv, LedgerTyped
<1>2. HasInput(live) /\ running
  BY <1>1 DEF Balance, Begun, Resting
<1>3. Resting' /\ Begun'
  BY <1>1, <1>2 DEF Balance, Resting, Begun, HasInput, ZeroCounts
<1>4. ASSUME NEW m \in Minutes \ exposed', m # live.minute
      PROVE  SavedOver(rows', unsaved')[m] = Whole(m)
  <2>1. m \notin exposed /\ (~Save => Head(unsaved).minute # m)
    BY <1>4
  <2>2. rows'[m] = IF Head(unsaved).minute = m THEN Head(unsaved).counts ELSE rows[m]
    <3>1. CASE Save
      BY <3>1 DEF Save, LedgerInv, LedgerTyped
    <3>2. CASE ~Save
      BY <2>1, <3>2 DEF Refuse
    <3> QED
      BY <3>1, <3>2
  <2>3. SavedOver(rows', Tail(unsaved))[m] = SavedOver(rows, unsaved)[m]
    BY <1>1, <2>2, SavedTail
  <2> QED
    BY <1>1, <1>4, <2>1, <2>3 DEF Balance, Newest
<1>5. Newest'
  BY <1>1, <1>2, <1>4 DEF Balance, Newest, Whole
<1> QED
  BY <1>3, <1>5 DEF Balance

\* The timer thread's snapshot joins the line.
LEMMA PutBalances ==
  ASSUME LedgerInv, Balance, Put, pressed' = pressed,
         exposed' = exposed \cup (IF held = live THEN {} ELSE {held.minute})
  PROVE  Balance'
<1>1. /\ held # None /\ rows' = rows /\ running' = running /\ now' = now /\ live' = live
      /\ held' = None /\ None' = None
  BY DEF Put, None
<1>2. HasInput(live) /\ running
  BY <1>1 DEF Balance, Begun, Resting
<1>3. Resting' /\ Begun'
  BY <1>1, <1>2 DEF Balance, Resting, Begun, HasInput, ZeroCounts
<1>4. ASSUME NEW m \in Minutes \ exposed', m # live.minute
      PROVE  SavedOver(rows', unsaved')[m] = Whole(m)
  <2>1. m \notin exposed /\ held.minute # m
    BY <1>4
  <2>2. SavedOver(rows', unsaved')[m] = SavedOver(rows, unsaved)[m]
    BY <2>1, SavedPut DEF LedgerInv
  <2> QED
    BY <1>4, <2>1, <2>2 DEF Balance, Newest
<1>5. Newest'
  BY <1>1, <1>2, <1>4 DEF Balance, Newest, Whole
<1> QED
  BY <1>3, <1>5 DEF Balance

\* The destructor has saved the line and the live bucket.
LEMMA QuitBalances ==
  ASSUME LedgerInv, Balance, Quit
  PROVE  Balance'
<1>1. /\ rows' = Saved(LastLine) /\ live' = Empty /\ unsaved' = << >> /\ held' = None
      /\ running' = FALSE /\ now' = now /\ pressed' = pressed /\ exposed \subseteq exposed'
      /\ None' = None /\ Empty' = Empty
  BY DEF Quit, LastLine, None, Empty, ZeroCounts
<1>2. /\ live \in Snapshot /\ unsaved \in Seq(Snapshot) /\ live.minute \in Nat /\ now \in Nat
  BY DEF LedgerInv, LedgerTyped, Snapshot, Minutes
<1>3. Resting' /\ Begun'
  BY <1>1 DEF Resting, Begun
<1>4. ASSUME NEW m \in Minutes \ exposed
      PROVE  SavedOver(rows, LastLine)[m] = Whole(m)
  <2>1. CASE running /\ m = live.minute /\ HasInput(live)
    <3>1. SavedOver(rows, Append(unsaved, live))[m] = live.counts
      BY <2>1, LiveSaved
    <3> QED
      BY <2>1, <3>1 DEF LastLine, Balance, Newest
  <2>2. CASE running /\ m = live.minute /\ ~HasInput(live)
    <3>1. unsaved = << >> /\ rows[m] = ZeroCounts /\ live.counts = ZeroCounts
      BY <1>2, <2>2, NoInput DEF Balance, Begun
    <3> QED
      BY <2>2, <3>1, EmptyLine DEF LastLine, Balance, Newest
  <2>3. CASE running /\ m # live.minute
    <3>1. SavedOver(rows, Append(unsaved, live))[m] = SavedOver(rows, unsaved)[m]
      BY <2>3, LiveSaved
    <3> QED
      BY <2>3, <3>1 DEF LastLine, Balance, Newest
  <2>4. CASE ~running
    <3>1. ~HasInput(live)
      BY <2>4 DEF Balance, Resting, HasInput, Empty, ZeroCounts
    <3> QED
      BY <2>4, <3>1 DEF LastLine, Balance, Newest
  <2> QED
    BY <2>1, <2>2, <2>3, <2>4
<1>5. Newest'
  BY <1>1, <1>4, EmptyLine, SavedOverRows DEF Newest, Whole
<1> QED
  BY <1>3, <1>5 DEF Balance

\* The process is killed.
LEMMA KillBalances ==
  ASSUME LedgerInv, Balance, Kill
  PROVE  Balance'
<1>1. /\ rows' = rows /\ now' = now /\ pressed' = pressed /\ running' = FALSE
      /\ live' = Empty /\ unsaved' = << >> /\ held' = None
      /\ exposed' = exposed \cup {m \in Minutes : rows[m] # Whole(m)}
      /\ None' = None /\ Empty' = Empty
  BY DEF Kill, Close, Balance, Resting, Whole, None, Empty, ZeroCounts, ledger, LedgerInv,
         LedgerTyped
<1>2. Resting' /\ Begun'
  BY <1>1 DEF Resting, Begun
<1>3. Newest'
  BY <1>1, EmptyLine DEF Newest, Whole
<1> QED
  BY <1>2, <1>3 DEF Balance

\* Nothing moves in the recorder, a snapshot is taken, or the clock moves.
LEMMA RestBalances ==
  ASSUME LedgerInv, Balance, pressed' = pressed, exposed' = exposed,
         UNCHANGED ledger \/ Take \/ Tick
  PROVE  Balance'
<1>1. /\ rows' = rows /\ running' = running /\ live' = live /\ unsaved' = unsaved
      /\ held' = held \/ HasInput(live)
  BY DEF ledger, Take, Tick
<1>2. Resting'
  BY DEF ledger, Take, Tick, Balance, Resting, Empty, None, ZeroCounts
<1>3. Begun'
  BY <1>1 DEF Balance, Begun, HasInput, None, ZeroCounts
<1>4. Newest'
  BY <1>1 DEF Balance, Newest, Whole
<1> QED
  BY <1>2, <1>3, <1>4 DEF Balance

\* Steps that have nothing to do with the recorder.
Elsewhere ==
  \/ StartProgram /\ ~OpenStorage
  \/ ExportCsv
  \/ \E file \in GoodFiles \cup BadFiles : Edit(file)
  \/ UNCHANGED vars

LEMMA ElsewhereIs == Elsewhere => UNCHANGED <<ledger, pressed, exposed, asked>>
  BY DEF Elsewhere, StartProgram, Launch, Look, CreateTemporary, WriteSettings,
         RemoveSettings, RenameSettings, ReadSettings, StartThrows, ExportCsv, OpenCsv,
         WriteCsv, RowThrows, RemoveCsv, RenameCsv, ExportThrows, Edit, vars, history, export

LEMMA PressKeyIs ==
  ASSUME NEW k \in InUse, PressKey(k)
  PROVE  /\ ui = "idle" /\ ui' = ui /\ Press(k)
         /\ pressed' = [pressed EXCEPT ![now][k] = @ + 1]
         /\ exposed' = exposed \cup Reentered
         /\ UNCHANGED <<disk, export_range, report, asked>>
  BY SMT DEF PressKey, files, export

LEMMA StepBalance ==
  ASSUME LedgerInv, Balance, [Next]_vars
  PROVE  Balance' /\ exposed \subseteq exposed'
<1> USE DEF history
<1>1. CASE Elsewhere
  <2>1. UNCHANGED ledger /\ pressed' = pressed /\ exposed' = exposed
    BY <1>1, ElsewhereIs
  <2> QED
    BY <2>1, RestBalances
<1>2. CASE OpenStorage
  BY <1>2, OpenBalances DEF OpenStorage
<1>3. ASSUME NEW r \in Ranges, AskForExport(r) \/ FlushThrows(r)
      PROVE  Balance' /\ exposed \subseteq exposed'
  BY <1>3, FlushBalances DEF AskForExport, FlushThrows
<1>4. ASSUME NEW k \in InUse, PressKey(k)
      PROVE  Balance' /\ exposed \subseteq exposed'
  <2>1. /\ Press(k) /\ k \in Keys /\ exposed' = exposed \cup Reentered
        /\ pressed' = [pressed EXCEPT ![now][k] = @ + 1]
    BY <1>4, PressKeyIs, FilesAssumption
  <2> QED
    BY <2>1, PressBalances
<1>5. CASE SaveOne \/ RefuseOne
  BY <1>5, SaveBalances DEF SaveOne, RefuseOne
<1>6. CASE TakeSnapshot \/ ClockMoves
  BY <1>6, RestBalances DEF TakeSnapshot, ClockMoves
<1>7. CASE PutSnapshot
  BY <1>7, PutBalances DEF PutSnapshot
<1>8. CASE Quit
  BY <1>8, QuitBalances DEF Quit
<1>9. CASE Kill
  BY <1>9, KillBalances DEF Kill
<1> QED
  BY <1>1, <1>2, <1>3, <1>4, <1>5, <1>6, <1>7, <1>8, <1>9 DEF Next, Elsewhere

LEMMA InitBalance == Init => Balance
<1> SUFFICES ASSUME Init
             PROVE  Balance
  OBVIOUS
<1>1. /\ rows = [m \in Minutes |-> ZeroCounts] /\ ~running /\ live = Empty
      /\ unsaved = << >> /\ held = None /\ pressed = [m \in Minutes |-> ZeroCounts]
  BY DEF Init, LedgerInit
<1>2. \A m \in Minutes : SavedOver(rows, unsaved)[m] = Whole(m)
  BY <1>1, EmptyLine, CountedZero DEF Whole
<1> QED
  BY <1>1, <1>2 DEF Balance, Resting, Begun, Newest

-------------------------------------------------------------------------------
(* The export. *)
Exporting == {"export open", "export write", "export remove", "export rename"}

\* Between FlushNow and the query the rows have all presses, and what is still saved
\* meanwhile takes nothing away.
AllThere(m) ==
  /\ rows[m] = Whole(m)
  /\ \A i \in DOMAIN unsaved : unsaved[i].minute = m => unsaved[i].counts = Whole(m)

Flushed ==
  ui \in {"export open", "export write"} =>
    /\ asked = pressed
    /\ \A m \in Minutes \ exposed : AllThere(m)

\* The lines of an export.
Listed(lines, m, k) == {line[3] : line \in {l \in lines : l[1] = m /\ l[2] = k}}

\* A file that ends an export of a range, where counts were pressed and minutes missed.
Complete(lines, range, counts, missed) ==
  \A m \in Minutes, k \in Keys :
    Within(m, range) =>
      IF m \in missed
      THEN \A c \in Listed(lines, m, k) : c <= counts[m][k]
      ELSE Listed(lines, m, k) = {Capped(counts[m][k])} \ {0}

Finished(content, range, counts, missed) ==
  /\ content \in ExportFiles
  /\ content.state # "part"
  /\ content.state = "whole" => Complete(content.lines, range, counts, missed)

\* The temporary file is finished before the destination is removed, ...
Written ==
  ui \in {"export remove", "export rename"} =>
    Finished(disk[Tmp(Csv)], export_range, asked, exposed)

\* ... and the destination before that is reported.
Reported ==
  /\ ui \in Exporting => report # "done"
  /\ report = "done" => Finished(disk[Csv], export_range, asked, exposed)

ExportInv == asked \in Tables /\ Flushed /\ Written /\ Reported

-----------------------------------------------------------------------------
\* A finished file stays so when more minutes are missed.
LEMMA FinishedStays ==
  ASSUME NEW content, NEW range, NEW counts \in Tables, NEW missed, NEW more,
         missed \subseteq more, Finished(content, range, counts, missed)
  PROVE  Finished(content, range, counts, more)
<1>1. ASSUME NEW lines, Complete(lines, range, counts, missed)
      PROVE  Complete(lines, range, counts, more)
  <2> SUFFICES ASSUME NEW m \in Minutes, NEW k \in Keys, Within(m, range)
               PROVE  IF m \in more
                      THEN \A c \in Listed(lines, m, k) : c <= counts[m][k]
                      ELSE Listed(lines, m, k) = {Capped(counts[m][k])} \ {0}
    BY DEF Complete
  <2>1. IF m \in missed
        THEN \A c \in Listed(lines, m, k) : c <= counts[m][k]
        ELSE Listed(lines, m, k) = {Capped(counts[m][k])} \ {0}
    BY <1>1 DEF Complete
  <2>2. Capped(counts[m][k]) <= counts[m][k]
    BY CappedFacts DEF Tables
  <2> QED
    BY <2>1, <2>2
<1> QED
  BY <1>1 DEF Finished

\* The recorder goes on while the export does.
LEMMA SavingsKeep ==
  ASSUME LedgerInv, Balance, running, pressed' = pressed, exposed \subseteq exposed',
         \A m \in Minutes \ exposed : AllThere(m),
         \/ UNCHANGED ledger \/ Take \/ Tick \/ Save \/ Refuse
         \/ Put /\ (held = live \/ held.minute \in exposed')
  PROVE  \A m \in Minutes \ exposed' : AllThere(m)'
<1>1. /\ unsaved \in Seq(Snapshot) /\ rows \in [Minutes -> Counts]
      /\ \A m \in Minutes \ exposed :
           /\ rows[m] = Whole(m)
           /\ \A i \in DOMAIN unsaved : unsaved[i].minute = m => unsaved[i].counts = Whole(m)
  BY DEF AllThere, LedgerInv, LedgerTyped
<1>2. SUFFICES ASSUME NEW m \in Minutes \ exposed'
               PROVE  /\ rows'[m] = Whole(m)
                      /\ \A i \in DOMAIN unsaved' :
                           unsaved'[i].minute = m => unsaved'[i].counts = Whole(m)
  BY DEF AllThere, Whole
<1>3. CASE UNCHANGED ledger \/ Take \/ Tick
  BY <1>1, <1>3 DEF ledger, Take, Tick
<1>4. CASE Save \/ Refuse
  <2>1. unsaved # << >> /\ unsaved' = Tail(unsaved)
    BY <1>4 DEF Save, Refuse
  <2>2. rows'[m] = rows[m] \/ (Head(unsaved).minute = m /\ rows'[m] = Head(unsaved).counts)
    BY <1>1, <1>4 DEF Save, Refuse
  <2>3. \E j \in DOMAIN unsaved : Head(unsaved) = unsaved[j]
    BY <1>1, <2>1, TailMembers
  <2>4. \A i \in DOMAIN unsaved' : \E j \in DOMAIN unsaved : unsaved'[i] = unsaved[j]
    BY <1>1, <2>1, TailMembers
  <2> QED
    BY <1>1, <2>2, <2>3, <2>4
<1>5. CASE Put /\ (held = live \/ held.minute \in exposed')
  <2>1. \A i \in DOMAIN unsaved' :
          unsaved'[i] = held \/ \E j \in DOMAIN unsaved : unsaved'[i] = unsaved[j]
    BY <1>5, PutMembers DEF LedgerInv
  <2>2. held.minute = m => held.counts = Whole(m)
    BY <1>5 DEF Balance, Newest
  <2>3. rows' = rows
    BY <1>5 DEF Put
  <2> QED
    BY <1>1, <2>1, <2>2, <2>3
<1> QED
  BY <1>3, <1>4, <1>5

LEMMA StepFlushed ==
  ASSUME LedgerInv, Balance, TypeOK, Flushed, [Next]_vars
  PROVE  Flushed'
<1> USE DEF history, export, files
<1> DEFINE Before == {"export open", "export write"}
<1>1. SUFFICES ASSUME ui' \in Before
               PROVE  Flushed'
  BY DEF Flushed
<1>2. ASSUME NEW r \in Ranges, AskForExport(r)
      PROVE  Flushed'
  <2>1. FlushNow /\ pressed' = pressed /\ exposed' = exposed
    BY <1>2 DEF AskForExport
  <2>2. asked' = pressed'
    BY <1>2 DEF AskForExport, Ask
  <2>3. unsaved' = << >> /\ \A m \in Minutes \ exposed : rows'[m] = Whole(m)
    BY <2>1, FlushBalances
  <2>4. \A m \in Minutes \ exposed' : AllThere(m)'
    BY <2>1, <2>3 DEF AllThere, Whole
  <2> QED
    BY <2>2, <2>4 DEF Flushed
<1>3. ASSUME ui \in Before, pressed' = pressed, asked' = asked,
             \A m \in Minutes \ exposed' : AllThere(m)'
      PROVE  Flushed'
  <2>1. asked' = pressed'
    BY <1>3 DEF Flushed
  <2> QED
    BY <1>3, <2>1 DEF Flushed
<1>4. CASE OpenCsv
  <2>1. ui \in Before /\ pressed' = pressed /\ asked' = asked /\ exposed' = exposed
        /\ UNCHANGED ledger /\ running
    BY <1>4 DEF OpenCsv, Goto, TypeOK
  <2>2. \A m \in Minutes \ exposed : AllThere(m)
    BY <2>1 DEF Flushed
  <2>3. \A m \in Minutes \ exposed' : AllThere(m)'
    BY <2>1, <2>2, SavingsKeep
  <2> QED
    BY <1>3, <2>1, <2>3
<1>5. CASE SaveOne \/ RefuseOne \/ TakeSnapshot \/ PutSnapshot \/ ClockMoves \/ UNCHANGED vars
  <2>1. /\ ui' = ui /\ asked' = asked /\ pressed' = pressed /\ exposed \subseteq exposed'
        /\ \/ UNCHANGED ledger \/ Take \/ Tick \/ Save \/ Refuse
           \/ Put /\ (held = live \/ held.minute \in exposed')
    BY <1>5
    DEF SaveOne, RefuseOne, TakeSnapshot, PutSnapshot, ClockMoves, vars
  <2>2. ui \in Before /\ running
    BY <1>1, <2>1 DEF TypeOK
  <2>3. \A m \in Minutes \ exposed : AllThere(m)
    BY <2>2 DEF Flushed
  <2>4. \A m \in Minutes \ exposed' : AllThere(m)'
    BY <2>1, <2>2, <2>3, SavingsKeep
  <2> QED
    BY <1>3, <2>1, <2>2, <2>4
<1>6. ~StartProgram
  BY <1>1
  DEF StartProgram, Launch, Look, CreateTemporary, WriteSettings, RemoveSettings,
      RenameSettings, ReadSettings, OpenStorage, StartThrows, Goto
<1>7. ExportCsv => OpenCsv
  BY <1>1 DEF ExportCsv, WriteCsv, RowThrows, RemoveCsv, RenameCsv, ExportThrows, Goto
<1>8. /\ \A r \in Ranges : ~FlushThrows(r)
      /\ \A file \in GoodFiles \cup BadFiles : ~Edit(file)
      /\ ~Quit /\ ~Kill
  BY <1>1 DEF FlushThrows, Quit, Kill, Edit
<1>9. \A k \in InUse : ~PressKey(k)
  BY <1>1, PressKeyIs
<1> QED
  BY <1>2, <1>4, <1>5, <1>6, <1>7, <1>8, <1>9 DEF Next

-----------------------------------------------------------------------------
(* What an export writes. *)

\* The lines of a minute: its counts other than zero.
LEMMA LinesAre ==
  ASSUME LedgerInv, RowInv, NEW m \in Minutes \cup {OldMinute}, Readable(m)
  PROVE  /\ Lines(m) \subseteq Int \X Nat \X Nat
         /\ \A line \in Lines(m) : line[1] = m
         /\ m \in Minutes => Lines(m) = {<<m, k, rows[m][k]>> : k \in NonZero(rows[m])}
<1> DEFINE counts == Decode(Row(m).counts)
<1>1. m \in Int /\ (m \in Minutes => m # OldMinute)
  BY LedgerAssumption DEF Minutes, OldMinute
<1>2. m \in Minutes => counts = rows[m]
  <2>1. ASSUME m \in Minutes
        PROVE  counts = rows[m]
    <3>1. rows[m] \in Counts /\ Row(m) = NewRow(rows[m])
      BY <2>1, <1>1 DEF LedgerInv, LedgerTyped, Row
    <3> QED
      BY <3>1, NewRowRead
  <2> QED
    BY <2>1
<1>3. Row(m).counts \in Seq(Bytes) /\ Accepts(Row(m).counts)
  <2>1. CASE m \in Minutes
    <3>1. rows[m] \in Counts /\ Row(m) = NewRow(rows[m])
      BY <2>1, <1>1 DEF LedgerInv, LedgerTyped, Row
    <3> QED
      BY <3>1, NewRowRead DEF Readable
  <2>2. CASE m = OldMinute
    BY <2>2, OldRowBytes DEF Row, Readable
  <2> QED
    BY <2>1, <2>2
<1>4. Lines(m) = {<<m, k, counts[k]>> : k \in NonZero(counts)}
  BY DEF Lines
<1>5. \A k \in NonZero(counts) : k \in Nat /\ counts[k] \in Nat
  <2> TAKE k \in NonZero(counts)
  <2>1. k \in KeyIndexes
    BY DEF NonZero
  <2>2. k \in Nat
    BY <2>1, CodecAssumption DEF KeyIndexes
  <2> QED
    BY <2>1, <2>2, <1>3, DecodedCounts
<1> HIDE DEF counts
<1>6. Lines(m) \subseteq Int \X Nat \X Nat /\ \A line \in Lines(m) : line[1] = m
  BY <1>1, <1>4, <1>5
<1> QED
  BY <1>2, <1>4, <1>6

\* What lines an export has of a minute and a key.
LEMMA ListedAre ==
  ASSUME LedgerInv, RowInv, \A n \in Selected : Readable(n),
         NEW m \in Minutes, NEW k \in Keys, InRange(m)
  PROVE  Listed(UNION {Lines(n) : n \in Selected}, m, k) = {rows[m][k]} \ {0}
<1> DEFINE lines == UNION {Lines(n) : n \in Selected}
<1>1. \A n \in Selected : n \in Minutes \cup {OldMinute}
  BY DEF Selected
<1>2. k \in KeyIndexes
  BY CountsAreVectors
<1>3. ASSUME NEW c \in Listed(lines, m, k)
      PROVE  c = rows[m][k] /\ c # 0
  <2>1. PICK line \in lines : line[1] = m /\ line[2] = k /\ line[3] = c
    BY <1>3 DEF Listed
  <2>2. PICK n \in Selected : line \in Lines(n)
    OBVIOUS
  <2>3. n = m
    BY <1>1, <2>1, <2>2, LinesAre
  <2>4. line \in {<<m, j, rows[m][j]>> : j \in NonZero(rows[m])}
    BY <2>2, <2>3, LinesAre
  <2>5. PICK j \in NonZero(rows[m]) : line = <<m, j, rows[m][j]>>
    BY <2>4
  <2>6. j = k /\ c = rows[m][j]
    BY <2>1, <2>5
  <2> QED
    BY <2>6 DEF NonZero
<1>4. ASSUME rows[m][k] # 0
      PROVE  rows[m][k] \in Listed(lines, m, k)
  <2>1. rows[m] # ZeroCounts
    BY <1>4 DEF ZeroCounts
  <2>2. m \in Selected
    BY <2>1 DEF Selected
  <2>3. <<m, k, rows[m][k]>> \in Lines(m)
    BY <1>2, <1>4, <2>2, LinesAre DEF NonZero
  <2>4. <<m, k, rows[m][k]>> \in lines
    BY <2>2, <2>3
  <2> HIDE DEF lines
  <2> QED
    BY <2>4 DEF Listed
<1> HIDE DEF lines
<1>5. Listed(lines, m, k) = {rows[m][k]} \ {0}
  BY <1>3, <1>4
<1> QED
  BY <1>5 DEF lines

\* FlushNow and the query together: the lines written are those of a finished file.
LEMMA WrittenIsComplete ==
  ASSUME LedgerInv, RowInv, Flushed, ui = "export write", \A n \in Selected : Readable(n)
  PROVE  LET lines == UNION {Lines(n) : n \in Selected}
         IN  /\ lines \subseteq Int \X Nat \X Nat
             /\ Complete(lines, export_range, asked, exposed)
<1> DEFINE lines == UNION {Lines(n) : n \in Selected}
<1>1. lines \subseteq Int \X Nat \X Nat
  <2>1. \A n \in Selected : n \in Minutes \cup {OldMinute}
    BY DEF Selected
  <2> QED
    BY <2>1, LinesAre
<1>2. asked = pressed /\ \A m \in Minutes \ exposed : rows[m] = Whole(m)
  BY DEF Flushed, AllThere
<1>3. ASSUME NEW m \in Minutes, NEW k \in Keys, Within(m, export_range)
      PROVE  IF m \in exposed
             THEN \A c \in Listed(lines, m, k) : c <= asked[m][k]
             ELSE Listed(lines, m, k) = {Capped(asked[m][k])} \ {0}
  <2>1. Listed(lines, m, k) = {rows[m][k]} \ {0}
    BY <1>3, ListedAre DEF InRange
  <2>2. rows[m][k] <= pressed[m][k]
    <3>1. [minute |-> m, counts |-> rows[m]] \in Snapshots
      BY DEF Snapshots
    <3> QED
      BY <3>1 DEF LedgerInv, Covered
  <2>3. m \notin exposed => rows[m][k] = Capped(pressed[m][k])
    BY <1>2 DEF Whole, Counted
  <2> HIDE DEF lines
  <2> QED
    BY <1>2, <2>1, <2>2, <2>3
<1> HIDE DEF lines
<1>4. Complete(lines, export_range, asked, exposed)
  BY <1>3 DEF Complete
<1> QED
  BY <1>1, <1>4 DEF lines

\* A step that leaves the files of the export alone, and its arguments.
LEMMA FilesStay ==
  ASSUME ExportInv, exposed \subseteq exposed', asked' = asked,
         export_range' = export_range, report' = report,
         disk'[Csv] = disk[Csv], disk'[Tmp(Csv)] = disk[Tmp(Csv)],
         ui' = ui \/ ui' \notin Exporting \/ (ui = "export open" /\ ui' = "export write")
  PROVE  Written' /\ Reported'
<1>1. ASSUME NEW content, Finished(content, export_range, asked, exposed)
      PROVE  Finished(content, export_range, asked, exposed')
  BY <1>1, FinishedStays DEF ExportInv
<1>2. Written'
  BY <1>1 DEF ExportInv, Written, Exporting, Finished, Complete, Capped
<1>3. Reported'
  BY <1>1 DEF ExportInv, Reported, Exporting, Finished, Complete, Capped
<1> QED
  BY <1>2, <1>3

\* The export itself.
LEMMA ExportWrites ==
  ASSUME LedgerInv, RowInv, Counters, ExportInv, ExportCsv
  PROVE  Written' /\ Reported'
<1>1. /\ asked' = asked /\ export_range' = export_range /\ exposed' = exposed
      /\ ui \in Exporting /\ report # "done"
  BY DEF ExportCsv, OpenCsv, WriteCsv, RowThrows, RemoveCsv, RenameCsv, ExportThrows,
         export, history, Goto, Exporting, ExportInv, Reported
<1>2. ASSUME Finished(disk'[Tmp(Csv)], export_range, asked, exposed)
      PROVE  Written'
  BY <1>1, <1>2 DEF Written, Finished, Complete, Capped
<1>3. CASE OpenCsv
  BY <1>1, <1>3 DEF OpenCsv, Goto, export, Written, Reported
<1>4. CASE WriteCsv
  <2>1. /\ ui = "export write" /\ ui' = "export remove" /\ report' = report
        /\ \A n \in Selected : Readable(n)
    BY <1>4 DEF WriteCsv, Goto, export
  <2> DEFINE lines == UNION {Lines(n) : n \in Selected}
  <2>2. /\ lines \subseteq Int \X Nat \X Nat
        /\ Complete(lines, export_range, asked, exposed)
    BY <2>1, WrittenIsComplete DEF ExportInv
  <2>3. \/ Write(Tmp(Csv), [lines |-> lines, state |-> "whole"])
        \/ Write(Tmp(Csv), [lines |-> {}, state |-> "cut"])
    BY <1>4 DEF WriteCsv, RowsRead
  <2> HIDE DEF lines
  <2>4. disk'[Tmp(Csv)] \in {[lines |-> lines, state |-> "whole"],
                             [lines |-> {}, state |-> "cut"]}
    BY <2>3, WriteFacts, PathFacts
  <2>5. Finished([lines |-> lines, state |-> "whole"], export_range, asked, exposed)
    BY <2>2 DEF Finished, ExportFiles
  <2>6. Finished([lines |-> {}, state |-> "cut"], export_range, asked, exposed)
    BY DEF Finished, ExportFiles
  <2>7. Written'
    BY <1>2, <2>4, <2>5, <2>6
  <2>8. Reported'
    BY <1>1, <2>1 DEF Reported
  <2> QED
    BY <2>7, <2>8
<1>5. CASE RemoveCsv
  <2>1. disk'[Tmp(Csv)] = disk[Tmp(Csv)]
    BY <1>5, WriteFacts, PathFacts DEF RemoveCsv
  <2>2. ui = "export remove" /\ report' = report
    BY <1>5 DEF RemoveCsv, Goto, export
  <2>3. Written'
    BY <1>2, <2>1, <2>2 DEF ExportInv, Written
  <2>4. Reported'
    BY <1>1, <2>2 DEF Reported
  <2> QED
    BY <2>3, <2>4
<1>6. CASE RenameCsv
  <2>1. disk'[Csv] = disk[Tmp(Csv)]
    BY <1>6, RenameFacts, PathFacts DEF RenameCsv
  <2>2. ui = "export rename" /\ ui' = "idle"
    BY <1>6 DEF RenameCsv, Goto
  <2>3. Finished(disk'[Csv], export_range, asked, exposed)
    BY <2>1, <2>2 DEF ExportInv, Written
  <2>4. Reported'
    BY <1>1, <2>2, <2>3 DEF Reported, Exporting, Finished, Complete, Capped
  <2>5. Written'
    BY <2>2 DEF Written
  <2> QED
    BY <2>4, <2>5
<1>7. CASE RowThrows \/ ExportThrows
  <2>1. ui' = "idle" /\ report' = "failed"
    BY <1>7 DEF RowThrows, ExportThrows, Goto
  <2> QED
    BY <2>1 DEF Written, Reported, Exporting
<1> QED
  BY <1>3, <1>4, <1>5, <1>6, <1>7 DEF ExportCsv

\* InitializeStorage and the user do not write to the files of an export.
LEMMA SettingsElsewhere ==
  ASSUME Counters,
         StartProgram \/ \E file \in GoodFiles \cup BadFiles : Edit(file)
  PROVE  /\ disk'[Csv] = disk[Csv] /\ disk'[Tmp(Csv)] = disk[Tmp(Csv)]
         /\ UNCHANGED <<export_range, asked, report, exposed>>
         /\ ui' \notin Exporting
<1>1. ASSUME NEW path \in {Settings, Tmp(Settings)}, NEW content, Write(path, content)
      PROVE  disk'[Csv] = disk[Csv] /\ disk'[Tmp(Csv)] = disk[Tmp(Csv)]
  BY <1>1, WriteFacts, PathFacts
<1>2. UNCHANGED <<export_range, asked, report, exposed>> /\ ui' \notin Exporting
  BY DEF StartProgram, Launch, Look, CreateTemporary, WriteSettings, RemoveSettings,
         RenameSettings, ReadSettings, OpenStorage, StartThrows, Edit, Goto, export,
         history, Exporting
<1>3. CASE CreateTemporary \/ RemoveSettings
  BY <1>1, <1>2, <1>3 DEF CreateTemporary, RemoveSettings
<1>4. CASE WriteSettings
  <2>1. PICK content : Write(Tmp(Settings), content)
    BY <1>4 DEF WriteSettings
  <2> QED
    BY <1>1, <1>2, <2>1
<1>5. CASE RenameSettings
  <2>1. disk'[Csv] = disk[Csv] /\ disk'[Tmp(Csv)] = disk[Tmp(Csv)]
    BY <1>5, RenameFacts, PathFacts DEF RenameSettings
  <2> QED
    BY <1>2, <2>1
<1>6. CASE Launch \/ Look \/ ReadSettings \/ OpenStorage \/ StartThrows
  <2>1. disk' = disk
    BY <1>6 DEF Launch, Look, ReadSettings, OpenStorage, StartThrows
  <2> QED
    BY <1>2, <2>1
<1>7. ASSUME NEW file, Edit(file)
      PROVE  disk'[Csv] = disk[Csv] /\ disk'[Tmp(Csv)] = disk[Tmp(Csv)]
  BY <1>1, <1>7 DEF Edit
<1> QED
  BY <1>2, <1>3, <1>4, <1>5, <1>6, <1>7 DEF StartProgram

LEMMA StepExport ==
  ASSUME LedgerInv, RowInv, Balance, TypeOK, Counters, ExportInv, [Next]_vars
  PROVE  ExportInv'
<1>1. Flushed'
  BY StepFlushed DEF ExportInv
<1>2. exposed \subseteq exposed'
  BY StepBalance
<1>3. CASE ExportCsv
  <2>1. asked' = asked
    BY <1>3
    DEF ExportCsv, OpenCsv, WriteCsv, RowThrows, RemoveCsv, RenameCsv, ExportThrows, export
  <2>2. asked' \in Tables
    BY <2>1 DEF ExportInv
  <2> QED
    BY <1>1, <1>3, <2>2, ExportWrites DEF ExportInv, Tables
<1>4. CASE StartProgram \/ \E file \in GoodFiles \cup BadFiles : Edit(file)
  <2>1. Written' /\ Reported'
    BY <1>2, <1>4, SettingsElsewhere, FilesStay
  <2>2. asked' \in Tables
    BY <1>4, SettingsElsewhere DEF ExportInv
  <2> QED
    BY <1>1, <2>1, <2>2 DEF ExportInv, Tables
<1>5. ASSUME NEW r \in Ranges, AskForExport(r) \/ FlushThrows(r)
      PROVE  ExportInv'
  <2>1. asked' = pressed
    BY <1>5 DEF AskForExport, FlushThrows, Ask
  <2>2. asked' \in Tables
    BY <2>1 DEF LedgerInv
  <2>3. ui' \in {"idle", "export open"} /\ report' \in {"none", "failed"}
    BY <1>5 DEF AskForExport, FlushThrows, Goto, files
  <2>4. Written' /\ Reported'
    BY <2>3 DEF Written, Reported
  <2> QED
    BY <1>1, <2>2, <2>4 DEF ExportInv, Tables
<1>6. ASSUME NEW k \in InUse, PressKey(k)
      PROVE  ExportInv'
  <2>1. /\ ui' = ui /\ disk' = disk /\ export_range' = export_range /\ report' = report
    BY <1>6, PressKeyIs
  <2>2. asked' = asked
    BY <1>6, PressKeyIs
  <2>3. Written' /\ Reported'
    BY <1>2, <2>1, <2>2, FilesStay
  <2>4. asked' \in Tables
    BY <2>2 DEF ExportInv
  <2> QED
    BY <1>1, <2>3, <2>4 DEF ExportInv, Tables
<1>7. CASE \/ SaveOne \/ RefuseOne \/ TakeSnapshot \/ PutSnapshot \/ ClockMoves
           \/ Quit \/ Kill \/ UNCHANGED vars
  <2>1. /\ ui' = ui \/ ui' = "off"
        /\ disk' = disk /\ export_range' = export_range /\ report' = report
    BY <1>7
    DEF SaveOne, RefuseOne, TakeSnapshot, PutSnapshot, ClockMoves, Quit, Kill, vars, files,
        export
  <2>2. asked' = asked
    BY <1>7
    DEF SaveOne, RefuseOne, TakeSnapshot, PutSnapshot, ClockMoves, Quit, Kill, vars, files,
        export
  <2>3. ui' = ui \/ ui' \notin Exporting
    BY <2>1 DEF Exporting
  <2>4. Written' /\ Reported'
    BY <1>2, <2>1, <2>2, <2>3, FilesStay
  <2>5. asked' \in Tables
    BY <2>2 DEF ExportInv
  <2> QED
    BY <1>1, <2>4, <2>5 DEF ExportInv, Tables
<1> QED
  BY <1>3, <1>4, <1>5, <1>6, <1>7 DEF Next

LEMMA InitExport == Init => ExportInv
<1> SUFFICES ASSUME Init
             PROVE  ExportInv
  OBVIOUS
<1>1. asked = [m \in Minutes |-> ZeroCounts] /\ ui = "off" /\ report = "none"
  BY DEF Init
<1>2. asked \in Tables
  BY <1>1 DEF Tables, ZeroCounts
<1> QED
  BY <1>1, <1>2 DEF ExportInv, Flushed, Written, Reported, Exporting

-----------------------------------------------------------------------------
FilesInv == LedgerInv /\ RowInv /\ Balance /\ TypeOK /\ KeptInv /\ StartInv /\ ExportInv

LEMMA InitFiles == Init => FilesInv
  BY InitLedgerInv, InitBalance, InitType, InitStart, InitExport DEF FilesInv, Init, RowInv

LEMMA StepFilesInv == FilesInv /\ [Next]_vars => FilesInv'
<1> SUFFICES ASSUME FilesInv, [Next]_vars
             PROVE  FilesInv'
  OBVIOUS
<1>1. LedgerInv' /\ RowInv' /\ Balance'
  BY StepLedgerInv, StepRow, StepBalance DEF FilesInv
<1>2. KeptInv' /\ StartInv'
  BY StepKeeps DEF FilesInv
<1>3. TypeOK'
  BY StepType DEF FilesInv, KeptInv
<1>4. ExportInv'
  BY StepExport DEF FilesInv, KeptInv
<1> QED
  BY <1>1, <1>2, <1>3, <1>4 DEF FilesInv

\* When ExportCsv has returned, what lies at the destination has every press of the
\* range made before the command, those still in memory then included, and no other.
THEOREM ExportsAreComplete == Spec => []ExportIsComplete
<1>1. FilesInv => ExportIsComplete
  <2> SUFFICES ASSUME FilesInv, report = "done"
               PROVE  /\ Exported(disk[Csv])
                      /\ disk[Csv].state = "whole" =>
                           \A m \in {n \in Minutes : InRange(n)}, k \in Keys :
                             LET listed == Listed(disk[Csv].lines, m, k)
                             IN  IF m \in exposed
                                 THEN \A c \in listed : c <= asked[m][k]
                                 ELSE listed = {Capped(asked[m][k])} \ {0}
    BY DEF ExportIsComplete, Listed
  <2>1. Finished(disk[Csv], export_range, asked, exposed)
    BY DEF FilesInv, ExportInv, Reported
  <2>2. Exported(disk[Csv])
    BY <2>1, ModelValuesAssumption DEF Finished, Exported
  <2> QED
    BY <2>1, <2>2 DEF Finished, Complete, InRange
<1> QED
  BY <1>1, InitFiles, StepFilesInv, PTL DEF Spec

\* The destination goes only when a finished file lies beside it, and what comes is
\* that file: wherever the export is killed or throws, the old file is there or the
\* new one can be recovered.
THEOREM DestinationIsReplacedWhole == Spec => DestinationReplacedWhole
<1>1. FilesInv /\ [Next]_vars =>
        [disk'[Csv] # disk[Csv] =>
           IF disk'[Csv] = NoFile
           THEN Exported(disk[Tmp(Csv)]) /\ disk[Tmp(Csv)].state # "part"
           ELSE disk'[Csv].state # "part"]_vars
  <2> SUFFICES ASSUME FilesInv, [Next]_vars, disk'[Csv] # disk[Csv]
               PROVE  IF disk'[Csv] = NoFile
                      THEN Exported(disk[Tmp(Csv)]) /\ disk[Tmp(Csv)].state # "part"
                      ELSE disk'[Csv].state # "part"
    OBVIOUS
  <2>1. RemoveCsv \/ RenameCsv
    <3>1. Counters
      BY DEF FilesInv, KeptInv
    <3>2. ~StartProgram /\ ~\E file \in GoodFiles \cup BadFiles : Edit(file)
      BY <3>1, SettingsElsewhere
    <3>3. ASSUME NEW content, Write(Tmp(Csv), content)
          PROVE  FALSE
      BY <3>1, <3>3, WriteFacts, PathFacts
    <3>4. ~OpenCsv /\ ~WriteCsv
      BY <3>3 DEF OpenCsv, WriteCsv, RowsRead
    <3>5. ~RowThrows /\ ~ExportThrows
      BY DEF RowThrows, ExportThrows
    <3>6. \A k \in InUse : ~PressKey(k)
      BY PressKeyIs
    <3> QED
      BY <3>2, <3>4, <3>5, <3>6
      DEF Next, ExportCsv, AskForExport, FlushThrows, SaveOne, RefuseOne, TakeSnapshot,
          PutSnapshot, ClockMoves, Quit, Kill, vars, files
  <2>2. Finished(disk[Tmp(Csv)], export_range, asked, exposed)
    BY <2>1 DEF RemoveCsv, RenameCsv, Goto, FilesInv, ExportInv, Written
  <2>3. Exported(disk[Tmp(Csv)]) /\ disk[Tmp(Csv)].state # "part"
    BY <2>2, ModelValuesAssumption DEF Finished, Exported
  <2>4. disk'[Csv] \in {NoFile, disk[Tmp(Csv)]}
    BY <2>1, WriteFacts, RenameFacts, PathFacts DEF RemoveCsv, RenameCsv, FilesInv, KeptInv
  <2> QED
    BY <2>3, <2>4
<1> QED
  BY <1>1, InitFiles, StepFilesInv, PTL DEF Spec, DestinationReplacedWhole
=============================================================================
