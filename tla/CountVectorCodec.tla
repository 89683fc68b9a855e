-------------------------- MODULE CountVectorCodec --------------------------
(***************************************************************************)
(* CountVectorCodec (src/storage/count_vector_codec.cpp): the blob a       *)
(* minute's counts are stored as.  A byte is a number below 256; data is a *)
(* sequence, so the code's offset n is position n + 1.  Decode's loop      *)
(* throws at the first bad entry; here Accepts says that no entry is bad.  *)
(***************************************************************************)
EXTENDS Integers, SequencesExt

CONSTANT KeyCount   \* kKeyCount

ASSUME CodecAssumption == KeyCount \in Nat /\ KeyCount < 65536

kFormatVersion == 1
kMinimumSupportedKeyMapVersion == 1
kKeyMapVersion == 2
kHeaderSize    == 3
kEntrySize     == 6

KeyIndexes == 0 .. KeyCount - 1
Bytes      == 0 .. 255

\* Byte b of WriteU16 and WriteU32, the lowest first.
ByteOf(value, b) ==
  (IF b = 0 THEN value
   ELSE IF b = 1 THEN value \div 256
   ELSE IF b = 2 THEN value \div 65536
   ELSE value \div 16777216) % 256

ReadU16(data, offset) == data[offset + 1] + 256 * data[offset + 2]

ReadU32(data, offset) ==
  data[offset + 1] + 256 * data[offset + 2]
    + 65536 * data[offset + 3] + 16777216 * data[offset + 4]

-----------------------------------------------------------------------------
\* The key indexes with a count, each once, in some order.
NonZero(counts) == {k \in KeyIndexes : counts[k] # 0}

IsListing(order, S) ==
  /\ order \in Seq(S)
  /\ \A i, j \in 1 .. Len(order) : order[i] = order[j] => i = j
  /\ \A k \in S : \E i \in 1 .. Len(order) : order[i] = k

\* The version, the number of entries, and an entry for each key of the order.
EncodeEntries(counts, order) ==
  [p \in 1 .. kHeaderSize + kEntrySize * Len(order) |->
     IF p = 1 THEN kFormatVersion
     ELSE IF p <= kHeaderSize THEN ByteOf(Len(order), p - 2)
     ELSE LET key == order[(p - 4) \div kEntrySize + 1]
              b   == (p - 4) % kEntrySize
          IN  IF b < 2 THEN ByteOf(key, b) ELSE ByteOf(counts[key], b - 2)]

\* The members of a set in the order of their indexes.
InOrder(S) ==
  CHOOSE order \in [1 .. Cardinality(S) -> S] :
    \A i, j \in 1 .. Cardinality(S) : i < j => order[i] < order[j]

\* Encode writes them in that order.
Encode(counts) == EncodeEntries(counts, InOrder(NonZero(counts)))

-----------------------------------------------------------------------------
EntryCount(data)     == ReadU16(data, 1)
EntryOffset(e)       == kHeaderSize + kEntrySize * (e - 1)
KeyAt(data, e)       == ReadU16(data, EntryOffset(e))
CountAt(data, e)     == ReadU32(data, EntryOffset(e) + 2)

\* Mutant: a second entry of a key is not noticed.
SeenNot(data, e) == TRUE

\* `seen' has no earlier entry of this key.
FirstOfKey(data, e) == \A f \in 1 .. e - 1 : KeyAt(data, f) # KeyAt(data, e)

\* Decode does not throw.
Accepts(data) ==
  /\ Len(data) >= kHeaderSize
  /\ data[1] = kFormatVersion
  /\ Len(data) = kHeaderSize + kEntrySize * EntryCount(data)
  /\ \A e \in 1 .. EntryCount(data) :
       /\ KeyAt(data, e) < KeyCount
       /\ FirstOfKey(data, e)
       /\ CountAt(data, e) # 0

\* What it returns then.
Decode(data) ==
  [k \in KeyIndexes |->
     IF \E e \in 1 .. EntryCount(data) : KeyAt(data, e) = k
     THEN CountAt(data, CHOOSE e \in 1 .. EntryCount(data) : KeyAt(data, e) = k)
     ELSE 0]

-----------------------------------------------------------------------------
\* What is encoded, in whatever order, is accepted and read back.
ReadsBack(counts, order) ==
  /\ Accepts(EncodeEntries(counts, order))
  /\ Decode(EncodeEntries(counts, order)) = counts

\* What is accepted is an encoding of the counts it decodes to, to the last byte:
\* no blob of another make passes for one.
AcceptedIsEncoding(data) ==
  Accepts(data) =>
    data = EncodeEntries(Decode(data), [e \in 1 .. EntryCount(data) |-> KeyAt(data, e)])
=============================================================================
