--------------------------------- MODULE Wire ---------------------------------
(***************************************************************************)
(* Words on the wire, shared by the models of the protocol codecs.         *)
(*                                                                         *)
(* A buffer is a sequence of words, a word stands for the four bytes of a  *)
(* little-endian u32 and has U32 values, 2^32 in the code.  A u64 is two   *)
(* words, the low one first.  Digests and identities, of several words in  *)
(* the code, are one word: they are only compared as a whole.              *)
(***************************************************************************)
EXTENDS Integers, Sequences, SequencesExt

CONSTANT U32    \* the number of values of a u32

U32Max == U32 - 1
U64Max == U32 * U32 - 1

(* load_u32, load_u64, store_u64: the field at a word offset from 0.       *)
LoadU32(b, offset) == b[offset + 1]
LoadU64(b, offset) == b[offset + 1] + U32 * b[offset + 2]
StoreU64(n) == <<n % U32, n \div U32>>

(* A sum of two u64.                                                       *)
AddU64(m, n) == (m + n) % (U64Max + 1)

(* The bits of a flag word.                                                *)
Bits(n) == {i \in 0 .. 30 : (n \div 2^i) % 2 = 1}
Within(flags, known) == Bits(flags) \subseteq Bits(known)

(* The n records of a table that starts at a word offset, size words each. *)
DecodeTable(b, offset, n, size, Record(_, _)) ==
  [i \in 1 .. n |-> Record(b, offset + size * (i - 1))]

EncodeTable(records, Record(_)) ==
  FlattenSeq([i \in DOMAIN records |-> Record(records[i])])

(* The running sums of a sequence of counts, from 0.                       *)
Cursor(counts) ==
  LET c[i \in 0 .. Len(counts)] == IF i = 0 THEN 0 ELSE c[i - 1] + counts[i] IN c

(* The binary searches of the codecs: where key is in a sorted sequence.   *)
NotFound == 0
BinarySearch(keys, key) ==
  LET search[left \in 0 .. Len(keys), right \in 0 .. Len(keys)] ==
        LET middle == left + (right - left) \div 2 IN
        IF left >= right THEN NotFound
        ELSE IF keys[middle + 1] = key THEN middle + 1
        ELSE IF keys[middle + 1] < key THEN search[middle + 1, right]
        ELSE search[left, middle]
  IN search[0, Len(keys)]

(* The words from an offset are the expected ones, Free where the decoder   *)
(* takes what it finds.                                                    *)
Free == -1
Expect(b, offset, expected) ==
  \A i \in DOMAIN expected : expected[i] \in {Free, LoadU32(b, offset + i - 1)}

(* A record of size words whose u32 and u64 fields lie at given offsets, the *)
(* rest zero, and the fields read back.                                    *)
PutFields(size, at32, at64, r) ==
  LET at(offsets, w) == {f \in DOMAIN offsets : offsets[f] = w}
      word(w) == {r[f] : f \in at(at32, w)} \cup {r[f] % U32 : f \in at(at64, w)}
                 \cup {r[f] \div U32 : f \in at(at64, w - 1)}
  IN [i \in 1 .. size |-> IF word(i - 1) = {} THEN 0 ELSE CHOOSE n \in word(i - 1) : TRUE]

GetFields(b, at32, at64) ==
  [f \in DOMAIN at32 \cup DOMAIN at64 |->
     IF f \in DOMAIN at32 THEN LoadU32(b, at32[f]) ELSE LoadU64(b, at64[f])]

(* An i64 as a u64 and back.                                               *)
Unsigned(n) == n % (U64Max + 1)
Signed(n) == IF 2 * n > U64Max THEN n - (U64Max + 1) ELSE n

(* Column f of a table.                                                    *)
Column(records, f) == [i \in DOMAIN records |-> records[i][f]]

(* Pairs of different positions of a sequence.                             *)
Pairs(s) == {p \in (DOMAIN s) \X (DOMAIN s) : p[1] < p[2]}
===============================================================================
