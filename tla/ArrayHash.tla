------------------------------ MODULE ArrayHash ------------------------------
(***************************************************************************)
(* array_hash (src/thirdparty/include/tsl/array-hash/array_hash.h), the    *)
(* map from strings to values in the leaves of the prefix tree, with the   *)
(* power-of-two growth policy of array_growth_policy.h.                    *)
(*                                                                         *)
(* A table is a record: buckets of entries, an entry being a key and the   *)
(* index of its value; the values, of which erased entries leave some      *)
(* behind; the number of entries; and the number at which the table grows. *)
(* An iterator is a pair of a bucket and a position in it, or None.        *)
(***************************************************************************)
EXTENDS Integers, Sequences, SequencesExt, FiniteSets

CONSTANTS
  None,         \* no value, no node, the end iterator
  Hash(_),      \* hash_key
  MaxLoad,      \* max_load_factor
  GrowthFactor, \* of power_of_two_growth_policy
  MaxIndex      \* max_size: how many values an index can tell apart

ASSUME LoadAssumption == MaxLoad \in Nat \ {0} /\ GrowthFactor \in Nat \ {0, 1}

(* power_of_two_growth_policy: the constructor rounds the count up, and    *)
(* 0 stays 0.                                                              *)
RoundUp(n) ==
  IF n = 0 THEN 0
  ELSE 2 ^ (CHOOSE i \in 0 .. n : 2 ^ i >= n /\ \A j \in 0 .. i - 1 : 2 ^ j < n)

BucketForHash(key, count) == IF count = 0 THEN 1 ELSE 1 + (Hash(key) % count)

CeilDiv(n, d) == (n + d - 1) \div d

-----------------------------------------------------------------------------
NewArray(n) ==
  [buckets   |-> [i \in 1 .. RoundUp(n) |-> << >>],
   values    |-> << >>,
   nb        |-> 0,
   threshold |-> RoundUp(n) * MaxLoad]

(* The bucket of a key: the static empty bucket if the table has none.     *)
BucketOf(a, key) ==
  IF a.buckets = << >> THEN << >> ELSE a.buckets[BucketForHash(key, Len(a.buckets))]

(* array_bucket: append, and erase of a position.                          *)
BucketAppend(bucket, entry) == Append(bucket, entry)
BucketErase(bucket, i) == RemoveAt(bucket, i)

IndexIn(bucket, key) == SelectInSeq(bucket, LAMBDA e : e.key = key)

(* find_ks                                                                 *)
ArrayFind(a, key) ==
  LET i == IndexIn(BucketOf(a, key), key)
  IN  IF i = 0 THEN None ELSE <<BucketForHash(key, Len(a.buckets)), i>>

(* The first entry of the buckets from b on; begin() is that from 1.       *)
FirstFrom(a, b) ==
  LET full == {i \in b .. Len(a.buckets) : a.buckets[i] # << >>}
  IN  IF full = {} THEN None ELSE <<CHOOSE i \in full : \A j \in full : i <= j, 1>>

(* operator++ of the iterator.                                             *)
ArrayNext(a, p) ==
  IF p[2] < Len(a.buckets[p[1]]) THEN <<p[1], p[2] + 1>> ELSE FirstFrom(a, p[1] + 1)

ArrayEntry(a, p) == a.buckets[p[1]][p[2]]
ArrayValue(a, p) == a.values[ArrayEntry(a, p).idx]

-----------------------------------------------------------------------------
(* should_clear_old_erased_values, with the threshold in tenths.           *)
Sparse(a, tenths) == a.values # << >> /\ 10 * a.nb < tenths * Len(a.values)

(* clear_old_erased_values: the values in the order of the entries, whose  *)
(* indices become their positions.                                         *)
ClearOldErasedValues_KeepsIndices(a) ==
  LET items == FlattenSeq(a.buckets)
  IN  [a EXCEPT !.values = [i \in DOMAIN @ |-> @[IF i <= Len(items) THEN items[i].idx ELSE i]]]

ClearOldErasedValues(a) ==
  LET items     == FlattenSeq(a.buckets)
      before(b) == Len(FlattenSeq(SubSeq(a.buckets, 1, b - 1)))
  IN  IF a.nb = Len(a.values) THEN a
      ELSE [a EXCEPT
             !.values  = [i \in DOMAIN items |-> a.values[items[i].idx]],
             !.buckets = [b \in DOMAIN @ |-> [i \in DOMAIN @[b] |->
                            [@[b][i] EXCEPT !.idx = before(b) + i]]]]

(* rehash_impl                                                             *)
Rehash(a, n) ==
  LET count == RoundUp(n)
      c     == IF Sparse(a, 9) THEN ClearOldErasedValues(a) ELSE a
  IN  IF count = Len(a.buckets) THEN a
      ELSE [c EXCEPT
             !.buckets   = [b \in 1 .. count |->
                             SelectSeq(FlattenSeq(c.buckets),
                                       LAMBDA e : BucketForHash(e.key, count) = b)],
             !.threshold = count * MaxLoad]

(* grow_on_high_load; next_bucket_count is (mask + 1) * GrowthFactor.      *)
GrowOnHighLoad(a) ==
  IF a.nb < a.threshold THEN a
  ELSE Rehash(a, (IF a.buckets = << >> THEN 1 ELSE Len(a.buckets)) * GrowthFactor)

(* emplace of a key that is not there: to the end of its bucket.           *)
Appended(a, key, value) ==
  LET b == BucketForHash(key, Len(a.buckets))
  IN  [a EXCEPT !.values     = Append(@, value),
                !.buckets[b] = BucketAppend(@, [key |-> key, idx |-> Len(a.values) + 1]),
                !.nb         = @ + 1]

(* emplace: "present" leaves the value; "full" is the length_error.        *)
Emplace(a, key, value) ==
  LET grown == GrowOnHighLoad(a)
      c     == IF Len(grown.values) >= MaxIndex THEN ClearOldErasedValues(grown) ELSE grown
  IN  IF ArrayFind(a, key) # None THEN [array |-> a, ret |-> "present"]
      ELSE IF Len(c.values) >= MaxIndex THEN [array |-> c, ret |-> "full"]
      ELSE [array |-> Appended(c, key, value), ret |-> "inserted"]

(* erase of an iterator: the value stays behind.                           *)
ArrayErase(a, p) ==
  LET c == IF Sparse(a, 6) THEN ClearOldErasedValues(a) ELSE a
  IN  [c EXCEPT !.buckets[p[1]] = BucketErase(@, p[2]), !.nb = @ - 1]

(* What erase returns: the entry that took the place, or the next bucket.  *)
AfterErase(a, p) ==
  IF p[2] <= Len(a.buckets[p[1]]) THEN p ELSE FirstFrom(a, p[1] + 1)

ArrayAssign(a, p, value) == [a EXCEPT !.values[ArrayEntry(a, p).idx] = value]

ArrayShrink(a) == Rehash(ClearOldErasedValues(a), CeilDiv(a.nb, MaxLoad))

(***************************************************************************)
(* serialize writes the values next to the keys.  deserialize numbers them *)
(* anew; it sets the load factor before the buckets are there, so that the *)
(* threshold is 0.  Unless the hash is known to be the same, each key goes *)
(* to the bucket its hash names now.                                       *)
(***************************************************************************)
ArraySerialize(a) ==
  [b \in DOMAIN a.buckets |-> [i \in DOMAIN a.buckets[b] |->
     [key |-> a.buckets[b][i].key, value |-> ArrayValue(a, <<b, i>>)]]]

ArrayDeserialize(s, compatible) ==
  LET items     == FlattenSeq(s)
      before(b) == Len(FlattenSeq(SubSeq(s, 1, b - 1)))
      read      == [b \in DOMAIN s |-> [i \in DOMAIN s[b] |->
                      [key |-> s[b][i].key, idx |-> before(b) + i]]]
  IN  [buckets   |-> IF compatible THEN read
                     ELSE [b \in DOMAIN s |->
                            SelectSeq(FlattenSeq(read),
                                      LAMBDA e : BucketForHash(e.key, Len(s)) = b)],
       values    |-> [i \in DOMAIN items |-> items[i].value],
       nb        |-> Len(items),
       threshold |-> 0]

-----------------------------------------------------------------------------
(* What every operation relies on: an entry is in the bucket of its key,   *)
(* no key is there twice, no two entries share a value, and the count is   *)
(* that of the entries.                                                    *)
ArrayOK(a) ==
  LET items == FlattenSeq(a.buckets)
  IN  /\ a.nb = Len(items)
      /\ \A i, j \in DOMAIN items : i # j => /\ items[i].key # items[j].key
                                             /\ items[i].idx # items[j].idx
      /\ \A i \in DOMAIN items : items[i].idx \in DOMAIN a.values
      /\ \A b \in DOMAIN a.buckets : \A i \in DOMAIN a.buckets[b] :
           BucketForHash(a.buckets[b][i].key, Len(a.buckets)) = b
      /\ Len(a.values) <= MaxIndex
=============================================================================
