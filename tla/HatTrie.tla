------------------------------- MODULE HatTrie -------------------------------
(***************************************************************************)
(* htrie_hash behind htrie_map (src/thirdparty/include/tsl/htrie_hash.h,   *)
(* htrie_map.h): the prefix tree in which the Server's router keeps its    *)
(* routes and looks up the longest one that a request's URI begins with.   *)
(*                                                                         *)
(* A node is a hash node, which holds the rest of its keys in a table of   *)
(* ArrayHash, or a trie node, with the value of the key that ends there    *)
(* and a child for each next character.  A hash node that grows to the     *)
(* threshold bursts into a trie node; a node left empty is removed with    *)
(* the ancestors that have nothing else.                                   *)
(*                                                                         *)
(* A pointer to a node is the path to it.  An iterator is a path and, in a *)
(* hash node, a position in its table (None in a trie node); the end is    *)
(* None.                                                                   *)
(***************************************************************************)
EXTENDS ArrayHash

CONSTANTS
  Char,           \* the characters, integers in the order of their codes
  Key, Probe,     \* the keys that are inserted, and the strings looked up
  Value(_),       \* the values that a key may be given
  InitBuckets,    \* HASH_NODE_DEFAULT_INIT_BUCKETS_COUNT
  BurstThreshold, \* m_burst_threshold
  MaxBuckets      \* bound: the largest table that is reloaded

ASSUME BurstAssumption == BurstThreshold >= 4 \* MIN_BURST_THRESHOLD

VARIABLES
  root,  \* m_root
  nb,    \* m_nb_elements
  map    \* what was inserted and not erased: a value or None for each key

vars == <<root, nb, map>>

-----------------------------------------------------------------------------
HashNode(a) == [hash |-> TRUE, array |-> a]
TrieNode == [hash |-> FALSE, value |-> None, child |-> [c \in Char |-> None]]

Children(n) == {c \in Char : n.child[c] # None}
Least(S) == CHOOSE c \in S : \A d \in S : c <= d

RECURSIVE Path(_, _)
Path(n, p) == IF p = << >> THEN n ELSE Path(n.child[Head(p)], Tail(p))

RECURSIVE Put(_, _, _)
Put(n, p, x) ==
  IF p = << >> THEN x ELSE [n EXCEPT !.child[Head(p)] = Put(@, Tail(p), x)]

At(p, pos) == [at |-> p, pos |-> pos]

-----------------------------------------------------------------------------
(***************************************************************************)
(* Iteration: cbegin and cend of a node, operator++, the key and the value.*)
(***************************************************************************)
(* The first element at or below a node: most_left_descendant_value_...    *)
RECURSIVE Leftmost(_, _)
Leftmost(r, p) ==
  LET n == Path(r, p)
  IN  IF n.hash THEN At(p, FirstFrom(n.array, 1))
      ELSE IF n.value # None THEN At(p, None)
      ELSE Leftmost(r, Append(p, Least(Children(n))))

(* The first element after all those of a node: set_next_node_ascending.   *)
RECURSIVE After(_, _)
After(r, p) ==
  IF p = << >> THEN None
  ELSE LET later == {c \in Children(Path(r, Front(p))) : c > Last(p)}
       IN  IF later = {} THEN After(r, Front(p))
           ELSE Leftmost(r, Append(Front(p), Least(later)))

(* cbegin and cend of a node.                                              *)
NodeBegin(r, p) == Leftmost(r, p)
NodeEnd(r, p) == After(r, p)

Begin(r) == IF nb = 0 THEN None ELSE NodeBegin(r, << >>)

Next_(r, it) ==
  LET n == Path(r, it.at)
  IN  IF it.pos = None
      THEN IF Children(n) = {} THEN After(r, it.at)
           ELSE Leftmost(r, Append(it.at, Least(Children(n))))
      ELSE LET q == ArrayNext(n.array, it.pos)
           IN  IF q = None THEN After(r, it.at) ELSE At(it.at, q)

KeyAt(r, it) ==
  IF it.pos = None THEN it.at ELSE it.at \o ArrayEntry(Path(r, it.at).array, it.pos).key

ValueAt(r, it) ==
  LET n == Path(r, it.at) IN IF it.pos = None THEN n.value ELSE ArrayValue(n.array, it.pos)

(* filter_prefix, on the hash node where the prefix ends.                  *)
Filter_FirstMatchOnly(r, p, pos, rest) ==
  IF pos # None /\ IsPrefix(rest, ArrayEntry(Path(r, p).array, pos).key) THEN At(p, pos)
  ELSE After(r, p)

RECURSIVE Filter(_, _, _, _)
Filter(r, p, pos, rest) ==
  IF pos = None THEN After(r, p)
  ELSE IF IsPrefix(rest, ArrayEntry(Path(r, p).array, pos).key) THEN At(p, pos)
  ELSE Filter(r, p, ArrayNext(Path(r, p).array, pos), rest)

(* The keys from an iterator to another, by operator++ of the iterator or  *)
(* of the prefix iterator: within the first node it skips what the filter  *)
(* does not match.                                                         *)
RECURSIVE Collect(_, _, _, _, _)
Collect(r, it, end, p, rest) ==
  IF it = end THEN << >>
  ELSE LET n == Path(r, it.at)
           next == IF it.at = p /\ it.pos # None THEN Filter(r, p, ArrayNext(n.array, it.pos), rest)
                   ELSE Next_(r, it)
       IN  <<KeyAt(r, it)>> \o Collect(r, next, end, p, rest)

Iteration(r) == Collect(r, Begin(r), None, << >>, << >>)

(* How far into the tree a string leads: the longest path of trie nodes    *)
(* that spells a prefix of it, and one step more to a child that exists.   *)
RECURSIVE Descend(_, _, _)
Descend(r, p, rest) ==
  LET n == Path(r, p)
  IN  IF n.hash \/ rest = << >> \/ n.child[Head(rest)] = None THEN p
      ELSE Descend(r, Append(p, Head(rest)), Tail(rest))

Rest(p, s) == SubSeq(s, Len(p) + 1, Len(s))

(* equal_prefix_range_impl                                                 *)
PrefixRange(r, prefix) ==
  IF r = None THEN << >>
  ELSE LET p == Descend(r, << >>, prefix)
           n == Path(r, p)
           rest == Rest(p, prefix)
       IN  IF ~n.hash /\ rest # << >> THEN << >>
           ELSE Collect(r, IF rest = << >> THEN NodeBegin(r, p)
                           ELSE Filter(r, p, FirstFrom(n.array, 1), rest),
                        NodeEnd(r, p), p, rest)

-----------------------------------------------------------------------------
(***************************************************************************)
(* Lookup.                                                                 *)
(***************************************************************************)
(* find_impl, find_in_hash_node                                            *)
Find(r, key) ==
  IF r = None THEN None
  ELSE LET p == Descend(r, << >>, key)
           n == Path(r, p)
           pos == IF n.hash THEN ArrayFind(n.array, Rest(p, key)) ELSE None
       IN  IF n.hash THEN IF pos = None THEN None ELSE At(p, pos)
           ELSE IF p = key /\ n.value # None THEN At(p, None) ELSE None

(***************************************************************************)
(* longest_prefix_impl: the last value passed on the way down; in a hash   *)
(* node the remaining string is tried, then its prefixes, longest first.   *)
(***************************************************************************)
LongestOf(S) == CHOOSE s \in S : \A t \in S : Len(t) <= Len(s)

LongestPrefix(r, s) ==
  IF r = None THEN None
  ELSE LET p == Descend(r, << >>, s)
           n == Path(r, p)
           tries == {t \in Prefixes(Rest(p, s)) : n.hash /\ ArrayFind(n.array, t) # None}
           passed == {q \in Prefixes(p) : ~Path(r, q).hash /\ Path(r, q).value # None}
       IN  IF tries # {} THEN At(p, ArrayFind(n.array, LongestOf(tries)))
           ELSE IF passed = {} THEN None ELSE At(LongestOf(passed), None)

-----------------------------------------------------------------------------
(***************************************************************************)
(* Insertion.                                                              *)
(***************************************************************************)
(* burst: every entry goes, in the order of the table, to the child of its *)
(* first character, whose table is made for as many as there are.          *)
StartingWith(items, c) == SelectSeq(items, LAMBDA e : e.key # << >> /\ Head(e.key) = c)

ArrayForChar(n) == NewArray(CeilDiv(n + InitBuckets \div 2, MaxLoad))

InsertAll(a, items) ==
  FoldLeft(LAMBDA b, e : Emplace(b, Tail(e.key), e.value).array, a, items)

Burst(a) ==
  LET of(c) == StartingWith(FlattenSeq(ArraySerialize(a)), c)
      here  == ArrayFind(a, << >>)
  IN  [hash  |-> FALSE,
       value |-> IF here = None THEN None ELSE ArrayValue(a, here),
       child |-> [c \in Char |->
         IF of(c) = << >> THEN None
         ELSE HashNode(InsertAll(ArrayForChar(Len(of(c))), of(c)))]]

(* insert_impl and insert_in_hash_node, which bursts a full node even if   *)
(* the key is there already.                                               *)
RECURSIVE InsertImpl(_, _, _)
InsertImpl(n, key, value) ==
  IF n.hash
  THEN IF n.array.nb >= BurstThreshold THEN InsertImpl(Burst(n.array), key, value)
       ELSE LET e == Emplace(n.array, key, value)
            IN  [node |-> HashNode(e.array), ret |-> e.ret]
  ELSE IF key = << >>
  THEN IF n.value # None THEN [node |-> n, ret |-> "present"]
       ELSE [node |-> [n EXCEPT !.value = value], ret |-> "inserted"]
  ELSE LET c == Head(key)
           e == IF n.child[c] # None THEN InsertImpl(n.child[c], Tail(key), value)
                ELSE [node |-> HashNode(Emplace(NewArray(InitBuckets), Tail(key), value).array),
                      ret  |-> "inserted"]
       IN  [node |-> [n EXCEPT !.child[c] = e.node], ret |-> e.ret]

-----------------------------------------------------------------------------
(***************************************************************************)
(* Erasure.                                                                *)
(***************************************************************************)
(* clear_empty_nodes: an empty node goes; if its parent has nothing else   *)
(* the node takes the parent's place and goes from there.                  *)
ClearEmptyNodes_OnlyTheNode(r, p) ==
  IF p = << >> THEN None ELSE Put(r, p, None)

RECURSIVE ClearEmptyNodes(_, _)
ClearEmptyNodes(r, p) ==
  IF p = << >> THEN None
  ELSE LET parent == Path(r, Front(p))
       IN  IF parent.value # None \/ Cardinality(Children(parent)) > 1 THEN Put(r, p, None)
           ELSE IF Len(p) = 1 THEN None
           ELSE ClearEmptyNodes(Put(r, Front(p), Path(r, p)), Front(p))

(* erase of an iterator: what is left of the tree.                         *)
EraseIt(r, it) ==
  LET n == Path(r, it.at)
      a == ArrayErase(n.array, it.pos)
      s == Put(r, it.at, IF it.pos = None THEN [n EXCEPT !.value = None] ELSE HashNode(a))
      empty == IF it.pos = None THEN Children(n) = {} ELSE a.nb = 0
  IN  IF empty THEN ClearEmptyNodes(s, it.at) ELSE s

EraseRet_Stale(r, it) == Next_(r, it)

(* And what it returns: the next element in the table, or the one that     *)
(* came next before.                                                       *)
EraseRet(r, it) ==
  LET a == ArrayErase(Path(r, it.at).array, it.pos)
      q == AfterErase(a, it.pos)
  IN  IF it.pos # None /\ q # None THEN At(it.at, q) ELSE Next_(r, it)

(* shrink_to_fit on every hash node.                                       *)
RECURSIVE Shrunk(_)
Shrunk(n) ==
  IF n.hash THEN HashNode(ArrayShrink(n.array))
  ELSE [n EXCEPT !.child = [c \in Char |-> IF @[c] = None THEN None ELSE Shrunk(@[c])]]

(* erase of a range: as many times as there are elements in it.            *)
RECURSIVE EraseN(_, _, _)
EraseN(r, it, n) ==
  IF n = 0 THEN r ELSE EraseN(EraseIt(r, it), EraseRet(r, it), n - 1)

-----------------------------------------------------------------------------
(***************************************************************************)
(* serialize writes the values of trie nodes and the tables of hash nodes, *)
(* each with its path; deserialize makes the trie nodes on the way.        *)
(***************************************************************************)
RECURSIVE Parts(_, _)
Parts(r, it) ==
  IF it = None THEN << >>
  ELSE LET n == Path(r, it.at)
       IN  IF it.pos = None
           THEN <<[prefix |-> it.at, hash |-> FALSE, body |-> n.value]>> \o Parts(r, Next_(r, it))
           ELSE <<[prefix |-> it.at, hash |-> TRUE, body |-> ArraySerialize(n.array)]>>
                \o Parts(r, After(r, it.at))

InsertPrefixTrieNodes(r, p) ==
  FoldLeft(LAMBDA t, i : IF Path(t, SubSeq(p, 1, i)) # None THEN t
                         ELSE Put(t, SubSeq(p, 1, i), TrieNode),
           IF r = None THEN TrieNode ELSE r, [i \in 1 .. Len(p) |-> i])

Deserialize(parts, compatible) ==
  FoldLeft(LAMBDA r, part :
             IF ~part.hash
             THEN LET t == InsertPrefixTrieNodes(r, part.prefix)
                  IN  Put(t, part.prefix, [Path(t, part.prefix) EXCEPT !.value = part.body])
             ELSE LET h == HashNode(ArrayDeserialize(part.body, compatible))
                  IN  IF part.prefix = << >> THEN h
                      ELSE Put(InsertPrefixTrieNodes(r, Front(part.prefix)), part.prefix, h),
           None, parts)

CountParts(parts) ==
  FoldLeft(LAMBDA n, part : n + IF part.hash THEN Len(FlattenSeq(part.body)) ELSE 1, 0, parts)

-----------------------------------------------------------------------------
Init == root = None /\ nb = 0 /\ map = [k \in Key |-> None]

Insert(k, v) ==
  LET r == IF root = None THEN HashNode(NewArray(InitBuckets)) ELSE root
      e == InsertImpl(r, k, v)
  IN  /\ root' = e.node
      /\ nb' = IF e.ret = "inserted" THEN nb + 1 ELSE nb
      /\ map' = IF e.ret = "inserted" THEN [map EXCEPT ![k] = v] ELSE map

(* operator[] of a key that is there, and an assignment to its value.      *)
Assign(k, v) ==
  LET it == Find(root, k)
      n  == Path(root, it.at)
  IN  /\ it # None
      /\ root' = Put(root, it.at,
                     IF it.pos = None THEN [n EXCEPT !.value = v]
                     ELSE HashNode(ArrayAssign(n.array, it.pos, v)))
      /\ map' = [map EXCEPT ![k] = v]
      /\ UNCHANGED nb

Erase(k) ==
  /\ Find(root, k) # None
  /\ root' = EraseIt(root, Find(root, k))
  /\ nb' = nb - 1
  /\ map' = [map EXCEPT ![k] = None]

(* The range from a key on, of n elements.                                 *)
EraseRange(k, n) ==
  LET keys == Iteration(root)
      i    == SelectInSeq(keys, LAMBDA x : x = k)
  IN  /\ i # 0 /\ i + n - 1 <= Len(keys)
      /\ root' = EraseN(root, Find(root, k), n)
      /\ nb' = nb - n
      /\ map' = [x \in Key |-> IF x \in ToSet(SubSeq(keys, i, i + n - 1)) THEN None ELSE map[x]]

Clear ==
  /\ root' = None /\ nb' = 0
  /\ map' = [k \in Key |-> None]

ShrinkToFit ==
  /\ root # None
  /\ root' = Shrunk(root)
  /\ UNCHANGED <<nb, map>>

(* A map serialized, and a new one deserialized from it.  With the         *)
(* threshold 0 the next insertion makes the table larger, however few      *)
(* entries it has, so the number of buckets needs a bound.                 *)
Reload(compatible) ==
  LET parts == Parts(root, Begin(root))
  IN  /\ \A i \in DOMAIN parts : parts[i].hash => Len(parts[i].body) <= MaxBuckets
      /\ root' = Deserialize(parts, compatible)
      /\ nb' = CountParts(parts)
      /\ UNCHANGED map

(***************************************************************************)
(* erase_prefix, which the Server does not use.  A parent without children *)
(* is removed whether or not it has a value, and a hash node stays even if *)
(* none of its entries is left.                                            *)
(***************************************************************************)
RECURSIVE EraseMatching(_, _, _)
EraseMatching(a, pos, prefix) ==
  IF pos = None THEN a
  ELSE IF ~IsPrefix(prefix, ArrayEntry(a, pos).key) THEN EraseMatching(a, ArrayNext(a, pos), prefix)
  ELSE LET b == ArrayErase(a, pos) IN EraseMatching(b, AfterErase(b, pos), prefix)

(* size_descendants counts the elements of a trie node one by one, and     *)
(* those of a hash node together.                                          *)
RECURSIVE SizeFrom(_, _, _)
SizeFrom(r, it, end) ==
  IF it = end THEN 0
  ELSE IF it.pos = None THEN 1 + SizeFrom(r, Next_(r, it), end)
  ELSE Path(r, it.at).array.nb + SizeFrom(r, After(r, it.at), end)

SizeDescendants(r, p) == SizeFrom(r, NodeBegin(r, p), NodeEnd(r, p))

ErasePrefix(prefix) ==
  LET p    == Descend(root, << >>, prefix)
      n    == Path(root, p)
      rest == Rest(p, prefix)
      left == EraseMatching(n.array, FirstFrom(n.array, 1), rest)
      cut  == Put(root, p, None)
  IN  /\ root # None
      /\ n.hash \/ rest = << >>
      /\ root' = IF rest # << >>
                 THEN Put(root, p, HashNode(left))
                 ELSE IF n.hash THEN ClearEmptyNodes(root, p)
                 ELSE IF p = << >> THEN None
                 ELSE IF Children(Path(cut, Front(p))) = {} THEN ClearEmptyNodes(cut, Front(p))
                 ELSE cut
      /\ nb' = nb - (IF rest # << >> THEN n.array.nb - left.nb
                     ELSE IF n.hash THEN n.array.nb
                     ELSE IF p = << >> THEN nb ELSE SizeDescendants(root, p))
      /\ map' = [k \in Key |-> IF IsPrefix(prefix, k) THEN None ELSE map[k]]

Next ==
  \/ \E k \in Key : \E v \in Value(k) : Insert(k, v) \/ Assign(k, v)
  \/ \E k \in Key : Erase(k)
  \/ \E k \in Key, n \in 2 .. Cardinality(Key) : EraseRange(k, n)
  \/ Clear \/ ShrinkToFit
  \/ \E compatible \in BOOLEAN : Reload(compatible)

Spec == Init /\ [][Next]_vars

PrefixSpec == Init /\ [][Next \/ \E s \in Probe : ErasePrefix(s)]_vars

-----------------------------------------------------------------------------
(***************************************************************************)
(* Correctness.                                                            *)
(***************************************************************************)
Present == {k \in Key : map[k] # None}

(* find answers for every key with the value it was last given, however    *)
(* the tree burst, shrank and moved since, and size() counts the keys.     *)
FindsWhatIsThere ==
  /\ nb = Cardinality(Present)
  /\ \A k \in Key : LET it == Find(root, k)
                     IN  IF map[k] = None THEN it = None
                         ELSE it # None /\ KeyAt(root, it) = k /\ ValueAt(root, it) = map[k]

(* Iteration meets every key exactly once, and the range of a prefix is    *)
(* exactly the keys that begin with it.                                    *)
RangesComplete ==
  /\ LET keys == Iteration(root) IN Len(keys) = nb /\ ToSet(keys) = Present
  /\ \A s \in Probe : LET keys == PrefixRange(root, s)
                       IN  /\ ToSet(keys) = {k \in Present : IsPrefix(s, k)}
                           /\ Len(keys) = Cardinality(ToSet(keys))

(* longest_prefix, by which requests are routed, finds the longest key     *)
(* that the string begins with.                                            *)
LongestPrefixFound ==
  \A s \in Probe :
    LET fits == {k \in Present : IsPrefix(k, s)}
        it   == LongestPrefix(root, s)
    IN  IF fits = {} THEN it = None ELSE it # None /\ KeyAt(root, it) = LongestOf(fits)

(* What callers search the tree for they find: both of the above.          *)
SearchesComplete == RangesComplete /\ LongestPrefixFound

(* "There can't be a trie node without any child and no value node": every *)
(* node has an element at or below it, and every table is in order.        *)
RECURSIVE NodeOK(_)
NodeOK(n) ==
  IF n.hash THEN ArrayOK(n.array) /\ n.array.nb > 0
  ELSE /\ n.value # None \/ Children(n) # {}
       /\ \A c \in Children(n) : NodeOK(n.child[c])

NoEmptyNode == root = None \/ NodeOK(root)

(* An iterator that may be used: its node is in the tree, and its position *)
(* in the table.                                                           *)
RECURSIVE Reaches(_, _)
Reaches(n, p) ==
  n # None /\ (p # << >> => ~n.hash /\ Reaches(n.child[Head(p)], Tail(p)))

Usable(r, it) ==
  /\ Reaches(r, it.at)
  /\ LET n == Path(r, it.at)
     IN  IF it.pos = None THEN ~n.hash /\ n.value # None
         ELSE n.hash /\ it.pos[2] \in DOMAIN n.array.buckets[it.pos[1]]

(* erase returns an iterator to the element that came after, which can be  *)
(* used although nodes were removed.                                       *)
EraseReturnsNext ==
  LET keys == Iteration(root)
  IN  \A i \in DOMAIN keys :
        LET it   == Find(root, keys[i])
            ret  == EraseRet(root, it)
            left == EraseIt(root, it)
        IN  IF i = Len(keys) THEN ret = None
            ELSE Usable(left, ret) /\ KeyAt(left, ret) = keys[i + 1]
=============================================================================
